-------------------------- MODULE DeploymentHistory --------------------------
(***************************************************************************)
(* What the deployment history page (/api/apps/{id}/deployments and        *)
(* /api/deployments) promises about a row, without the requests, sessions  *)
(* and containers that make it happen.  A row is queued once, runs once,   *)
(* its reported stage only moves forward, and its outcome is final.  A     *)
(* panel restart closes every open row at once.  Rows disappear only       *)
(* together with their app.                                                *)
(***************************************************************************)
EXTENDS Integers

CONSTANT Rows          \* primary keys of the deployments table

VARIABLE log           \* log[d]: the status and stage of row d

Open == {"queued", "running"}

(* The stages in the order their progress percentages put them:            *)
(* 5 and 8, 18, 30, 42 to 78, 90 and 92.                                    *)
WorkStages ==
  {"preparing", "generating_build", "building_image", "starting", "verifying"}

Percent(stage) ==
  CASE stage = "preparing" -> 5
    [] stage = "generating_build" -> 18
    [] stage = "building_image" -> 30
    [] stage = "starting" -> 42
    [] stage = "verifying" -> 90

NoEntry == [status |-> "absent", stage |-> "none"]

Init == log = [d \in Rows |-> NoEntry]

Queue(d) ==
  /\ log[d] = NoEntry
  /\ log' = [log EXCEPT ![d] = [status |-> "queued", stage |-> "queued"]]

Start(d) ==
  /\ log[d].status = "queued"
  /\ log' = [log EXCEPT ![d] = [status |-> "running", stage |-> "preparing"]]

Report(d) ==
  /\ log[d].status = "running"
  /\ \E s \in WorkStages :
       /\ Percent(s) > Percent(log[d].stage)
       /\ log' = [log EXCEPT ![d].stage = s]

Finish(d) ==
  /\ log[d].status = "running"
  /\ \E outcome \in {"completed", "failed"} :
       log' = [log EXCEPT ![d] = [status |-> outcome, stage |-> outcome]]

(* A restart closes all the open rows in one transaction.                  *)
Interrupt ==
  log' = [d \in Rows |-> IF log[d].status \in Open
                         THEN [status |-> "failed", stage |-> "interrupted"]
                         ELSE log[d]]

(* Deleting an app deletes the rows its session loaded.                    *)
Forget ==
  \E S \in SUBSET {d \in Rows : log[d] # NoEntry} :
    log' = [d \in Rows |-> IF d \in S THEN [status |-> "deleted", stage |-> "none"]
                                     ELSE log[d]]

Next ==
  \/ \E d \in Rows : Queue(d) \/ Start(d) \/ Report(d) \/ Finish(d)
  \/ Interrupt
  \/ Forget

Spec == Init /\ [][Next]_log
=============================================================================
