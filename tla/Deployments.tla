----------------------------- MODULE Deployments -----------------------------
(***************************************************************************)
(* The life of an app and of its deployment rows in the panel              *)
(* (app/routers/apps.py, the deploy pipeline of docker_service.py, the      *)
(* status writes of app/routers/backups.py's restore, and the startup       *)
(* reconciliation of deployment_state_service.py).                          *)
(*                                                                         *)
(* One request is one thread with one SQLAlchemy session at a time; a       *)
(* background task continues its request with a session of its own.  Every  *)
(* SELECT, every commit and every docker command is a step, because         *)
(* nothing in the panel prevents another thread from running between two    *)
(* of them.  A session remembers the status it read last (seen) and its     *)
(* commit emits an UPDATE only for a value that differs from what it        *)
(* remembers; after a commit it remembers nothing (Expired).                *)
(*                                                                         *)
(* Abstractions: primary keys are not reused; commands and commits on the   *)
(* local SQLite file fail only where the code looks at the result; every    *)
(* container state docker reports other than "running" is "exited".         *)
(***************************************************************************)
EXTENDS Integers, FiniteSets

CONSTANTS
  Apps,        \* rows of the apps table
  Built,       \* the apps whose image is built from their source
  Requests,    \* concurrent HTTP requests, each with its background task
  Rows,        \* rows of the deployments table
  Ops,         \* the operations the requests of a run perform
  None         \* no app, no row

AllOps == {"deploy", "list", "get", "start", "stop", "restart", "delete", "restore"}

ASSUME NoneAssumption == None \notin Apps /\ None \notin Rows
ASSUME BuiltAssumption == Built \subseteq Apps
ASSUME OpsAssumption == Ops \subseteq AllOps

VARIABLES
  up,          \* the panel process is serving
  status,      \* App.status, "absent" before and "gone" after its row exists
  dep,         \* the deployments table
  container,   \* docker's container of each app
  at,          \* where each request is
  sess         \* what each request's session and locals hold

vars == <<up, status, dep, container, at, sess>>

AppStatuses ==
  {"created", "deploying", "restoring", "running", "exited", "stopped", "failed"}
ActiveStatuses == {"queued", "running"}
DepStatuses == ActiveStatuses \cup {"absent", "completed", "failed", "deleted"}
Stages == {"none", "queued", "preparing", "generating_build", "building_image",
           "starting", "verifying", "completed", "failed", "interrupted"}
Containers == {"none", "running", "exited"}
Expired == "expired"
Undecided == "undecided"

Exists(a) == status[a] \notin {"absent", "gone"}

NoRow == [app |-> None, status |-> "absent", stage |-> "none"]

(* Locals of an idle request.                                               *)
NoSession == [op |-> "none", on |-> None, row |-> None, seen |-> Expired,
              want |-> Undecided, kids |-> {}]

(* The steps of a deploy pipeline, run by a deployment or by a restore.     *)
Pipeline == {"prepare", "validate", "remove", "generate_report", "generate",
             "build_report", "build", "start_report", "run", "verify",
             "verify_report", "broken", "finish"}
RequestSteps == {"idle", "deploy_check", "deploy_commit", "inspect", "poll_commit",
                 "action_exists", "action_run", "action_commit",
                 "delete_container", "delete_cascade", "delete_commit",
                 "restore_commit", "restore_load", "restore_files"}
Steps == RequestSteps \cup {"queued", "start"} \cup Pipeline

-----------------------------------------------------------------------------

Init ==
  /\ up = TRUE
  /\ status = [a \in Apps |-> "absent"]
  /\ dep = [d \in Rows |-> NoRow]
  /\ container = [a \in Apps |-> "none"]
  /\ at = [p \in Requests |-> "idle"]
  /\ sess = [p \in Requests |-> NoSession]

Goto(p, step, s) ==
  /\ at' = [at EXCEPT ![p] = step]
  /\ sess' = [sess EXCEPT ![p] = s]

Leave(p) == Goto(p, "idle", NoSession)

Seeing(p, value) == [sess[p] EXCEPT !.seen = value]
Wanting(p, value) == [sess[p] EXCEPT !.want = value]

On(p) == sess[p].on
Row(p) == sess[p].row

(* What the session's next flush does with app.status := v: nothing when    *)
(* it remembers that very value, an UPDATE otherwise.  An UPDATE of a       *)
(* deleted row raises StaleDataError and the commit has no effect.          *)
Flushes(p, v) == sess[p].seen # v
Stale(p, v) == Flushes(p, v) /\ ~Exists(On(p))
StatusAfter(p, v) ==
  IF Flushes(p, v) THEN [status EXCEPT ![On(p)] = v] ELSE status

-----------------------------------------------------------------------------
(* Requests: creation, and the SELECT every other handler begins with.      *)

CreateApp(a) ==
  /\ up
  /\ status[a] = "absent"
  /\ status' = [status EXCEPT ![a] = "created"]
  /\ UNCHANGED <<up, dep, container, at, sess>>

FirstStep(op) ==
  CASE op = "deploy" -> "deploy_check"
    [] op \in {"list", "get"} -> "inspect"
    [] op \in {"start", "stop", "restart"} -> "action_exists"
    [] op = "delete" -> "delete_container"
    [] op = "restore" -> "restore_commit"

(* Bound: a deploy request starts only while the table of this instance has *)
(* a free row for it and for those before it.                               *)
RowBudget(op) ==
  op = "deploy" =>
    Cardinality({p \in Requests : at[p] \in {"deploy_check", "deploy_commit"}})
      < Cardinality({d \in Rows : dep[d].status = "absent"})

(* _get_app, or the SELECT of list_apps: another thread may change the row  *)
(* from here on without this session noticing.                              *)
Begin(p, op, a) ==
  /\ up
  /\ at[p] = "idle"
  /\ Exists(a)
  /\ RowBudget(op)
  /\ Goto(p, FirstStep(op),
          [NoSession EXCEPT !.op = op, !.on = a, !.seen = status[a]])
  /\ UNCHANGED <<up, status, dep, container>>

-----------------------------------------------------------------------------
(* POST /{app_id}/deploy                                                     *)

ActiveRow(d) == dep[d].status \in ActiveStatuses
HasActive(a) == \E d \in Rows : dep[d].app = a /\ ActiveRow(d)

(* 503 without docker, 409 when a row of the app is active.                 *)
DeployCheck(p) ==
  /\ at[p] = "deploy_check"
  /\ \/ Leave(p)
     \/ ~HasActive(On(p)) /\ Goto(p, "deploy_commit", sess[p])
  /\ UNCHANGED <<up, status, dep, container>>

QueuedRow(a) == [app |-> a, status |-> "queued", stage |-> "queued"]

(* One transaction: the status and the new row; then the background task    *)
(* is added.  When the app was deleted meanwhile, the UPDATE fails the      *)
(* commit, or, without one, the row is stored and the refresh of app.id     *)
(* ends the request before the task exists.                                 *)
DeployCommit(p) ==
  /\ at[p] = "deploy_commit"
  /\ \/ /\ ~Exists(On(p))
        /\ Leave(p)
        /\ UNCHANGED <<status, dep>>
     \/ \E d \in Rows :
          /\ dep[d].status = "absent"
          /\ ~Stale(p, "deploying")
          /\ dep' = [dep EXCEPT ![d] = QueuedRow(On(p))]
          /\ status' = StatusAfter(p, "deploying")
          /\ IF Exists(On(p))
             THEN Goto(p, "queued", [sess[p] EXCEPT !.row = d, !.seen = Expired])
             ELSE Leave(p)
  /\ UNCHANGED <<up, container>>

-----------------------------------------------------------------------------
(* The deploy pipeline.  A worker is a request past its commit; row # None  *)
(* for a deployment, None for the deploy() call that ends a restore.        *)

(* A session reads app.status again when it remembers nothing; the read of  *)
(* a deleted app raises ObjectDeletedError, which ends the worker after the *)
(* handler finds no app.                                                    *)
Reread(p) == IF sess[p].seen = Expired THEN status[On(p)] ELSE sess[p].seen

RowDeleted(p) == dep[Row(p)].status = "deleted"

(* _deploy_background loads the app and the row, or returns.                *)
WorkerLoad(p) ==
  /\ at[p] = "queued"
  /\ IF Exists(On(p)) /\ ~RowDeleted(p)
     THEN Goto(p, "start", Seeing(p, status[On(p)]))
     ELSE Leave(p)
  /\ UNCHANGED <<up, status, dep, container>>

RunningRow(d, stage) == [dep[d] EXCEPT !.status = "running", !.stage = stage]

(* The commit that marks the row running; with the row or the app deleted   *)
(* since, it raises StaleDataError and the task dies.                       *)
WorkerStart(p) ==
  /\ at[p] = "start"
  /\ \/ /\ RowDeleted(p) \/ ~Exists(On(p))
        /\ Leave(p)
        /\ UNCHANGED <<status, dep>>
     \/ /\ ~RowDeleted(p) /\ ~Stale(p, "deploying")
        /\ dep' = [dep EXCEPT ![Row(p)] = RunningRow(Row(p), "preparing")]
        /\ status' = StatusAfter(p, "deploying")
        /\ Goto(p, "prepare", Seeing(p, Expired))
  /\ UNCHANGED <<up, container>>

(* report(stage, percent): commits the stage of a deployment, nothing for a *)
(* restore.  A deleted row raises; the handler then finds no row and ends.  *)
Report(p, here, stage, next) ==
  /\ at[p] = here
  /\ \/ Row(p) = None /\ Goto(p, next, sess[p]) /\ UNCHANGED dep
     \/ Row(p) # None /\ (RowDeleted(p) \/ ~Exists(On(p))) /\ Leave(p) /\ UNCHANGED dep
     \/ /\ Row(p) # None /\ ~RowDeleted(p)
        /\ dep' = [dep EXCEPT ![Row(p)].stage = stage]
        /\ Goto(p, next, Seeing(p, Expired))
  /\ UNCHANGED <<up, status, container>>

ReportPreparing(p) == Report(p, "prepare", "preparing", "validate")
ReportGenerate(p) == Report(p, "generate_report", "generating_build", "generate")
ReportBuild(p) == Report(p, "build_report", "building_image", "build")
ReportStart(p) == Report(p, "start_report", "starting", "run")
ReportVerifying(p) == Report(p, "verify_report", "verifying", "finish")

(* What deploy() may do at a step that reads the app: end with an error     *)
(* result, raise, or go on to next.                                         *)
Outcome(p, next) ==
  LET s == Seeing(p, Reread(p)) IN
  \/ Goto(p, next, s)
  \/ Goto(p, "finish", [s EXCEPT !.want = "failed"])
  \/ Goto(p, "broken", [s EXCEPT !.want = "failed"])

AppRead(p, next) ==
  IF sess[p].seen = Expired /\ ~Exists(On(p)) THEN Leave(p) ELSE Outcome(p, next)

(* validate_source, and for a public database its firewall: each may stop   *)
(* the deployment before the old container is touched.                      *)
Validate(p) ==
  /\ at[p] = "validate"
  /\ AppRead(p, "remove")
  /\ UNCHANGED <<up, status, dep, container>>

(* remove(app), whose result is ignored, and ensure_network.                *)
RemoveOld(p) ==
  /\ at[p] = "remove"
  /\ container' \in {container, [container EXCEPT ![On(p)] = "none"]}
  /\ \/ Goto(p, IF On(p) \in Built THEN "generate_report" ELSE "start_report", sess[p])
     \/ Goto(p, "finish", Wanting(p, "failed"))
  /\ UNCHANGED <<up, status, dep>>

GenerateDockerfile(p) ==
  /\ at[p] = "generate"
  /\ AppRead(p, "build_report")
  /\ UNCHANGED <<up, status, dep, container>>

(* docker build: up to half an hour in which anything else may happen.      *)
BuildImage(p) ==
  /\ at[p] = "build"
  /\ \/ Goto(p, "start_report", sess[p])
     \/ Goto(p, "finish", Wanting(p, "failed"))
  /\ UNCHANGED <<up, status, dep, container>>

(* docker run --name: fails when the name is taken; a failure or a timeout  *)
(* may leave the container in any state.                                    *)
RunContainer(p) ==
  LET s == Seeing(p, Reread(p))
      failed == [s EXCEPT !.want = "failed"] IN
  /\ at[p] = "run"
  /\ \/ /\ sess[p].seen = Expired /\ ~Exists(On(p))
        /\ Leave(p)
        /\ UNCHANGED container
     \/ /\ sess[p].seen # Expired \/ Exists(On(p))
        /\ \/ Goto(p, "broken", failed) /\ UNCHANGED container
           \/ /\ container[On(p)] = "none"
              /\ container' = [container EXCEPT ![On(p)] = "running"]
              /\ Goto(p, "verify", s)
           \/ /\ IF container[On(p)] = "none"
                 THEN \E c \in Containers : container' = [container EXCEPT ![On(p)] = c]
                 ELSE UNCHANGED container
              /\ Goto(p, "verify_report", failed)
  /\ UNCHANGED <<up, status, dep>>

(* _verify_running: docker inspect says running at one of four attempts.    *)
Verify(p) ==
  /\ at[p] = "verify"
  /\ \/ container[On(p)] = "running" /\ Goto(p, "verify_report", Wanting(p, "running"))
     \/ Goto(p, "verify_report", Wanting(p, "failed"))
  /\ UNCHANGED <<up, status, dep, container>>

(* The except branch: a deployment rolls back and loads the app and the row *)
(* again, or returns; a restore keeps what its session remembers.           *)
Broken(p) ==
  /\ at[p] = "broken"
  /\ IF Row(p) = None
     THEN Goto(p, "finish", sess[p])
     ELSE IF Exists(On(p)) /\ ~RowDeleted(p)
     THEN Goto(p, "finish", Seeing(p, status[On(p)]))
     ELSE Leave(p)
  /\ UNCHANGED <<up, status, dep, container>>

RowOutcomeRaw(want) == want
RowOutcome(want) == IF want = "running" THEN "completed" ELSE "failed"

(* The last commit of a worker: the app's status and the row together.      *)
Finish(p) ==
  LET want == sess[p].want IN
  /\ at[p] = "finish"
  /\ Leave(p)
  /\ \/ ~Exists(On(p)) /\ UNCHANGED <<status, dep>>
     \/ /\ ~Stale(p, want)
        /\ status' = StatusAfter(p, want)
        /\ \/ Row(p) = None /\ UNCHANGED dep
           \/ /\ Row(p) # None /\ ~RowDeleted(p)
              /\ dep' = [dep EXCEPT ![Row(p)].status = RowOutcome(want),
                                    ![Row(p)].stage = RowOutcome(want)]
  /\ UNCHANGED <<up, container>>

-----------------------------------------------------------------------------
(* GET /api/apps and GET /{app_id}: docker is asked, and the answer is      *)
(* committed over the status.  list_apps commits once for all its apps;     *)
(* here one app at a time, and a commit that another app's deletion fails   *)
(* is the write that is dropped.                                            *)

(* docker inspect may fail or time out, and then the app counts as stopped. *)
InspectResults(a) ==
  {"stopped"} \cup (IF container[a] = "none" THEN {} ELSE {container[a]})

Mapped(op, current, seen) ==
  IF current = "running"
  THEN IF op = "list" /\ seen = "failed" THEN seen ELSE "running"
  ELSE IF seen \in {"failed", "deploying"} THEN seen ELSE current

Inspect(p) ==
  /\ at[p] = "inspect"
  /\ \E current \in InspectResults(On(p)) :
       Goto(p, "poll_commit",
            Wanting(p, Mapped(sess[p].op, current, sess[p].seen)))
  /\ UNCHANGED <<up, status, dep, container>>

PollCommit(p) ==
  /\ at[p] = "poll_commit"
  /\ Leave(p)
  /\ \/ ~Stale(p, sess[p].want) /\ status' = StatusAfter(p, sess[p].want)
     \/ (sess[p].op = "list" \/ Stale(p, sess[p].want)) /\ UNCHANGED status
  /\ UNCHANGED <<up, dep, container>>

-----------------------------------------------------------------------------
(* POST /{app_id}/actions/{start, stop, restart}                             *)

ActionExists(p) ==
  /\ at[p] = "action_exists"
  /\ \/ container[On(p)] # "none" /\ Goto(p, "action_run", sess[p])
     \/ sess[p].op = "stop" /\ Goto(p, "action_commit", Wanting(p, "stopped"))
     \/ sess[p].op # "stop" /\ Leave(p)
  /\ UNCHANGED <<up, status, dep, container>>

(* docker start | stop | restart; an error changes no status (409).          *)
ActionRun(p) ==
  LET stop == sess[p].op = "stop" IN
  /\ at[p] = "action_run"
  /\ \/ /\ container[On(p)] # "none"
        /\ container' = [container EXCEPT ![On(p)] = IF stop THEN "exited" ELSE "running"]
        /\ Goto(p, "action_commit",
                Wanting(p, IF stop THEN "stopped" ELSE "running"))
     \/ Leave(p) /\ UNCHANGED container
  /\ UNCHANGED <<up, status, dep>>

ActionCommit(p) ==
  /\ at[p] = "action_commit"
  /\ Leave(p)
  /\ status' = IF Stale(p, sess[p].want) THEN status ELSE StatusAfter(p, sess[p].want)
  /\ UNCHANGED <<up, dep, container>>

-----------------------------------------------------------------------------
(* DELETE /{app_id}                                                          *)

DeleteContainer(p) ==
  /\ at[p] = "delete_container"
  /\ container' \in {container, [container EXCEPT ![On(p)] = "none"]}
  /\ Goto(p, "delete_cascade", sess[p])
  /\ UNCHANGED <<up, status, dep>>

(* db.delete(app) loads the rows the cascade will delete.                    *)
DeleteCascade(p) ==
  /\ at[p] = "delete_cascade"
  /\ Goto(p, "delete_commit",
          [sess[p] EXCEPT !.kids =
             {d \in Rows : dep[d].app = On(p) /\ dep[d].status # "deleted"}])
  /\ UNCHANGED <<up, status, dep, container>>

(* The rows loaded, and no others, go with the app.                          *)
DeleteCommit(p) ==
  /\ at[p] = "delete_commit"
  /\ dep' = [d \in Rows |-> IF d \in sess[p].kids
                            THEN [dep[d] EXCEPT !.status = "deleted", !.stage = "none"]
                            ELSE dep[d]]
  /\ status' = [status EXCEPT ![On(p)] = "gone"]
  /\ Leave(p)
  /\ UNCHANGED <<up, container>>

-----------------------------------------------------------------------------
(* POST /api/backups/items/{id}/restore and its background task: no check    *)
(* for a running deployment, no deployment row, then the same pipeline.      *)

RestoreCommit(p) ==
  /\ at[p] = "restore_commit"
  /\ IF Exists(On(p))
     THEN /\ status' = StatusAfter(p, "restoring")
          /\ Goto(p, "restore_load", Seeing(p, Expired))
     ELSE Leave(p) /\ UNCHANGED status
  /\ UNCHANGED <<up, dep, container>>

(* The task returns when the app or the backup row is gone.                  *)
RestoreLoad(p) ==
  /\ at[p] = "restore_load"
  /\ \/ Leave(p)
     \/ Exists(On(p)) /\ Goto(p, "restore_files", Seeing(p, status[On(p)]))
  /\ UNCHANGED <<up, status, dep, container>>

(* restore_backup: the archive, the source swap and the dump; it may raise.  *)
RestoreFiles(p) ==
  /\ at[p] = "restore_files"
  /\ \/ Goto(p, "prepare", sess[p])
     \/ Goto(p, "broken", Wanting(p, "failed"))
  /\ UNCHANGED <<up, status, dep, container>>

-----------------------------------------------------------------------------
(* Docker on its own: a container exits, its restart policy revives it.      *)

ContainerExits(a) ==
  /\ container[a] = "running"
  /\ container' = [container EXCEPT ![a] = "exited"]
  /\ UNCHANGED <<up, status, dep, at, sess>>

ContainerRevives(a) ==
  /\ container[a] = "exited"
  /\ container' = [container EXCEPT ![a] = "running"]
  /\ UNCHANGED <<up, status, dep, at, sess>>

(* The process dies: every request and background task with it.              *)
Crash ==
  /\ up
  /\ up' = FALSE
  /\ at' = [p \in Requests |-> "idle"]
  /\ sess' = [p \in Requests |-> NoSession]
  /\ UNCHANGED <<status, dep, container>>

(* The startup transaction that closes what the last process left open.      *)
InterruptedRunningOnly(d) == dep[d].status = "running"
InterruptedUnlessCompleted(d) ==
  dep[d].status \notin {"absent", "deleted", "completed"}
Interrupted(d) == ActiveRow(d)
ReconciledRow(d) == [dep[d] EXCEPT !.status = "failed", !.stage = "interrupted"]
AffectedApps == {dep[d].app : d \in {e \in Rows : Interrupted(e)}}
ReconciledStatusForgotten(a) == status[a]
ReconciledStatus(a) ==
  IF a \in AffectedApps /\ status[a] = "deploying" THEN "failed" ELSE status[a]

Restart ==
  /\ ~up
  /\ up' = TRUE
  /\ dep' = [d \in Rows |-> IF Interrupted(d) THEN ReconciledRow(d) ELSE dep[d]]
  /\ status' = [a \in Apps |-> ReconciledStatus(a)]
  /\ UNCHANGED <<container, at, sess>>

-----------------------------------------------------------------------------

WorkerStep(p) ==
  \/ WorkerLoad(p) \/ WorkerStart(p) \/ ReportPreparing(p) \/ Validate(p)
  \/ RemoveOld(p) \/ ReportGenerate(p) \/ GenerateDockerfile(p) \/ ReportBuild(p)
  \/ BuildImage(p) \/ ReportStart(p) \/ RunContainer(p) \/ Verify(p)
  \/ ReportVerifying(p) \/ Broken(p) \/ Finish(p)

HandlerStep(p) ==
  \/ DeployCheck(p) \/ DeployCommit(p) \/ Inspect(p) \/ PollCommit(p)
  \/ ActionExists(p) \/ ActionRun(p) \/ ActionCommit(p)
  \/ DeleteContainer(p) \/ DeleteCascade(p) \/ DeleteCommit(p)
  \/ RestoreCommit(p) \/ RestoreLoad(p) \/ RestoreFiles(p)

Next ==
  \/ \E a \in Apps : CreateApp(a) \/ ContainerExits(a) \/ ContainerRevives(a)
  \/ \E p \in Requests, op \in Ops, a \in Apps : Begin(p, op, a)
  \/ \E p \in Requests : HandlerStep(p) \/ WorkerStep(p)
  \/ Crash
  \/ Restart

(* Every command has a timeout and every thread of the pool is scheduled;    *)
(* systemd restarts the panel.                                               *)
Fairness ==
  /\ \A p \in Requests : WF_vars(HandlerStep(p) \/ WorkerStep(p))
  /\ WF_vars(Restart)

Spec == Init /\ [][Next]_vars
FairSpec == Spec /\ Fairness

-----------------------------------------------------------------------------

Sessions == [op : AllOps \cup {"none"}, on : Apps \cup {None}, row : Rows \cup {None},
             seen : AppStatuses \cup {Expired, "absent", "gone"},
             want : AppStatuses \cup {Undecided}, kids : SUBSET Rows]

TypeOK ==
  /\ up \in BOOLEAN
  /\ status \in [Apps -> AppStatuses \cup {"absent", "gone"}]
  /\ dep \in [Rows -> [app : Apps \cup {None}, status : DepStatuses, stage : Stages]]
  /\ container \in [Apps -> Containers]
  /\ at \in [Requests -> Steps]
  /\ sess \in [Requests -> Sessions]

(* While the panel serves, an open deployment row of an existing app has a   *)
(* live background task that will close it: no order of deletions, failures, *)
(* crashes and restarts leaves a row that blocks the app's deploy button     *)
(* for good.                                                                 *)
ActiveRowOwned ==
  up => \A d \in Rows :
          ActiveRow(d) /\ Exists(dep[d].app) => \E p \in Requests : Row(p) = d

(* An app shown as deploying has an open deployment row; a deployment's last *)
(* commit, a poll that read the status earlier, a restore or a restart never *)
(* leave the app deploying with nothing under way.                           *)
DeployingExplained ==
  \A a \in Apps : status[a] = "deploying" => HasActive(a)

(* The table behaves as the history page's log.                              *)
Log == [d \in Rows |-> [status |-> dep[d].status, stage |-> dep[d].stage]]
History == INSTANCE DeploymentHistory WITH log <- Log
HistoryRefined == History!Spec

(* Every open row is closed in the end, unless its app is deleted: neither a *)
(* command that hangs until its timeout nor a crash at any step of the       *)
(* pipeline leaves it running.                                               *)
OpenRow(a, d) == dep[d].app = a /\ ActiveRow(d) /\ Exists(a)
RowsClose == \A a \in Apps, d \in Rows : OpenRow(a, d) ~> ~OpenRow(a, d)

(* README: duplicate concurrent deployments of an app are prevented.         *)
NoDuplicateDeploy ==
  \A a \in Apps : Cardinality({d \in Rows : dep[d].app = a /\ ActiveRow(d)}) <= 1

(* The delete dialog: the container is removed with the app.                 *)
NoContainerAfterDelete ==
  (up /\ \A p \in Requests : at[p] = "idle") =>
    \A a \in Apps : status[a] = "gone" => container[a] = "none"
=============================================================================
