-------------------------- MODULE DeploymentsProofs --------------------------
(***************************************************************************)
(* Theorems about Deployments for any number of apps, requests and rows:     *)
(* its invariants, and that it implements DeploymentHistory.                *)
(***************************************************************************)
EXTENDS Deployments, TLAPS

-----------------------------------------------------------------------------
(* The inductive invariant.                                                  *)

WorkerAt == {"queued", "start"} \cup Pipeline

(* What a request's step says of its own locals.                             *)
Shape(step, s) ==
  /\ step # "idle" => s.on \in Apps
  /\ step = "idle" => s = NoSession
  /\ step \in {"queued", "start"} => s.row # None
  /\ s.row # None => step \in WorkerAt
  /\ step \in {"broken", "verify_report", "finish"} => s.want \in {"running", "failed"}
  /\ step = "action_commit" => s.want \in {"running", "stopped"}
  /\ step = "poll_commit" =>
       s.want # Undecided /\ (s.want = "deploying" => s.seen = "deploying")

Placed == \A p \in Requests : Shape(at[p], sess[p])

DownIdle == ~up => \A p \in Requests : at[p] = "idle"

(* A request works on an app whose row has existed.                          *)
AppSeen == \A p \in Requests : at[p] # "idle" => status[On(p)] # "absent"

RowApps ==
  \A d \in Rows :
    /\ dep[d].status = "absent" => dep[d].app = None
    /\ dep[d].status # "absent" => dep[d].app \in Apps /\ status[dep[d].app] # "absent"

(* A worker's row belongs to its app and is open or deleted.                 *)
WorkerRow ==
  \A p \in Requests :
    Row(p) # None => /\ dep[Row(p)].app = On(p)
                     /\ dep[Row(p)].status \in ActiveStatuses \cup {"deleted"}

OneWorker ==
  \A p, q \in Requests : Row(p) # None /\ Row(p) = Row(q) => p = q

(* Rows are deleted only with their app.                                     *)
DeletedWithApp ==
  \A d \in Rows : dep[d].status = "deleted" => status[dep[d].app] = "gone"

CascadeOwn ==
  \A p \in Requests : at[p] = "delete_commit" =>
    \A d \in sess[p].kids : dep[d].app = On(p)

(* Request p is a worker of a whose last commit will write a's status: its   *)
(* session remembers nothing, or remembers "deploying", or is about to read. *)
Explains(p, a) ==
  /\ Row(p) # None
  /\ On(p) = a
  /\ at[p] \in {"queued", "start", "broken"} \/ sess[p].seen \in {Expired, "deploying"}

WorkerExplains ==
  up => \A a \in Apps : status[a] = "deploying" => \E p \in Requests : Explains(p, a)

IInv ==
  /\ TypeOK
  /\ Placed
  /\ DownIdle
  /\ AppSeen
  /\ RowApps
  /\ WorkerRow
  /\ OneWorker
  /\ DeletedWithApp
  /\ CascadeOwn
  /\ ActiveRowOwned
  /\ WorkerExplains
  /\ DeployingExplained

-----------------------------------------------------------------------------
(* Records: what the session helpers change and what they keep.              *)

LEMMA NoSessionType == NoSession \in Sessions
BY DEF NoSession, Sessions, AppStatuses

LEMMA SeeingFacts ==
  ASSUME TypeOK, NEW p \in Requests,
         NEW v \in AppStatuses \cup {Expired, "absent", "gone"}
  PROVE  /\ Seeing(p, v) \in Sessions
         /\ Seeing(p, v).on = On(p)
         /\ Seeing(p, v).row = Row(p)
         /\ Seeing(p, v).seen = v
         /\ Seeing(p, v).want = sess[p].want
         /\ Seeing(p, v).kids = sess[p].kids
         /\ Seeing(p, v).op = sess[p].op
BY DEF TypeOK, Seeing, Sessions, On, Row

LEMMA WantingFacts ==
  ASSUME TypeOK, NEW p \in Requests, NEW v \in AppStatuses \cup {Undecided}
  PROVE  /\ Wanting(p, v) \in Sessions
         /\ Wanting(p, v).on = On(p)
         /\ Wanting(p, v).row = Row(p)
         /\ Wanting(p, v).seen = sess[p].seen
         /\ Wanting(p, v).want = v
         /\ Wanting(p, v).kids = sess[p].kids
         /\ Wanting(p, v).op = sess[p].op
BY DEF TypeOK, Wanting, Sessions, On, Row

LEMMA MoveFacts ==
  ASSUME TypeOK, NEW p \in Requests, NEW step \in Steps, NEW s \in Sessions,
         Goto(p, step, s)
  PROVE  /\ at' \in [Requests -> Steps]
         /\ sess' \in [Requests -> Sessions]
         /\ at'[p] = step
         /\ sess'[p] = s
         /\ \A q \in Requests \ {p} : at'[q] = at[q] /\ sess'[q] = sess[q]
BY DEF TypeOK, Goto

-----------------------------------------------------------------------------
(* A step that moves one request and leaves the tables alone.                *)

LEMMA QuietMove ==
  ASSUME IInv, NEW p \in Requests, NEW step \in Steps, NEW s \in Sessions,
         up, at[p] # "idle", step # "idle",
         Goto(p, step, s), Shape(step, s), s.on = On(p), s.row = Row(p),
         step = "delete_commit" => \A d \in s.kids : dep[d].app = On(p),
         Explains(p, On(p)) /\ status[On(p)] = "deploying" =>
            step \in {"queued", "start", "broken"} \/ s.seen \in {Expired, "deploying"},
         container' \in [Apps -> Containers],
         UNCHANGED <<up, status, dep>>
  PROVE  IInv'
<1> USE DEF IInv
<1>1. /\ at' \in [Requests -> Steps]
      /\ sess' \in [Requests -> Sessions]
      /\ at'[p] = step
      /\ sess'[p] = s
      /\ \A q \in Requests \ {p} : at'[q] = at[q] /\ sess'[q] = sess[q]
  BY MoveFacts
<1>2. TypeOK'
  BY <1>1 DEF TypeOK
<1>3. Placed'
  BY <1>1 DEF Placed
<1>4. DownIdle'
  BY DEF DownIdle
<1>5. AppSeen'
  BY <1>1 DEF AppSeen, On
<1>6. RowApps' /\ DeletedWithApp' /\ DeployingExplained'
  BY DEF RowApps, DeletedWithApp, DeployingExplained, HasActive, ActiveRow
<1>7. WorkerRow'
  BY <1>1 DEF WorkerRow, Row, On
<1>8. OneWorker'
  BY <1>1 DEF OneWorker, Row
<1>9. CascadeOwn'
  BY <1>1 DEF CascadeOwn, On
<1>10. ActiveRowOwned'
  BY <1>1 DEF ActiveRowOwned, ActiveRow, Exists, Row
<1>11. WorkerExplains'
  BY <1>1 DEF WorkerExplains, Explains, Row, On
<1> QED
  BY <1>2, <1>3, <1>4, <1>5, <1>6, <1>7, <1>8, <1>9, <1>10, <1>11

(* A request ends without a commit: it has no open row to close.             *)
LEMMA QuietEnd ==
  ASSUME IInv, NEW p \in Requests, up, Leave(p),
         Row(p) = None \/ dep[Row(p)].status = "deleted" \/ ~Exists(On(p)),
         container' \in [Apps -> Containers],
         UNCHANGED <<up, status, dep>>
  PROVE  IInv'
<1> USE DEF IInv
<1>1. /\ at' \in [Requests -> Steps]
      /\ sess' \in [Requests -> Sessions]
      /\ at'[p] = "idle"
      /\ sess'[p] = NoSession
      /\ \A q \in Requests \ {p} : at'[q] = at[q] /\ sess'[q] = sess[q]
  BY MoveFacts, NoSessionType DEF Leave, Steps, RequestSteps
<1>2. TypeOK'
  BY <1>1 DEF TypeOK
<1>3. Placed'
  BY <1>1 DEF Placed, Shape, NoSession
<1>4. DownIdle'
  BY DEF DownIdle
<1>5. AppSeen'
  BY <1>1 DEF AppSeen, On
<1>6. RowApps' /\ DeletedWithApp' /\ DeployingExplained'
  BY DEF RowApps, DeletedWithApp, DeployingExplained, HasActive, ActiveRow
<1>7. WorkerRow'
  BY <1>1 DEF WorkerRow, Row, On, NoSession
<1>8. OneWorker'
  BY <1>1 DEF OneWorker, Row, NoSession
<1>9. CascadeOwn'
  BY <1>1 DEF CascadeOwn, On
<1>10. Row(p) # None => ~(ActiveRow(Row(p)) /\ Exists(dep[Row(p)].app))
  BY DEF WorkerRow, ActiveRow, ActiveStatuses
<1>11. ActiveRowOwned'
  BY <1>1, <1>10, NoneAssumption DEF ActiveRowOwned, ActiveRow, Exists, Row, NoSession
<1>12. ASSUME NEW a \in Apps, Explains(p, a) PROVE status[a] # "deploying"
  BY <1>12 DEF Explains, WorkerRow, DeletedWithApp, Exists, TypeOK, Sessions, Row
<1>13. WorkerExplains'
  BY <1>1, <1>12 DEF WorkerExplains, Explains, Row, On
<1> QED
  BY <1>2, <1>3, <1>4, <1>5, <1>6, <1>7, <1>8, <1>9, <1>11, <1>13

(* A request without a row commits a status other than "deploying" over the  *)
(* status of an existing app, whatever another thread made of it meanwhile.  *)
LEMMA StatusWrite ==
  ASSUME IInv, NEW p \in Requests, NEW step \in Steps, NEW s \in Sessions, up,
         NEW a \in Apps, NEW v \in AppStatuses \ {"deploying"}, Exists(a),
         Goto(p, step, s), Shape(step, s), Row(p) = None, s.row = None,
         step # "idle" => s.on = a, step # "delete_commit",
         status' = [status EXCEPT ![a] = v],
         UNCHANGED <<up, dep, container>>
  PROVE  IInv'
<1> USE DEF IInv
<1>1. /\ at' \in [Requests -> Steps]
      /\ sess' \in [Requests -> Sessions]
      /\ at'[p] = step
      /\ sess'[p] = s
      /\ \A q \in Requests \ {p} : at'[q] = at[q] /\ sess'[q] = sess[q]
  BY MoveFacts
<1>2. /\ status' \in [Apps -> AppStatuses \cup {"absent", "gone"}]
      /\ status'[a] = v
      /\ \A b \in Apps \ {a} : status'[b] = status[b]
      /\ v \notin {"absent", "gone", "deploying"}
      /\ status[a] \notin {"absent", "gone"}
  BY DEF TypeOK, Exists, AppStatuses
<1>3. TypeOK'
  BY <1>1, <1>2 DEF TypeOK
<1>4. Placed'
  BY <1>1 DEF Placed
<1>5. DownIdle'
  BY DEF DownIdle
<1>6. AppSeen'
  BY <1>1, <1>2 DEF AppSeen, On, Placed, Shape
<1>7. RowApps' /\ DeletedWithApp'
  BY <1>2 DEF RowApps, DeletedWithApp
<1>8. DeployingExplained'
  BY <1>2 DEF DeployingExplained, HasActive, ActiveRow
<1>9. WorkerRow'
  BY <1>1 DEF WorkerRow, Row, On
<1>10. OneWorker'
  BY <1>1 DEF OneWorker, Row
<1>11. CascadeOwn'
  BY <1>1 DEF CascadeOwn, On
<1>12. ActiveRowOwned'
  <2> SUFFICES ASSUME NEW d \in Rows, ActiveRow(d), Exists(dep[d].app)'
               PROVE  \E q \in Requests : Row(q)' = d
    BY DEF ActiveRowOwned, ActiveRow
  <2>1. Exists(dep[d].app)
    BY <1>2 DEF RowApps, ActiveRow, ActiveStatuses, Exists
  <2>2. PICK q \in Requests : Row(q) = d
    BY <2>1 DEF ActiveRowOwned
  <2> QED
    BY <1>1, <2>2, NoneAssumption DEF Row
<1>13. WorkerExplains'
  BY <1>1, <1>2 DEF WorkerExplains, Explains, Row, On
<1> QED
  BY <1>3, <1>4, <1>5, <1>6, <1>7, <1>8, <1>9, <1>10, <1>11, <1>12, <1>13

-----------------------------------------------------------------------------
(* The actions that write the deployments table.                             *)

LEMMA DeployCommitStep ==
  ASSUME IInv, NEW p \in Requests, up, DeployCommit(p)
  PROVE  IInv'
<1> USE DEF IInv
<1>0. at[p] = "deploy_commit" /\ Row(p) = None /\ On(p) \in Apps
  BY DEF DeployCommit, Placed, Shape, Row, On, WorkerAt, Pipeline
<1>1. CASE ~Exists(On(p)) /\ Leave(p) /\ UNCHANGED <<status, dep>>
  BY <1>0, <1>1, QuietEnd DEF DeployCommit, TypeOK
<1>2. CASE \E d \in Rows :
          /\ dep[d].status = "absent"
          /\ ~Stale(p, "deploying")
          /\ dep' = [dep EXCEPT ![d] = QueuedRow(On(p))]
          /\ status' = StatusAfter(p, "deploying")
          /\ IF Exists(On(p))
             THEN Goto(p, "queued", [sess[p] EXCEPT !.row = d, !.seen = Expired])
             ELSE Leave(p)
  <2>1. PICK d \in Rows :
          /\ dep[d].status = "absent"
          /\ ~Stale(p, "deploying")
          /\ dep' = [dep EXCEPT ![d] = QueuedRow(On(p))]
          /\ status' = StatusAfter(p, "deploying")
          /\ IF Exists(On(p))
             THEN Goto(p, "queued", [sess[p] EXCEPT !.row = d, !.seen = Expired])
             ELSE Leave(p)
    BY <1>2
  <2> DEFINE s == IF Exists(On(p)) THEN [sess[p] EXCEPT !.row = d, !.seen = Expired]
                                   ELSE NoSession
             step == IF Exists(On(p)) THEN "queued" ELSE "idle"
  <2>2. /\ s \in Sessions
        /\ Exists(On(p)) => s.on = On(p) /\ s.row = d /\ s.seen = Expired
        /\ ~Exists(On(p)) => s = NoSession
    BY NoSessionType DEF TypeOK, Sessions, On
  <2>3. step \in Steps /\ Goto(p, step, s)
    BY <2>1 DEF Leave, Steps, RequestSteps
  <2> HIDE DEF s, step
  <2>4. /\ at' \in [Requests -> Steps]
        /\ sess' \in [Requests -> Sessions]
        /\ at'[p] = step
        /\ sess'[p] = s
        /\ \A q \in Requests \ {p} : at'[q] = at[q] /\ sess'[q] = sess[q]
    BY <2>2, <2>3, MoveFacts
  <2>5. /\ dep' \in [Rows -> [app : Apps \cup {None}, status : DepStatuses, stage : Stages]]
        /\ dep'[d] = [app |-> On(p), status |-> "queued", stage |-> "queued"]
        /\ \A e \in Rows \ {d} : dep'[e] = dep[e]
        /\ \A e \in Rows : dep[e].status = "absent" => dep[e].app = None
    BY <1>0, <2>1 DEF TypeOK, QueuedRow, DepStatuses, ActiveStatuses, Stages, RowApps
  <2>6. /\ status' \in [Apps -> AppStatuses \cup {"absent", "gone"}]
        /\ \A b \in Apps : status'[b] = status[b] \/ (b = On(p) /\ status'[b] = "deploying")
        /\ ~Exists(On(p)) => status' = status
    BY <1>0, <2>1 DEF TypeOK, StatusAfter, Stale, AppStatuses
  <2>7. \A q \in Requests : Row(q) # d
    BY <2>1, NoneAssumption DEF WorkerRow, ActiveStatuses
  <2>8. step = IF Exists(On(p)) THEN "queued" ELSE "idle"
    BY DEF step
  <2>9. NoSession.row = None
    BY DEF NoSession
  <2>10. TypeOK'
    BY <2>4, <2>5, <2>6 DEF TypeOK, DeployCommit
  <2>11. Placed'
    BY <1>0, <2>2, <2>4, <2>8, <2>9, NoneAssumption DEF Placed, Shape, WorkerAt
  <2>12. DownIdle'
    BY DEF DownIdle, DeployCommit
  <2>13. AppSeen'
    BY <1>0, <2>2, <2>4, <2>6, <2>8 DEF AppSeen, On, Placed, Shape
  <2>14. RowApps'
    BY <1>0, <2>5, <2>6 DEF RowApps, AppSeen
  <2>15. DeletedWithApp'
    BY <2>5, <2>6 DEF DeletedWithApp, Exists, RowApps
  <2>16. WorkerRow'
    BY <2>2, <2>4, <2>5, <2>7, <2>9 DEF WorkerRow, Row, On, ActiveStatuses, TypeOK, Sessions
  <2>17. OneWorker'
    BY <2>2, <2>4, <2>7, <2>9 DEF OneWorker, Row
  <2>18. CascadeOwn'
    <3>1. \A q \in Requests : at[q] = "delete_commit" => d \notin sess[q].kids
      BY <2>1, <2>5, NoneAssumption DEF CascadeOwn, Placed, Shape, On
    <3>2. ASSUME NEW q \in Requests, at'[q] = "delete_commit"
          PROVE  q # p /\ at[q] = "delete_commit" /\ sess'[q] = sess[q]
      BY <2>4, <2>8, <3>2
    <3>3. \A q \in Requests : sess[q].kids \subseteq Rows
      BY DEF TypeOK, Sessions
    <3> QED
      BY <2>5, <3>1, <3>2, <3>3 DEF CascadeOwn, On
  <2>19. ActiveRowOwned'
    <3> SUFFICES ASSUME NEW e \in Rows, ActiveRow(e)', Exists(dep[e].app)'
                 PROVE  \E q \in Requests : Row(q)' = e
      BY DEF ActiveRowOwned
    <3>1. CASE e = d
      BY <1>0, <2>2, <2>4, <2>5, <2>6, <3>1 DEF Row, Exists
    <3>2. CASE e # d
      <4>1. ActiveRow(e) /\ Exists(dep[e].app)
        BY <2>5, <2>6, <3>2 DEF ActiveRow, Exists, RowApps, ActiveStatuses
      <4>2. PICK q \in Requests : Row(q) = e
        BY <4>1 DEF ActiveRowOwned
      <4> QED
        BY <1>0, <2>4, <4>2, NoneAssumption DEF Row
    <3> QED
      BY <3>1, <3>2
  <2>20. WorkerExplains'
    <3> SUFFICES ASSUME NEW a \in Apps, status'[a] = "deploying"
                 PROVE  \E q \in Requests : Explains(q, a)'
      BY DEF WorkerExplains
    <3>1. CASE a = On(p) /\ Exists(On(p))
      BY <2>2, <2>4, <2>8, <3>1, NoneAssumption DEF Explains, Row, On
    <3>2. CASE ~(a = On(p) /\ Exists(On(p)))
      <4>1. status[a] = "deploying"
        BY <2>6, <3>2
      <4>2. PICK q \in Requests : Explains(q, a)
        BY <4>1 DEF WorkerExplains
      <4> QED
        BY <1>0, <2>4, <4>2 DEF Explains, Row, On
    <3> QED
      BY <3>1, <3>2
  <2>21. DeployingExplained'
    <3> SUFFICES ASSUME NEW a \in Apps, status'[a] = "deploying"
                 PROVE  HasActive(a)'
      BY DEF DeployingExplained
    <3>1. CASE a = On(p)
      BY <2>5, <3>1 DEF HasActive, ActiveRow, ActiveStatuses
    <3>2. CASE a # On(p)
      BY <2>1, <2>5, <2>6, <3>2 DEF DeployingExplained, HasActive, ActiveRow, ActiveStatuses
    <3> QED
      BY <3>1, <3>2
  <2> QED
    BY <2>10, <2>11, <2>12, <2>13, <2>14, <2>15, <2>16, <2>17, <2>18, <2>19, <2>20, <2>21
<1> QED
  BY <1>1, <1>2 DEF DeployCommit

(* A worker commits progress on its own row: the row stays open, the session *)
(* forgets what it read, and the app may be marked deploying again.          *)
LEMMA RowProgress ==
  ASSUME IInv, NEW p \in Requests, NEW step \in Pipeline, NEW s \in Sessions, up,
         Row(p) # None, ~RowDeleted(p),
         Goto(p, step, s), Shape(step, s),
         s.on = On(p), s.row = Row(p), s.seen = Expired,
         NEW r \in [app : Apps \cup {None}, status : DepStatuses, stage : Stages],
         r.app = On(p), r.status \in ActiveStatuses,
         dep' = [dep EXCEPT ![Row(p)] = r],
         \/ status' = status
         \/ Exists(On(p)) /\ status' = [status EXCEPT ![On(p)] = "deploying"],
         UNCHANGED <<up, container>>
  PROVE  IInv'
<1> USE DEF IInv
<1>1. /\ at' \in [Requests -> Steps]
      /\ sess' \in [Requests -> Sessions]
      /\ at'[p] = step
      /\ sess'[p] = s
      /\ \A q \in Requests \ {p} : at'[q] = at[q] /\ sess'[q] = sess[q]
  BY MoveFacts DEF Steps
<1>2. /\ Row(p) \in Rows /\ On(p) \in Apps
      /\ dep[Row(p)].app = On(p) /\ dep[Row(p)].status \in ActiveStatuses
  BY DEF TypeOK, Sessions, Row, On, WorkerRow, RowDeleted, Placed, Shape, WorkerAt, Pipeline
<1>3. /\ dep' \in [Rows -> [app : Apps \cup {None}, status : DepStatuses, stage : Stages]]
      /\ dep'[Row(p)] = r
      /\ \A e \in Rows \ {Row(p)} : dep'[e] = dep[e]
      /\ \A e \in Rows : dep'[e].app = dep[e].app
      /\ \A e \in Rows : ActiveRow(e)' <=> ActiveRow(e)
      /\ \A e \in Rows : dep'[e].status # dep[e].status => e = Row(p)
  BY <1>2 DEF TypeOK, ActiveRow
<1>4. /\ status' \in [Apps -> AppStatuses \cup {"absent", "gone"}]
      /\ \A b \in Apps : status'[b] = status[b] \/ (b = On(p) /\ status'[b] = "deploying")
      /\ \A b \in Apps : Exists(b)' <=> Exists(b)
      /\ \A b \in Apps : status[b] = "gone" => status'[b] = "gone"
      /\ \A b \in Apps : status[b] # "absent" => status'[b] # "absent"
  BY <1>2 DEF TypeOK, AppStatuses, Exists
<1>5. TypeOK'
  BY <1>1, <1>3, <1>4 DEF TypeOK
<1>6. Placed'
  BY <1>1 DEF Placed
<1>7. DownIdle'
  BY DEF DownIdle
<1>8. AppSeen'
  <2>1. at[p] # "idle"
    BY DEF Placed, Shape, Row, WorkerAt, Pipeline
  <2> QED
    BY <1>1, <1>2, <1>4, <2>1 DEF AppSeen, On, Placed, Shape
<1>9. RowApps'
  <2>1. r.status # "absent" /\ dep[Row(p)].status # "absent"
    BY <1>2 DEF ActiveStatuses
  <2> QED
    BY <1>2, <1>3, <1>4, <2>1 DEF RowApps
<1>10. DeletedWithApp'
  <2>1. r.status # "deleted"
    BY DEF ActiveStatuses
  <2>2. \A e \in Rows : dep[e].status = "deleted" => dep[e].app \in Apps
    BY DEF RowApps
  <2> QED
    BY <1>3, <1>4, <2>1, <2>2 DEF DeletedWithApp
<1>11. WorkerRow'
  BY <1>1, <1>2, <1>3 DEF WorkerRow, OneWorker, Row, On
<1>12. OneWorker'
  BY <1>1 DEF OneWorker, Row
<1>13. CascadeOwn'
  <2>1. ASSUME NEW q \in Requests, at'[q] = "delete_commit"
        PROVE  at[q] = "delete_commit" /\ sess'[q] = sess[q]
    BY <1>1, <2>1 DEF Pipeline
  <2>2. \A q \in Requests : sess[q].kids \subseteq Rows
    BY DEF TypeOK, Sessions
  <2> QED
    BY <1>3, <2>1, <2>2 DEF CascadeOwn, On
<1>14. ActiveRowOwned'
  <2> SUFFICES ASSUME NEW e \in Rows, ActiveRow(e)', Exists(dep[e].app)'
               PROVE  \E q \in Requests : Row(q)' = e
    BY DEF ActiveRowOwned
  <2>1. dep[e].app \in Apps
    BY <1>3 DEF RowApps, ActiveRow, ActiveStatuses
  <2>2. ActiveRow(e) /\ Exists(dep[e].app)
    BY <1>3, <1>4, <2>1 DEF Exists
  <2>3. PICK q \in Requests : Row(q) = e
    BY <2>2 DEF ActiveRowOwned
  <2> QED
    BY <1>1, <2>3 DEF Row
<1>15. WorkerExplains'
  <2> SUFFICES ASSUME NEW a \in Apps, status'[a] = "deploying"
               PROVE  \E q \in Requests : Explains(q, a)'
    BY DEF WorkerExplains
  <2>1. CASE a = On(p)
    BY <1>1, <2>1 DEF Explains, Row, On
  <2>2. CASE a # On(p)
    <3>1. PICK q \in Requests : Explains(q, a)
      BY <1>4, <2>2 DEF WorkerExplains
    <3> QED
      BY <1>1, <2>2, <3>1 DEF Explains, Row, On
  <2> QED
    BY <2>1, <2>2
<1>16. DeployingExplained'
  <2> SUFFICES ASSUME NEW a \in Apps, status'[a] = "deploying"
               PROVE  \E e \in Rows : dep'[e].app = a /\ ActiveRow(e)'
    BY DEF DeployingExplained, HasActive
  <2>1. CASE a = On(p)
    BY <1>2, <1>3, <2>1 DEF ActiveRow
  <2>2. CASE a # On(p)
    BY <1>3, <1>4, <2>2 DEF DeployingExplained, HasActive
  <2> QED
    BY <2>1, <2>2
<1> QED
  BY <1>5, <1>6, <1>7, <1>8, <1>9, <1>10, <1>11, <1>12, <1>13, <1>14, <1>15, <1>16

(* The last commit of a deployment closes its row.  If another session's     *)
(* status is left standing because this one remembers the same outcome, then *)
(* this worker was not the one that explained it.                            *)
LEMMA RowClose ==
  ASSUME IInv, NEW p \in Requests, up, at[p] = "finish",
         Row(p) # None, ~RowDeleted(p), Leave(p),
         NEW outcome \in {"completed", "failed"},
         dep' = [dep EXCEPT ![Row(p)].status = outcome, ![Row(p)].stage = outcome],
         ~Stale(p, sess[p].want), status' = StatusAfter(p, sess[p].want),
         UNCHANGED <<up, container>>
  PROVE  IInv'
<1> USE DEF IInv
<1> DEFINE a == On(p)
           d == Row(p)
           want == sess[p].want
<1>1. /\ at' \in [Requests -> Steps]
      /\ sess' \in [Requests -> Sessions]
      /\ at'[p] = "idle"
      /\ sess'[p] = NoSession
      /\ \A q \in Requests \ {p} : at'[q] = at[q] /\ sess'[q] = sess[q]
  BY MoveFacts, NoSessionType DEF Leave, Steps, RequestSteps
<1>2. /\ d \in Rows /\ a \in Apps /\ want \in {"running", "failed"}
      /\ dep[d].app = a /\ dep[d].status \in ActiveStatuses
  BY DEF TypeOK, Sessions, Row, On, WorkerRow, RowDeleted, Placed, Shape
<1>3. /\ dep' \in [Rows -> [app : Apps \cup {None}, status : DepStatuses, stage : Stages]]
      /\ dep'[d].status = outcome
      /\ \A e \in Rows \ {d} : dep'[e] = dep[e]
      /\ \A e \in Rows : dep'[e].app = dep[e].app
      /\ outcome \notin ActiveStatuses \cup {"absent", "deleted"}
  BY <1>2 DEF TypeOK, DepStatuses, Stages, ActiveStatuses
<1>4. /\ status' \in [Apps -> AppStatuses \cup {"absent", "gone"}]
      /\ \A b \in Apps \ {a} : status'[b] = status[b]
      /\ \A b \in Apps : Exists(b)' <=> Exists(b)
      /\ \A b \in Apps : status[b] = "gone" => status'[b] = "gone"
      /\ \A b \in Apps : status[b] # "absent" => status'[b] # "absent"
      /\ \A b \in Apps : status'[b] = "deploying" => status[b] = "deploying"
      /\ Explains(p, a) => status'[a] # "deploying"
  <2>1. CASE sess[p].seen = want
    BY <1>2, <2>1 DEF TypeOK, Exists, StatusAfter, Flushes, Explains, Expired
  <2>2. CASE sess[p].seen # want
    BY <1>2, <2>2 DEF TypeOK, AppStatuses, Exists, StatusAfter, Stale, Flushes
  <2> QED
    BY <2>1, <2>2
<1> HIDE DEF want
<1>5. \A q \in Requests \ {p} : Row(q) # d
  BY DEF OneWorker
<1>6. NoSession.row = None
  BY DEF NoSession
<1>7. TypeOK'
  BY <1>1, <1>3, <1>4 DEF TypeOK
<1>8. Placed'
  BY <1>1, <1>6 DEF Placed, Shape
<1>9. DownIdle'
  BY DEF DownIdle
<1>10. AppSeen'
  BY <1>1, <1>4 DEF AppSeen, On, Placed, Shape
<1>11. RowApps'
  BY <1>2, <1>3, <1>4 DEF RowApps, ActiveStatuses
<1>12. DeletedWithApp'
  <2>1. \A e \in Rows : dep[e].status = "deleted" => dep[e].app \in Apps
    BY DEF RowApps
  <2> QED
    BY <1>3, <1>4, <2>1 DEF DeletedWithApp
<1>13. WorkerRow'
  BY <1>1, <1>3, <1>5, <1>6 DEF WorkerRow, Row, On, TypeOK, Sessions
<1>14. OneWorker'
  BY <1>1, <1>6 DEF OneWorker, Row
<1>15. CascadeOwn'
  <2>1. \A q \in Requests : sess[q].kids \subseteq Rows
    BY DEF TypeOK, Sessions
  <2> QED
    BY <1>1, <1>3, <2>1 DEF CascadeOwn, On
<1>16. ActiveRowOwned'
  <2> SUFFICES ASSUME NEW e \in Rows, ActiveRow(e)', Exists(dep[e].app)'
               PROVE  \E q \in Requests : Row(q)' = e
    BY DEF ActiveRowOwned
  <2>1. e # d /\ ActiveRow(e)
    BY <1>3 DEF ActiveRow
  <2>2. dep[e].app \in Apps
    BY <2>1 DEF RowApps, ActiveRow, ActiveStatuses
  <2>3. PICK q \in Requests : Row(q) = e
    BY <1>3, <1>4, <2>1, <2>2 DEF ActiveRowOwned, Exists
  <2> QED
    BY <1>1, <2>1, <2>3 DEF Row
<1>17. WorkerExplains'
  <2> SUFFICES ASSUME NEW b \in Apps, status'[b] = "deploying"
               PROVE  \E q \in Requests : Explains(q, b)'
    BY DEF WorkerExplains
  <2>1. PICK q \in Requests : Explains(q, b)
    BY <1>4 DEF WorkerExplains
  <2>2. q # p
    BY <1>4, <2>1 DEF Explains
  <2> QED
    BY <1>1, <2>1, <2>2 DEF Explains, Row, On
<1>18. DeployingExplained'
  <2> SUFFICES ASSUME NEW b \in Apps, status'[b] = "deploying"
               PROVE  \E e \in Rows : dep'[e].app = b /\ ActiveRow(e)'
    BY DEF DeployingExplained, HasActive
  <2>1. PICK q \in Requests : Explains(q, b)
    BY <1>4 DEF WorkerExplains
  <2>2. q # p /\ status[b] = "deploying"
    BY <1>4, <2>1 DEF Explains
  <2>3. Row(q) \in Rows /\ Row(q) # d /\ dep[Row(q)].app = b
    BY <1>5, <2>1, <2>2 DEF Explains, WorkerRow, TypeOK, Sessions, Row
  <2>4. dep[Row(q)].status \in ActiveStatuses
    BY <2>1, <2>2, <2>3 DEF Explains, WorkerRow, DeletedWithApp
  <2> QED
    BY <1>3, <2>3, <2>4 DEF ActiveRow
<1> QED
  BY <1>7, <1>8, <1>9, <1>10, <1>11, <1>12, <1>13, <1>14, <1>15, <1>16, <1>17, <1>18

(* The app row goes, with the rows of the cascade; a row committed after the *)
(* cascade was loaded stays behind, but its app is gone.                     *)
LEMMA DeleteCommitStep ==
  ASSUME IInv, NEW p \in Requests, up, DeleteCommit(p)
  PROVE  IInv'
<1> USE DEF IInv
<1> DEFINE a == On(p)
           kids == sess[p].kids
<1>0. at[p] = "delete_commit" /\ Row(p) = None /\ a \in Apps
  BY DEF DeleteCommit, Placed, Shape, Row, On, WorkerAt, Pipeline
<1>1. /\ at' \in [Requests -> Steps]
      /\ sess' \in [Requests -> Sessions]
      /\ at'[p] = "idle"
      /\ sess'[p] = NoSession
      /\ \A q \in Requests \ {p} : at'[q] = at[q] /\ sess'[q] = sess[q]
  BY MoveFacts, NoSessionType DEF Leave, Steps, RequestSteps, DeleteCommit
<1>2. /\ dep' \in [Rows -> [app : Apps \cup {None}, status : DepStatuses, stage : Stages]]
      /\ \A e \in Rows : dep'[e].app = dep[e].app
      /\ \A e \in kids : e \in Rows /\ dep'[e].status = "deleted" /\ dep[e].app = a
      /\ \A e \in Rows \ kids : dep'[e] = dep[e]
  <2> DEFINE gone(e) == [dep[e] EXCEPT !.status = "deleted", !.stage = "none"]
  <2>1. kids \subseteq Rows /\ \A e \in kids : dep[e].app = a
    BY <1>0 DEF TypeOK, Sessions, CascadeOwn
  <2>2. dep' = [e \in Rows |-> IF e \in kids THEN gone(e) ELSE dep[e]]
    BY DEF DeleteCommit
  <2>3. \A e \in Rows :
          /\ gone(e) \in [app : Apps \cup {None}, status : DepStatuses, stage : Stages]
          /\ gone(e).app = dep[e].app
          /\ gone(e).status = "deleted"
    BY DEF TypeOK, DepStatuses, Stages
  <2>4. \A e \in Rows :
          dep[e] \in [app : Apps \cup {None}, status : DepStatuses, stage : Stages]
    BY DEF TypeOK
  <2> HIDE DEF gone
  <2> QED
    BY <2>1, <2>2, <2>3, <2>4
<1>3. /\ status' \in [Apps -> AppStatuses \cup {"absent", "gone"}]
      /\ status'[a] = "gone"
      /\ \A b \in Apps \ {a} : status'[b] = status[b]
  BY <1>0 DEF DeleteCommit, TypeOK
<1>4. NoSession.row = None
  BY DEF NoSession
<1> HIDE DEF kids
<1>5. TypeOK'
  BY <1>1, <1>2, <1>3 DEF TypeOK, DeleteCommit
<1>6. Placed'
  BY <1>1, <1>4 DEF Placed, Shape
<1>7. DownIdle'
  BY DEF DownIdle, DeleteCommit
<1>8. AppSeen'
  BY <1>1, <1>3 DEF AppSeen, On, Placed, Shape
<1>9. RowApps'
  <2>1. \A e \in kids : dep[e].status # "absent"
    BY <1>0, <1>2, NoneAssumption DEF RowApps
  <2> QED
    BY <1>0, <1>2, <1>3, <2>1 DEF RowApps
<1>10. DeletedWithApp'
  BY <1>2, <1>3 DEF DeletedWithApp, RowApps
<1>11. WorkerRow'
  <2> SUFFICES ASSUME NEW q \in Requests, Row(q)' # None
               PROVE  /\ (dep[Row(q)].app = On(q))'
                      /\ (dep[Row(q)].status \in ActiveStatuses \cup {"deleted"})'
    BY DEF WorkerRow
  <2>1. q # p /\ sess'[q] = sess[q] /\ Row(q) \in Rows
    BY <1>1, <1>4 DEF Row, TypeOK, Sessions
  <2> QED
    BY <1>2, <2>1 DEF WorkerRow, Row, On
<1>12. OneWorker'
  BY <1>1, <1>4 DEF OneWorker, Row
<1>13. CascadeOwn'
  <2>1. \A q \in Requests : sess[q].kids \subseteq Rows
    BY DEF TypeOK, Sessions
  <2> QED
    BY <1>1, <1>2, <2>1 DEF CascadeOwn, On
<1>14. ActiveRowOwned'
  <2> SUFFICES ASSUME NEW e \in Rows, ActiveRow(e)', Exists(dep[e].app)'
               PROVE  \E q \in Requests : Row(q)' = e
    BY DEF ActiveRowOwned
  <2>1. e \notin kids /\ dep'[e] = dep[e]
    BY <1>2 DEF ActiveRow, ActiveStatuses
  <2>2. dep[e].app \in Apps /\ dep[e].app # a
    BY <1>3, <2>1 DEF RowApps, ActiveRow, ActiveStatuses, Exists
  <2>3. PICK q \in Requests : Row(q) = e
    BY <1>3, <2>1, <2>2 DEF ActiveRowOwned, ActiveRow, Exists, DeleteCommit
  <2> QED
    BY <1>0, <1>1, <2>3, NoneAssumption DEF Row
<1>15. WorkerExplains'
  <2> SUFFICES ASSUME NEW b \in Apps, status'[b] = "deploying"
               PROVE  \E q \in Requests : Explains(q, b)'
    BY DEF WorkerExplains
  <2>1. PICK q \in Requests : Explains(q, b)
    BY <1>3 DEF WorkerExplains, DeleteCommit
  <2> QED
    BY <1>0, <1>1, <2>1 DEF Explains, Row, On
<1>16. DeployingExplained'
  <2> SUFFICES ASSUME NEW b \in Apps, status'[b] = "deploying"
               PROVE  \E e \in Rows : dep'[e].app = b /\ ActiveRow(e)'
    BY DEF DeployingExplained, HasActive
  <2>1. b # a /\ status[b] = "deploying"
    BY <1>3
  <2>2. PICK e \in Rows : dep[e].app = b /\ ActiveRow(e)
    BY <2>1 DEF DeployingExplained, HasActive
  <2> QED
    BY <1>2, <2>1, <2>2 DEF ActiveRow
<1> QED
  BY <1>5, <1>6, <1>7, <1>8, <1>9, <1>10, <1>11, <1>12, <1>13, <1>14, <1>15, <1>16

-----------------------------------------------------------------------------
(* Requests that begin, apps that appear, docker and the process.            *)

LEMMA BeginStep ==
  ASSUME IInv, NEW p \in Requests, NEW op \in Ops, NEW a \in Apps, Begin(p, op, a)
  PROVE  IInv'
<1> USE DEF IInv
<1> DEFINE s == [NoSession EXCEPT !.op = op, !.on = a, !.seen = status[a]]
           step == FirstStep(op)
<1>1. /\ s \in Sessions /\ s.on = a /\ s.row = None
      /\ status[a] \in AppStatuses
  BY OpsAssumption DEF Begin, Exists, NoSession, Sessions, AllOps, TypeOK
<1>2. /\ step \in {"deploy_check", "inspect", "action_exists", "delete_container",
                    "restore_commit"}
      /\ step \in Steps
  BY OpsAssumption DEF FirstStep, AllOps, Steps, RequestSteps
<1>3. up /\ at[p] = "idle" /\ Row(p) = None /\ Goto(p, step, s)
  BY DEF Begin, Placed, Shape, Row, NoSession
<1> HIDE DEF s, step
<1>4. /\ at' \in [Requests -> Steps]
      /\ sess' \in [Requests -> Sessions]
      /\ at'[p] = step
      /\ sess'[p] = s
      /\ \A q \in Requests \ {p} : at'[q] = at[q] /\ sess'[q] = sess[q]
  BY <1>1, <1>2, <1>3, MoveFacts
<1>5. UNCHANGED <<up, status, dep, container>>
  BY DEF Begin
<1>6. TypeOK'
  BY <1>4, <1>5 DEF TypeOK
<1>7. Placed'
  BY <1>1, <1>2, <1>4 DEF Placed, Shape
<1>8. DownIdle'
  BY <1>3, <1>5 DEF DownIdle
<1>9. AppSeen'
  BY <1>1, <1>4, <1>5 DEF AppSeen, On, AppStatuses
<1>10. RowApps' /\ DeletedWithApp' /\ DeployingExplained'
  BY <1>5 DEF RowApps, DeletedWithApp, DeployingExplained, HasActive, ActiveRow
<1>11. WorkerRow'
  BY <1>1, <1>4, <1>5 DEF WorkerRow, Row, On
<1>12. OneWorker'
  BY <1>1, <1>4 DEF OneWorker, Row
<1>13. CascadeOwn'
  BY <1>2, <1>4, <1>5 DEF CascadeOwn, On
<1>14. ActiveRowOwned'
  BY <1>3, <1>4, <1>5, NoneAssumption DEF ActiveRowOwned, ActiveRow, Exists, Row
<1>15. WorkerExplains'
  BY <1>3, <1>4, <1>5 DEF WorkerExplains, Explains, Row, On
<1> QED
  BY <1>6, <1>7, <1>8, <1>9, <1>10, <1>11, <1>12, <1>13, <1>14, <1>15

LEMMA CreateAppStep ==
  ASSUME IInv, NEW a \in Apps, CreateApp(a)
  PROVE  IInv'
<1> USE DEF IInv
<1>1. /\ status' \in [Apps -> AppStatuses \cup {"absent", "gone"}]
      /\ status'[a] = "created" /\ status[a] = "absent"
      /\ \A b \in Apps \ {a} : status'[b] = status[b]
      /\ UNCHANGED <<up, dep, container, at, sess>>
  BY DEF CreateApp, TypeOK, AppStatuses
<1>2. \A d \in Rows : dep[d].status # "absent" => dep[d].app \in Apps \ {a}
  BY <1>1 DEF RowApps
<1>3. TypeOK' /\ Placed' /\ DownIdle' /\ OneWorker' /\ WorkerRow' /\ CascadeOwn'
  BY <1>1 DEF TypeOK, Placed, DownIdle, OneWorker, WorkerRow, CascadeOwn, Row, On
<1>4. AppSeen'
  BY <1>1 DEF AppSeen, On, Placed, Shape
<1>5. RowApps' /\ DeletedWithApp'
  BY <1>1, <1>2 DEF RowApps, DeletedWithApp
<1>6. ActiveRowOwned'
  <2>1. \A d \in Rows : ActiveRow(d) => dep[d].app \in Apps \ {a}
    BY <1>2 DEF ActiveRow, ActiveStatuses
  <2> QED
    BY <1>1, <2>1 DEF ActiveRowOwned, ActiveRow, Exists, Row
<1>7. WorkerExplains' /\ DeployingExplained'
  BY <1>1 DEF WorkerExplains, Explains, Row, On, DeployingExplained, HasActive, ActiveRow
<1> QED
  BY <1>3, <1>4, <1>5, <1>6, <1>7

(* Nothing in the invariant but its types speaks of containers.              *)
LEMMA ContainerStep ==
  ASSUME IInv, container' \in [Apps -> Containers],
         UNCHANGED <<up, status, dep, at, sess>>
  PROVE  IInv'
BY DEF IInv, TypeOK, Placed, DownIdle, AppSeen, RowApps, WorkerRow, OneWorker,
       DeletedWithApp, CascadeOwn, ActiveRowOwned, WorkerExplains, Explains,
       DeployingExplained, HasActive, ActiveRow, Exists, Row, On

LEMMA CrashStep ==
  ASSUME IInv, Crash
  PROVE  IInv'
<1> USE DEF IInv, Crash
<1>1. /\ at' \in [Requests -> Steps]
      /\ sess' \in [Requests -> Sessions]
      /\ \A p \in Requests : at'[p] = "idle" /\ sess'[p] = NoSession
  BY NoSessionType DEF Steps, RequestSteps
<1>2. NoSession.row = None
  BY DEF NoSession
<1>3. TypeOK'
  BY <1>1 DEF TypeOK
<1>4. Placed' /\ DownIdle' /\ AppSeen' /\ WorkerRow' /\ OneWorker' /\ CascadeOwn'
  BY <1>1, <1>2 DEF Placed, Shape, DownIdle, AppSeen, WorkerRow, OneWorker, CascadeOwn, Row
<1>5. RowApps' /\ DeletedWithApp' /\ DeployingExplained'
  BY DEF RowApps, DeletedWithApp, DeployingExplained, HasActive, ActiveRow
<1>6. ActiveRowOwned' /\ WorkerExplains'
  BY DEF ActiveRowOwned, WorkerExplains
<1> QED
  BY <1>3, <1>4, <1>5, <1>6

(* Reconciliation leaves no open row, so no app stays deploying.             *)
LEMMA RestartStep ==
  ASSUME IInv, Restart
  PROVE  IInv'
<1> USE DEF IInv, Restart
<1>1. \A p \in Requests : at[p] = "idle" /\ sess[p] = NoSession /\ Row(p) = None
  BY DEF DownIdle, Placed, Shape, Row, NoSession
<1>2. \A d \in Rows :
        /\ dep'[d] \in [app : Apps \cup {None}, status : DepStatuses, stage : Stages]
        /\ dep'[d].app = dep[d].app
        /\ ~ActiveRow(d)'
        /\ dep'[d].status = "absent" <=> dep[d].status = "absent"
        /\ dep'[d].status = "deleted" <=> dep[d].status = "deleted"
  BY DEF TypeOK, Interrupted, ReconciledRow, ActiveRow, ActiveStatuses, DepStatuses, Stages
<1>3. \A a \in Apps :
        /\ status'[a] \in AppStatuses \cup {"absent", "gone"}
        /\ status'[a] = "absent" <=> status[a] = "absent"
        /\ status'[a] = "gone" <=> status[a] = "gone"
        /\ status'[a] # "deploying"
  <2>1. \A a \in Apps : status[a] = "deploying" => a \in AffectedApps
    BY DEF DeployingExplained, HasActive, AffectedApps, Interrupted
  <2> QED
    BY <2>1 DEF TypeOK, ReconciledStatus, AppStatuses
<1>4. TypeOK'
  BY <1>2, <1>3 DEF TypeOK
<1>5. Placed' /\ DownIdle' /\ AppSeen' /\ OneWorker' /\ WorkerRow' /\ CascadeOwn'
  BY <1>1 DEF Placed, DownIdle, AppSeen, OneWorker, WorkerRow, CascadeOwn, Row
<1>6. RowApps' /\ DeletedWithApp'
  BY <1>2, <1>3 DEF RowApps, DeletedWithApp
<1>7. ActiveRowOwned'
  BY <1>2 DEF ActiveRowOwned
<1>8. WorkerExplains' /\ DeployingExplained'
  BY <1>3 DEF WorkerExplains, DeployingExplained
<1> QED
  BY <1>4, <1>5, <1>6, <1>7, <1>8

-----------------------------------------------------------------------------
(* One step per action of a request.                                         *)

LEMMA Serving ==
  ASSUME IInv, NEW p \in Requests, at[p] # "idle"
  PROVE  up /\ On(p) \in Apps /\ status[On(p)] # "absent" /\ sess[p] \in Sessions
BY DEF IInv, DownIdle, Placed, Shape, On, AppSeen, TypeOK

LEMMA NoWorkerRow ==
  ASSUME IInv, NEW p \in Requests, at[p] \notin WorkerAt
  PROVE  Row(p) = None
BY DEF IInv, Placed, Shape, Row

(* The write of a poll, an action or a restore: it overwrites or it is       *)
(* dropped, and it is never "deploying" over another status.                 *)
LEMMA PlainWrite ==
  ASSUME IInv, NEW p \in Requests, up, Row(p) = None, at[p] # "idle",
         NEW step \in Steps, NEW s \in Sessions, Goto(p, step, s), Shape(step, s),
         s.row = None, step # "delete_commit", step # "idle" => s.on = On(p),
         NEW v \in AppStatuses, v = "deploying" => sess[p].seen = "deploying",
         \/ ~Stale(p, v) /\ status' = StatusAfter(p, v)
         \/ status' = status,
         UNCHANGED <<up, dep, container>>
  PROVE  IInv'
<1>0. On(p) \in Apps
  BY Serving
<1>1. CASE status' = status
  <2>1. container' \in [Apps -> Containers]
    BY DEF IInv, TypeOK
  <2>2. CASE step = "idle"
    BY <1>1, <2>1, <2>2, QuietEnd DEF Leave, Shape
  <2>3. CASE step # "idle"
    BY <1>1, <2>1, <2>3, QuietMove DEF Explains
  <2> QED
    BY <2>2, <2>3
<1>2. CASE status' # status
  <2>1. /\ Exists(On(p)) /\ v # "deploying"
        /\ status' = [status EXCEPT ![On(p)] = v]
    BY <1>2 DEF Stale, StatusAfter, Flushes
  <2> QED
    BY <1>0, <2>1, StatusWrite
<1> QED
  BY <1>1, <1>2

LEMMA HandlerInv ==
  ASSUME IInv, NEW p \in Requests, HandlerStep(p)
  PROVE  IInv'
<1>0. /\ TypeOK /\ Placed
      /\ container \in [Apps -> Containers]
      /\ NoSession \in Sessions /\ NoSession.row = None
      /\ sess[p] \in Sessions
      /\ Shape(at[p], sess[p])
  BY NoSessionType DEF IInv, TypeOK, Placed, NoSession
<1>1. CASE DeployCheck(p)
  <2>1. up /\ at[p] = "deploy_check" /\ Row(p) = None
    BY <1>1, Serving, NoWorkerRow DEF DeployCheck, WorkerAt, Pipeline
  <2>2. CASE Leave(p)
    BY <1>0, <1>1, <2>1, <2>2, QuietEnd DEF DeployCheck
  <2>3. CASE Goto(p, "deploy_commit", sess[p])
    <3>1. Shape("deploy_commit", sess[p]) /\ "deploy_commit" \in Steps
      BY <1>0, <2>1 DEF Shape, Row, Steps, RequestSteps
    <3> QED
      BY <1>0, <1>1, <2>1, <2>3, <3>1, QuietMove DEF DeployCheck, Explains, On, Row
  <2> QED
    BY <1>1, <2>2, <2>3 DEF DeployCheck
<1>2. CASE DeployCommit(p)
  BY <1>2, Serving, DeployCommitStep DEF DeployCommit
<1>3. CASE Inspect(p)
  <2>1. up /\ at[p] = "inspect" /\ Row(p) = None
    BY <1>3, Serving, NoWorkerRow DEF Inspect, WorkerAt, Pipeline
  <2>2. PICK current \in InspectResults(On(p)) :
          Goto(p, "poll_commit",
               Wanting(p, Mapped(sess[p].op, current, sess[p].seen)))
    BY <1>3 DEF Inspect
  <2> DEFINE v == Mapped(sess[p].op, current, sess[p].seen)
  <2>3. v \in AppStatuses /\ (v = "deploying" => sess[p].seen = "deploying")
    <3>1. current \in {"stopped", "running", "exited"}
      BY <1>0, <2>1, Serving DEF InspectResults, Containers
    <3> QED
      BY <3>1 DEF Mapped, AppStatuses
  <2>4. /\ Wanting(p, v) \in Sessions
        /\ Wanting(p, v).on = On(p)
        /\ Wanting(p, v).row = Row(p)
        /\ Wanting(p, v).seen = sess[p].seen
        /\ Wanting(p, v).want = v
    BY <1>0, <2>3, WantingFacts
  <2> HIDE DEF v
  <2>5. Shape("poll_commit", Wanting(p, v)) /\ "poll_commit" \in Steps
    BY <2>1, <2>3, <2>4, Serving DEF Shape, Steps, RequestSteps, AppStatuses, Undecided
  <2>6. Goto(p, "poll_commit", Wanting(p, v))
    BY <2>2 DEF v
  <2> QED
    BY <1>0, <1>3, <2>1, <2>4, <2>5, <2>6, QuietMove DEF Inspect, Explains
<1>4. CASE PollCommit(p)
  <2>1. up /\ at[p] = "poll_commit" /\ Row(p) = None
    BY <1>4, Serving, NoWorkerRow DEF PollCommit, WorkerAt, Pipeline
  <2>2. /\ sess[p].want \in AppStatuses
        /\ sess[p].want = "deploying" => sess[p].seen = "deploying"
    BY <1>0, <2>1 DEF Shape, Sessions
  <2>3. Shape("idle", NoSession) /\ "idle" \in Steps
    BY <1>0 DEF Shape, Steps, RequestSteps
  <2> QED
    BY <1>0, <1>4, <2>1, <2>2, <2>3, PlainWrite DEF PollCommit, Leave
<1>5. CASE ActionExists(p)
  <2>1. up /\ at[p] = "action_exists" /\ Row(p) = None /\ On(p) \in Apps
    BY <1>5, Serving, NoWorkerRow DEF ActionExists, WorkerAt, Pipeline
  <2>2. CASE Goto(p, "action_run", sess[p])
    <3>1. Shape("action_run", sess[p]) /\ "action_run" \in Steps
      BY <1>0, <2>1 DEF Shape, Row, Steps, RequestSteps
    <3> QED
      BY <1>0, <1>5, <2>1, <2>2, <3>1, QuietMove DEF ActionExists, Explains, On, Row
  <2>3. CASE Goto(p, "action_commit", Wanting(p, "stopped"))
    <3>1. /\ Wanting(p, "stopped") \in Sessions
          /\ Wanting(p, "stopped").on = On(p)
          /\ Wanting(p, "stopped").row = Row(p)
          /\ Wanting(p, "stopped").want = "stopped"
      BY <1>0, WantingFacts DEF AppStatuses
    <3>2. Shape("action_commit", Wanting(p, "stopped")) /\ "action_commit" \in Steps
      BY <2>1, <3>1 DEF Shape, Steps, RequestSteps
    <3> QED
      BY <1>0, <1>5, <2>1, <2>3, <3>1, <3>2, QuietMove DEF ActionExists, Explains
  <2>4. CASE Leave(p)
    BY <1>0, <1>5, <2>1, <2>4, QuietEnd DEF ActionExists
  <2> QED
    BY <1>5, <2>2, <2>3, <2>4 DEF ActionExists
<1>6. CASE ActionRun(p)
  <2> DEFINE v == IF sess[p].op = "stop" THEN "stopped" ELSE "running"
  <2>1. up /\ at[p] = "action_run" /\ Row(p) = None /\ On(p) \in Apps
    BY <1>6, Serving, NoWorkerRow DEF ActionRun, WorkerAt, Pipeline
  <2>2. container' \in [Apps -> Containers]
    BY <1>0, <1>6 DEF ActionRun, Containers
  <2>3. CASE Goto(p, "action_commit", Wanting(p, v))
    <3>1. /\ Wanting(p, v) \in Sessions
          /\ Wanting(p, v).on = On(p)
          /\ Wanting(p, v).row = Row(p)
          /\ Wanting(p, v).want = v
          /\ v \in {"running", "stopped"}
      BY <1>0, WantingFacts DEF AppStatuses
    <3>2. Shape("action_commit", Wanting(p, v)) /\ "action_commit" \in Steps
      BY <2>1, <3>1 DEF Shape, Steps, RequestSteps
    <3> QED
      BY <1>6, <2>1, <2>2, <2>3, <3>1, <3>2, QuietMove DEF ActionRun, Explains
  <2>4. CASE Leave(p)
    BY <1>6, <2>1, <2>2, <2>4, QuietEnd DEF ActionRun
  <2> QED
    BY <1>6, <2>3, <2>4 DEF ActionRun
<1>7. CASE ActionCommit(p)
  <2>1. up /\ at[p] = "action_commit" /\ Row(p) = None
    BY <1>7, Serving, NoWorkerRow DEF ActionCommit, WorkerAt, Pipeline
  <2>2. sess[p].want \in AppStatuses /\ sess[p].want # "deploying"
    BY <1>0, <2>1 DEF Shape, AppStatuses
  <2>3. Shape("idle", NoSession) /\ "idle" \in Steps
    BY <1>0 DEF Shape, Steps, RequestSteps
  <2> QED
    BY <1>0, <1>7, <2>1, <2>2, <2>3, PlainWrite DEF ActionCommit, Leave
<1>8. CASE DeleteContainer(p)
  <2>1. up /\ at[p] = "delete_container" /\ Row(p) = None
    BY <1>8, Serving, NoWorkerRow DEF DeleteContainer, WorkerAt, Pipeline
  <2>2. Shape("delete_cascade", sess[p]) /\ "delete_cascade" \in Steps
    BY <1>0, <2>1 DEF Shape, Row, Steps, RequestSteps
  <2>3. container' \in [Apps -> Containers]
    BY <1>0, <1>8 DEF DeleteContainer, Containers
  <2> QED
    BY <1>0, <1>8, <2>1, <2>2, <2>3, QuietMove DEF DeleteContainer, Explains, On, Row
<1>9. CASE DeleteCascade(p)
  <2> DEFINE K == {d \in Rows : dep[d].app = On(p) /\ dep[d].status # "deleted"}
             s == [sess[p] EXCEPT !.kids = K]
  <2>1. up /\ at[p] = "delete_cascade" /\ Row(p) = None
    BY <1>9, Serving, NoWorkerRow DEF DeleteCascade, WorkerAt, Pipeline
  <2>2. s \in Sessions /\ s.on = On(p) /\ s.row = Row(p) /\ s.kids = K
    BY <1>0 DEF Sessions, On, Row
  <2>3. Goto(p, "delete_commit", s)
    BY <1>9 DEF DeleteCascade
  <2>4. \A d \in K : dep[d].app = On(p)
    OBVIOUS
  <2> HIDE DEF s, K
  <2>5. Shape("delete_commit", s) /\ "delete_commit" \in Steps
    BY <2>1, <2>2, Serving DEF Shape, Steps, RequestSteps
  <2> QED
    BY <1>0, <1>9, <2>1, <2>2, <2>3, <2>4, <2>5, QuietMove DEF DeleteCascade, Explains
<1>10. CASE DeleteCommit(p)
  BY <1>10, Serving, DeleteCommitStep DEF DeleteCommit
<1>11. CASE RestoreCommit(p)
  <2>1. up /\ at[p] = "restore_commit" /\ Row(p) = None
    BY <1>11, Serving, NoWorkerRow DEF RestoreCommit, WorkerAt, Pipeline
  <2>2. CASE Exists(On(p))
    <3>1. /\ Seeing(p, Expired) \in Sessions
          /\ Seeing(p, Expired).on = On(p)
          /\ Seeing(p, Expired).row = Row(p)
      BY <1>0, SeeingFacts
    <3>2. Shape("restore_load", Seeing(p, Expired)) /\ "restore_load" \in Steps
      BY <2>1, <3>1, Serving DEF Shape, Steps, RequestSteps
    <3>3. "restoring" \in AppStatuses
      BY DEF AppStatuses
    <3>4. ~Stale(p, "restoring")
      BY <2>2 DEF Stale
    <3> QED
      BY <1>11, <2>1, <2>2, <3>1, <3>2, <3>3, <3>4, PlainWrite DEF RestoreCommit
  <2>3. CASE ~Exists(On(p))
    BY <1>0, <1>11, <2>1, <2>3, QuietEnd DEF RestoreCommit
  <2> QED
    BY <2>2, <2>3
<1>12. CASE RestoreLoad(p)
  <2>1. up /\ at[p] = "restore_load" /\ Row(p) = None /\ On(p) \in Apps
    BY <1>12, Serving, NoWorkerRow DEF RestoreLoad, WorkerAt, Pipeline
  <2>2. CASE Leave(p)
    BY <1>0, <1>12, <2>1, <2>2, QuietEnd DEF RestoreLoad
  <2>3. CASE Goto(p, "restore_files", Seeing(p, status[On(p)]))
    <3>1. /\ Seeing(p, status[On(p)]) \in Sessions
          /\ Seeing(p, status[On(p)]).on = On(p)
          /\ Seeing(p, status[On(p)]).row = Row(p)
      BY <1>0, <2>1, SeeingFacts DEF TypeOK
    <3>2. Shape("restore_files", Seeing(p, status[On(p)])) /\ "restore_files" \in Steps
      BY <2>1, <3>1 DEF Shape, Steps, RequestSteps
    <3> QED
      BY <1>0, <1>12, <2>1, <2>3, <3>1, <3>2, QuietMove DEF RestoreLoad, Explains
  <2> QED
    BY <1>12, <2>2, <2>3 DEF RestoreLoad
<1>13. CASE RestoreFiles(p)
  <2>1. up /\ at[p] = "restore_files" /\ Row(p) = None /\ On(p) \in Apps
    BY <1>13, Serving, NoWorkerRow DEF RestoreFiles, WorkerAt, Pipeline
  <2>2. CASE Goto(p, "prepare", sess[p])
    <3>1. Shape("prepare", sess[p]) /\ "prepare" \in Steps
      BY <1>0, <2>1 DEF Shape, Row, Steps, Pipeline
    <3> QED
      BY <1>0, <1>13, <2>1, <2>2, <3>1, QuietMove DEF RestoreFiles, Explains, On, Row
  <2>3. CASE Goto(p, "broken", Wanting(p, "failed"))
    <3>1. /\ Wanting(p, "failed") \in Sessions
          /\ Wanting(p, "failed").on = On(p)
          /\ Wanting(p, "failed").row = Row(p)
          /\ Wanting(p, "failed").want = "failed"
      BY <1>0, WantingFacts DEF AppStatuses
    <3>2. Shape("broken", Wanting(p, "failed")) /\ "broken" \in Steps
      BY <2>1, <3>1 DEF Shape, Steps, Pipeline
    <3> QED
      BY <1>0, <1>13, <2>1, <2>3, <3>1, <3>2, QuietMove DEF RestoreFiles, Explains
  <2> QED
    BY <1>13, <2>2, <2>3 DEF RestoreFiles
<1> QED
  BY <1>1, <1>2, <1>3, <1>4, <1>5, <1>6, <1>7, <1>8, <1>9, <1>10, <1>11, <1>12, <1>13
     DEF HandlerStep

-----------------------------------------------------------------------------

LEMMA RereadFacts ==
  ASSUME IInv, NEW p \in Requests, at[p] # "idle"
  PROVE  LET s == Seeing(p, Reread(p))
             f == [s EXCEPT !.want = "failed"]
         IN  /\ s \in Sessions /\ s.on = On(p) /\ s.row = Row(p)
             /\ s.seen = Reread(p) /\ s.want = sess[p].want
             /\ f \in Sessions /\ f.on = On(p) /\ f.row = Row(p)
             /\ f.seen = Reread(p) /\ f.want = "failed"
<1>1. Reread(p) \in AppStatuses \cup {Expired, "absent", "gone"}
  BY Serving DEF IInv, TypeOK, Reread, Sessions
<1>2. TypeOK
  BY DEF IInv
<1> DEFINE s == Seeing(p, Reread(p))
<1>3. /\ s \in Sessions /\ s.on = On(p) /\ s.row = Row(p)
      /\ s.seen = Reread(p) /\ s.want = sess[p].want
  BY <1>1, <1>2, SeeingFacts
<1> HIDE DEF s
<1> DEFINE f == [s EXCEPT !.want = "failed"]
<1>4. /\ f \in Sessions /\ f.on = On(p) /\ f.row = Row(p)
      /\ f.seen = Reread(p) /\ f.want = "failed"
  BY <1>3 DEF Sessions, AppStatuses
<1> QED
  BY <1>3, <1>4 DEF s

(* A worker moves through its pipeline with the status it remembers, or with *)
(* the one it reads again.                                                   *)
LEMMA PipelineMove ==
  ASSUME IInv, NEW p \in Requests, at[p] \in Pipeline \ {"broken"},
         NEW step \in Pipeline, NEW s \in Sessions, Goto(p, step, s), Shape(step, s),
         s.on = On(p), s.row = Row(p), s.seen \in {sess[p].seen, Reread(p)},
         container' \in [Apps -> Containers], UNCHANGED <<up, status, dep>>
  PROVE  IInv'
<1>1. /\ up /\ at[p] # "idle" /\ step # "idle" /\ step # "delete_commit"
      /\ at[p] \notin {"queued", "start"} /\ step \in Steps
  BY Serving DEF Pipeline, Steps
<1>2. Explains(p, On(p)) /\ status[On(p)] = "deploying"
        => s.seen \in {Expired, "deploying"}
  BY <1>1 DEF Explains, Reread
<1> QED
  BY <1>1, <1>2, QuietMove

(* The three outcomes of a step of deploy() that reads the app.              *)
LEMMA AppReadInv ==
  ASSUME IInv, NEW p \in Requests, at[p] \in Pipeline \ {"broken"},
         NEW next \in {"remove", "build_report"}, AppRead(p, next),
         UNCHANGED <<up, status, dep, container>>
  PROVE  IInv'
<1> DEFINE s == Seeing(p, Reread(p))
           f == [s EXCEPT !.want = "failed"]
<1>0. up /\ at[p] # "idle" /\ On(p) \in Apps /\ container' \in [Apps -> Containers]
  BY Serving DEF IInv, TypeOK, Pipeline
<1>1. /\ s \in Sessions /\ s.on = On(p) /\ s.row = Row(p) /\ s.seen = Reread(p)
      /\ f \in Sessions /\ f.on = On(p) /\ f.row = Row(p) /\ f.seen = Reread(p)
      /\ f.want = "failed"
  BY <1>0, RereadFacts
<1>2. \/ Leave(p) /\ ~Exists(On(p))
      \/ Goto(p, next, s) \/ Goto(p, "finish", f) \/ Goto(p, "broken", f)
  BY DEF AppRead, Outcome
<1> HIDE DEF s, f
<1>3. Shape(next, s) /\ Shape("finish", f) /\ Shape("broken", f)
  BY <1>0, <1>1 DEF Shape, WorkerAt, Pipeline
<1>4. next \in Pipeline /\ "finish" \in Pipeline /\ "broken" \in Pipeline
  BY DEF Pipeline
<1>5. CASE Leave(p) /\ ~Exists(On(p))
  BY <1>0, <1>5, QuietEnd
<1>6. CASE Goto(p, next, s)
  BY <1>0, <1>1, <1>3, <1>4, <1>6, PipelineMove
<1>7. CASE Goto(p, "finish", f)
  BY <1>0, <1>1, <1>3, <1>4, <1>7, PipelineMove
<1>8. CASE Goto(p, "broken", f)
  BY <1>0, <1>1, <1>3, <1>4, <1>8, PipelineMove
<1> QED
  BY <1>2, <1>5, <1>6, <1>7, <1>8

LEMMA ReportInv ==
  ASSUME IInv, NEW p \in Requests, NEW here \in Pipeline, NEW next \in Pipeline,
         NEW stage \in Stages, Report(p, here, stage, next),
         here # "broken", next # "broken",
         next = "finish" => here = "verify_report", next # "verify_report"
  PROVE  IInv'
<1>0. /\ up /\ at[p] = here /\ at[p] # "idle" /\ On(p) \in Apps
      /\ sess[p] \in Sessions /\ Shape(here, sess[p])
      /\ container' \in [Apps -> Containers] /\ UNCHANGED <<up, status, container>>
  BY Serving DEF IInv, TypeOK, Pipeline, Report, Placed
<1>1. Shape(next, sess[p])
  BY <1>0 DEF Shape, WorkerAt, Pipeline
<1>2. CASE Row(p) = None /\ Goto(p, next, sess[p]) /\ UNCHANGED dep
  BY <1>0, <1>1, <1>2, PipelineMove DEF On, Row
<1>3. CASE Row(p) # None /\ (RowDeleted(p) \/ ~Exists(On(p))) /\ Leave(p) /\ UNCHANGED dep
  BY <1>0, <1>3, QuietEnd DEF RowDeleted
<1>4. CASE /\ Row(p) # None /\ ~RowDeleted(p)
           /\ dep' = [dep EXCEPT ![Row(p)].stage = stage]
           /\ Goto(p, next, Seeing(p, Expired))
  <2> DEFINE r == [dep[Row(p)] EXCEPT !.stage = stage]
             s == Seeing(p, Expired)
  <2>1. /\ Row(p) \in Rows
        /\ dep[Row(p)].app = On(p) /\ dep[Row(p)].status \in ActiveStatuses
        /\ dep[Row(p)] \in [app : Apps \cup {None}, status : DepStatuses, stage : Stages]
    BY <1>0, <1>4 DEF IInv, TypeOK, WorkerRow, RowDeleted, Row, Sessions
  <2>2. /\ r \in [app : Apps \cup {None}, status : DepStatuses, stage : Stages]
        /\ r.app = On(p) /\ r.status \in ActiveStatuses
    BY <2>1
  <2>3. dep' = [dep EXCEPT ![Row(p)] = r]
    BY <1>4, <2>1 DEF IInv, TypeOK
  <2>4. /\ s \in Sessions /\ s.on = On(p) /\ s.row = Row(p) /\ s.seen = Expired
        /\ s.want = sess[p].want
    BY SeeingFacts DEF IInv
  <2> HIDE DEF r, s
  <2>5. Shape(next, s)
    BY <1>0, <2>4 DEF Shape, WorkerAt, Pipeline
  <2>6. Goto(p, next, s)
    BY <1>4 DEF s
  <2> QED
    BY <1>0, <1>4, <2>2, <2>3, <2>4, <2>5, <2>6, RowProgress
<1> QED
  BY <1>2, <1>3, <1>4 DEF Report

LEMMA WorkerInv ==
  ASSUME IInv, NEW p \in Requests, WorkerStep(p)
  PROVE  IInv'
<1>0. /\ TypeOK
      /\ container \in [Apps -> Containers]
      /\ sess[p] \in Sessions
      /\ Shape(at[p], sess[p])
      /\ {"prepare", "validate", "remove", "generate_report", "generate",
          "build_report", "build", "start_report", "run", "verify",
          "verify_report", "broken", "finish"} \subseteq Pipeline
  BY DEF IInv, TypeOK, Placed, Pipeline
<1>W. ASSUME NEW v \in {"running", "failed"}
      PROVE  /\ Wanting(p, v) \in Sessions
             /\ Wanting(p, v).on = On(p)
             /\ Wanting(p, v).row = Row(p)
             /\ Wanting(p, v).seen = sess[p].seen
             /\ Wanting(p, v).want = v
  BY <1>0, WantingFacts DEF AppStatuses
<1>1. CASE WorkerLoad(p)
  <2>1. up /\ at[p] = "queued" /\ On(p) \in Apps
    BY <1>1, Serving DEF WorkerLoad
  <2>2. CASE /\ Exists(On(p)) /\ ~RowDeleted(p)
             /\ Goto(p, "start", Seeing(p, status[On(p)]))
    <3> DEFINE s == Seeing(p, status[On(p)])
    <3>1. s \in Sessions /\ s.on = On(p) /\ s.row = Row(p)
      BY <1>0, <2>1, SeeingFacts DEF TypeOK
    <3> HIDE DEF s
    <3>2. Shape("start", s) /\ "start" \in Steps
      BY <1>0, <2>1, <3>1 DEF Shape, Steps, WorkerAt, Row
    <3>3. Goto(p, "start", s)
      BY <2>2 DEF s
    <3> QED
      BY <1>0, <1>1, <2>1, <3>1, <3>2, <3>3, QuietMove DEF WorkerLoad
  <2>3. CASE (~Exists(On(p)) \/ RowDeleted(p)) /\ Leave(p)
    BY <1>0, <1>1, <2>1, <2>3, QuietEnd DEF WorkerLoad, RowDeleted
  <2> QED
    BY <1>1, <2>2, <2>3 DEF WorkerLoad
<1>2. CASE WorkerStart(p)
  <2>1. up /\ at[p] = "start" /\ On(p) \in Apps /\ Row(p) # None
    BY <1>0, <1>2, Serving DEF WorkerStart, Shape, Row
  <2>2. CASE (RowDeleted(p) \/ ~Exists(On(p))) /\ Leave(p) /\ UNCHANGED <<status, dep>>
    BY <1>0, <1>2, <2>1, <2>2, QuietEnd DEF WorkerStart, RowDeleted
  <2>3. CASE /\ ~RowDeleted(p) /\ ~Stale(p, "deploying")
             /\ dep' = [dep EXCEPT ![Row(p)] = RunningRow(Row(p), "preparing")]
             /\ status' = StatusAfter(p, "deploying")
             /\ Goto(p, "prepare", Seeing(p, Expired))
    <3> DEFINE s == Seeing(p, Expired)
               r == RunningRow(Row(p), "preparing")
    <3>1. s \in Sessions /\ s.on = On(p) /\ s.row = Row(p) /\ s.seen = Expired
      BY <1>0, SeeingFacts
    <3>2. /\ r \in [app : Apps \cup {None}, status : DepStatuses, stage : Stages]
          /\ r.app = On(p) /\ r.status \in ActiveStatuses
      <4>1. /\ Row(p) \in Rows /\ dep[Row(p)].app = On(p)
            /\ dep[Row(p)] \in [app : Apps \cup {None}, status : DepStatuses, stage : Stages]
        BY <1>0, <2>1 DEF IInv, WorkerRow, TypeOK, Sessions, Row
      <4>2. "running" \in DepStatuses \cap ActiveStatuses /\ "preparing" \in Stages
        BY DEF DepStatuses, ActiveStatuses, Stages
      <4> QED
        BY <4>1, <4>2 DEF RunningRow
    <3>3. \/ status' = status
          \/ Exists(On(p)) /\ status' = [status EXCEPT ![On(p)] = "deploying"]
      BY <2>3 DEF Stale, StatusAfter
    <3> HIDE DEF s, r
    <3>4. Shape("prepare", s) /\ dep' = [dep EXCEPT ![Row(p)] = r] /\ Goto(p, "prepare", s)
      BY <2>1, <2>3, <3>1 DEF Shape, WorkerAt, Pipeline, s, r
    <3> QED
      BY <1>0, <1>2, <2>1, <2>3, <3>1, <3>2, <3>3, <3>4, RowProgress DEF WorkerStart
  <2> QED
    BY <1>2, <2>2, <2>3 DEF WorkerStart
<1>3. CASE ReportPreparing(p) \/ ReportGenerate(p) \/ ReportBuild(p) \/ ReportStart(p)
           \/ ReportVerifying(p)
  <2>1. {"preparing", "generating_build", "building_image", "starting", "verifying"}
          \subseteq Stages
    BY DEF Stages
  <2> QED
    BY <1>0, <1>3, <2>1, ReportInv
       DEF ReportPreparing, ReportGenerate, ReportBuild, ReportStart, ReportVerifying
<1>4. CASE Validate(p) \/ GenerateDockerfile(p)
  BY <1>0, <1>4, AppReadInv DEF Validate, GenerateDockerfile
<1>5. CASE RemoveOld(p)
  <2> DEFINE next == IF On(p) \in Built THEN "generate_report" ELSE "start_report"
  <2>1. at[p] = "remove" /\ On(p) \in Apps
    BY <1>5, Serving DEF RemoveOld
  <2>2. container' \in [Apps -> Containers] /\ UNCHANGED <<up, status, dep>>
    BY <1>0, <1>5 DEF RemoveOld, Containers
  <2>3. CASE Goto(p, next, sess[p])
    <3>1. Shape(next, sess[p])
      BY <1>0, <2>1 DEF Shape, WorkerAt, Pipeline
    <3> QED
      BY <1>0, <2>1, <2>2, <2>3, <3>1, PipelineMove DEF On, Row
  <2>4. CASE Goto(p, "finish", Wanting(p, "failed"))
    <3>1. Shape("finish", Wanting(p, "failed"))
      BY <2>1, <1>W DEF Shape, WorkerAt, Pipeline
    <3> QED
      BY <1>0, <1>W, <2>1, <2>2, <2>4, <3>1, PipelineMove
  <2> QED
    BY <1>5, <2>3, <2>4 DEF RemoveOld
<1>6. CASE BuildImage(p)
  <2>1. at[p] = "build" /\ On(p) \in Apps /\ UNCHANGED <<up, status, dep, container>>
    BY <1>6, Serving DEF BuildImage
  <2>2. CASE Goto(p, "start_report", sess[p])
    <3>1. Shape("start_report", sess[p])
      BY <1>0, <2>1 DEF Shape, WorkerAt, Pipeline
    <3> QED
      BY <1>0, <2>1, <2>2, <3>1, PipelineMove DEF On, Row
  <2>3. CASE Goto(p, "finish", Wanting(p, "failed"))
    <3>1. Shape("finish", Wanting(p, "failed"))
      BY <2>1, <1>W DEF Shape, WorkerAt, Pipeline
    <3> QED
      BY <1>0, <1>W, <2>1, <2>3, <3>1, PipelineMove
  <2> QED
    BY <1>6, <2>2, <2>3 DEF BuildImage
<1>7. CASE RunContainer(p)
  <2> DEFINE s == Seeing(p, Reread(p))
             f == [s EXCEPT !.want = "failed"]
  <2>1. /\ at[p] = "run" /\ at[p] # "idle" /\ On(p) \in Apps
        /\ up /\ UNCHANGED <<up, status, dep>>
    BY <1>7, Serving DEF RunContainer
  <2>2. /\ s \in Sessions /\ s.on = On(p) /\ s.row = Row(p) /\ s.seen = Reread(p)
        /\ f \in Sessions /\ f.on = On(p) /\ f.row = Row(p) /\ f.seen = Reread(p)
        /\ f.want = "failed"
    BY <2>1, RereadFacts
  <2>3. /\ \/ Leave(p) /\ ~Exists(On(p))
           \/ Goto(p, "broken", f) \/ Goto(p, "verify", s) \/ Goto(p, "verify_report", f)
        /\ container' \in [Apps -> Containers]
    BY <1>0, <1>7 DEF RunContainer, Containers
  <2> HIDE DEF s, f
  <2>4. Shape("broken", f) /\ Shape("verify", s) /\ Shape("verify_report", f)
    BY <2>1, <2>2 DEF Shape, WorkerAt, Pipeline
  <2>5. CASE Leave(p) /\ ~Exists(On(p))
    BY <2>1, <2>3, <2>5, QuietEnd
  <2>6. CASE Goto(p, "broken", f)
    BY <1>0, <2>1, <2>2, <2>3, <2>4, <2>6, PipelineMove
  <2>7. CASE Goto(p, "verify", s)
    BY <1>0, <2>1, <2>2, <2>3, <2>4, <2>7, PipelineMove
  <2>8. CASE Goto(p, "verify_report", f)
    BY <1>0, <2>1, <2>2, <2>3, <2>4, <2>8, PipelineMove
  <2> QED
    BY <2>3, <2>5, <2>6, <2>7, <2>8
<1>8. CASE Verify(p)
  <2>1. at[p] = "verify" /\ On(p) \in Apps /\ UNCHANGED <<up, status, dep, container>>
    BY <1>8, Serving DEF Verify
  <2>2. PICK v \in {"running", "failed"} : Goto(p, "verify_report", Wanting(p, v))
    BY <1>8 DEF Verify
  <2>3. Shape("verify_report", Wanting(p, v))
    BY <2>1, <1>W DEF Shape, WorkerAt, Pipeline
  <2> QED
    BY <1>0, <1>W, <2>1, <2>2, <2>3, PipelineMove
<1>9. CASE Broken(p)
  <2>1. /\ at[p] = "broken" /\ On(p) \in Apps /\ up
        /\ sess[p].want \in {"running", "failed"}
        /\ "finish" \in Steps /\ UNCHANGED <<up, status, dep, container>>
    BY <1>0, <1>9, Serving DEF Broken, Shape, Steps, Pipeline
  <2>2. CASE Row(p) = None /\ Goto(p, "finish", sess[p])
    <3>1. Shape("finish", sess[p])
      BY <1>0, <2>1 DEF Shape, WorkerAt, Pipeline
    <3> QED
      BY <1>0, <2>1, <2>2, <3>1, QuietMove DEF Explains, On, Row
  <2>3. CASE Exists(On(p)) /\ Goto(p, "finish", Seeing(p, status[On(p)]))
    <3> DEFINE s == Seeing(p, status[On(p)])
    <3>1. /\ s \in Sessions /\ s.on = On(p) /\ s.row = Row(p)
          /\ s.seen = status[On(p)] /\ s.want = sess[p].want
      BY <1>0, <2>1, SeeingFacts DEF TypeOK
    <3> HIDE DEF s
    <3>2. Shape("finish", s)
      BY <1>0, <2>1, <3>1 DEF Shape, WorkerAt, Pipeline
    <3>3. Goto(p, "finish", s)
      BY <2>3 DEF s
    <3> QED
      BY <1>0, <2>1, <3>1, <3>2, <3>3, QuietMove
  <2>4. CASE (~Exists(On(p)) \/ RowDeleted(p)) /\ Leave(p)
    BY <1>0, <2>1, <2>4, QuietEnd DEF RowDeleted
  <2> QED
    BY <1>9, <2>2, <2>3, <2>4 DEF Broken
<1>10. CASE Finish(p)
  <2> DEFINE want == sess[p].want
  <2>1. /\ at[p] = "finish" /\ at[p] # "idle" /\ On(p) \in Apps /\ up /\ Leave(p)
        /\ UNCHANGED <<up, container>>
        /\ want \in {"running", "failed"}
    BY <1>0, <1>10, Serving DEF Finish, Shape
  <2>2. CASE ~Exists(On(p)) /\ UNCHANGED <<status, dep>>
    BY <1>0, <2>1, <2>2, QuietEnd
  <2>3. CASE /\ ~Stale(p, want) /\ status' = StatusAfter(p, want)
             /\ Row(p) = None /\ UNCHANGED dep
    <3>1. Shape("idle", NoSession) /\ "idle" \in Steps /\ NoSession \in Sessions
          /\ NoSession.row = None /\ want \in AppStatuses /\ want # "deploying"
      BY <2>1, NoSessionType DEF Shape, NoSession, Steps, RequestSteps, AppStatuses
    <3> QED
      BY <2>1, <2>3, <3>1, PlainWrite DEF Leave
  <2>4. CASE /\ ~Stale(p, want) /\ status' = StatusAfter(p, want)
             /\ Row(p) # None /\ ~RowDeleted(p)
             /\ dep' = [dep EXCEPT ![Row(p)].status = RowOutcome(want),
                                   ![Row(p)].stage = RowOutcome(want)]
    <3>1. RowOutcome(want) \in {"completed", "failed"}
      BY DEF RowOutcome
    <3> QED
      BY <2>1, <2>4, <3>1, RowClose
  <2> QED
    BY <1>10, <2>2, <2>3, <2>4 DEF Finish
<1> QED
  BY <1>1, <1>2, <1>3, <1>4, <1>5, <1>6, <1>7, <1>8, <1>9, <1>10 DEF WorkerStep

-----------------------------------------------------------------------------

LEMMA InitInv == Init => IInv
<1> SUFFICES ASSUME Init PROVE IInv
  OBVIOUS
<1> USE DEF Init
<1>1. NoSession \in Sessions /\ NoSession.row = None /\ NoSession.on = None
  BY NoSessionType DEF NoSession
<1>2. /\ \A d \in Rows : dep[d].status = "absent" /\ dep[d].app = None
      /\ NoRow \in [app : Apps \cup {None}, status : DepStatuses, stage : Stages]
  BY DEF NoRow, DepStatuses, Stages
<1>3. TypeOK
  BY <1>1, <1>2 DEF TypeOK, Containers, Steps, RequestSteps
<1>4. Placed /\ DownIdle /\ AppSeen /\ WorkerRow /\ OneWorker /\ CascadeOwn
  BY <1>1 DEF Placed, Shape, DownIdle, AppSeen, WorkerRow, OneWorker, CascadeOwn, Row
<1>5. RowApps /\ DeletedWithApp /\ ActiveRowOwned
  BY <1>2 DEF RowApps, DeletedWithApp, ActiveRowOwned, ActiveRow, ActiveStatuses
<1>6. WorkerExplains /\ DeployingExplained
  BY DEF WorkerExplains, DeployingExplained
<1> QED
  BY <1>3, <1>4, <1>5, <1>6 DEF IInv

LEMMA NextInv == IInv /\ [Next]_vars => IInv'
<1> SUFFICES ASSUME IInv, [Next]_vars PROVE IInv'
  OBVIOUS
<1>0. container \in [Apps -> Containers]
  BY DEF IInv, TypeOK
<1>1. ASSUME NEW a \in Apps, CreateApp(a) PROVE IInv'
  BY <1>1, CreateAppStep
<1>2. ASSUME NEW a \in Apps, ContainerExits(a) \/ ContainerRevives(a) PROVE IInv'
  BY <1>0, <1>2, ContainerStep DEF ContainerExits, ContainerRevives, Containers
<1>3. ASSUME NEW p \in Requests, NEW op \in Ops, NEW a \in Apps, Begin(p, op, a)
      PROVE  IInv'
  BY <1>3, BeginStep
<1>4. ASSUME NEW p \in Requests, HandlerStep(p) PROVE IInv'
  BY <1>4, HandlerInv
<1>5. ASSUME NEW p \in Requests, WorkerStep(p) PROVE IInv'
  BY <1>5, WorkerInv
<1>6. CASE Crash
  BY <1>6, CrashStep
<1>7. CASE Restart
  BY <1>7, RestartStep
<1>8. CASE UNCHANGED vars
  BY <1>0, <1>8, ContainerStep DEF vars
<1> QED
  BY <1>1, <1>2, <1>3, <1>4, <1>5, <1>6, <1>7, <1>8 DEF Next

LEMMA Invariance == Spec => []IInv
BY InitInv, NextInv, PTL DEF Spec

(* The variables keep their types whatever the requests, the docker daemon   *)
(* and the process do.                                                       *)
THEOREM TypeCorrect == Spec => []TypeOK
<1>1. IInv => TypeOK
  BY DEF IInv
<1> QED
  BY <1>1, Invariance, PTL

(* No open deployment row of an existing app is without the worker that      *)
(* closes it (_deploy_background, reconcile_interrupted_deployments).        *)
THEOREM OpenRowsAreOwned == Spec => []ActiveRowOwned
<1>1. IInv => ActiveRowOwned
  BY DEF IInv
<1> QED
  BY <1>1, Invariance, PTL

(* No app is left deploying without an open deployment (deploy_app,          *)
(* list_apps, get_app, the restore and the startup reconciliation).          *)
THEOREM DeployingIsExplained == Spec => []DeployingExplained
<1>1. IInv => DeployingExplained
  BY DEF IInv
<1> QED
  BY <1>1, Invariance, PTL

-----------------------------------------------------------------------------
(* Deployments implements DeploymentHistory.  To the invariant the argument  *)
(* adds what a worker's place in deploy() says of the row it reports on.     *)

(* The entry of a row whose worker is at this step.                          *)
Entry(step, r) ==
  /\ step \in {"queued", "start"} => r.status = "queued" /\ r.stage = "queued"
  /\ step \in Pipeline => r.status = "running" /\ r.stage \in History!WorkStages
  /\ step \in {"prepare", "validate", "remove", "generate_report"} => r.stage = "preparing"
  /\ step \in {"generate", "build_report"} => r.stage = "generating_build"
  /\ step = "build" => r.stage = "building_image"
  /\ step = "start_report" => r.stage \in {"preparing", "building_image"}
  /\ step \in {"run", "verify", "verify_report"} => r.stage = "starting"

WorkerEntry ==
  \A p \in Requests :
    Row(p) # None /\ ~RowDeleted(p) => Entry(at[p], dep[Row(p)])

UnusedRows == \A d \in Rows : dep[d].status = "absent" => dep[d].stage = "none"

HInv == IInv /\ WorkerEntry /\ UnusedRows

RowRecords == [app : Apps \cup {None}, status : DepStatuses, stage : Stages]

-----------------------------------------------------------------------------
(* A step that writes no row: the worker, if it goes on, must still be at a   *)
(* step its row's entry fits.                                                *)
OthersWait(p) == \A q \in Requests \ {p} : at'[q] = at[q] /\ sess'[q] = sess[q]

LEMMA QuietEntry ==
  ASSUME HInv, NEW p \in Requests, OthersWait(p), UNCHANGED dep,
         \/ sess'[p].row = None
         \/ /\ sess'[p].row = Row(p)
            /\ Entry(at[p], dep[Row(p)]) => Entry(at'[p], dep[Row(p)])
  PROVE  WorkerEntry' /\ UnusedRows' /\ UNCHANGED Log
<1>1. UNCHANGED Log
  BY DEF Log
<1>2. UnusedRows'
  BY DEF HInv, UnusedRows
<1>3. ASSUME NEW q \in Requests, Row(q)' # None, ~RowDeleted(q)'
      PROVE  Entry(at[q], dep[Row(q)])'
  <2>1. CASE q = p
    <3>1. sess'[p].row = Row(p) /\ Row(p)' = Row(p)
      BY <1>3, <2>1 DEF Row
    <3>2. Row(p) # None /\ ~RowDeleted(p)
      BY <1>3, <2>1, <3>1 DEF RowDeleted
    <3>3. Entry(at'[p], dep[Row(p)])
      BY <1>3, <2>1, <3>1, <3>2 DEF HInv, WorkerEntry
    <3> QED
      BY <2>1, <3>1, <3>3 DEF Entry
  <2>2. CASE q # p
    <3>1. at'[q] = at[q] /\ Row(q)' = Row(q)
      BY <2>2 DEF Row, OthersWait
    <3>2. Entry(at[q], dep[Row(q)])
      BY <1>3, <3>1 DEF HInv, WorkerEntry, RowDeleted
    <3> QED
      BY <3>1, <3>2 DEF Entry
  <2> QED
    BY <2>1, <2>2
<1> QED
  BY <1>1, <1>2, <1>3 DEF WorkerEntry

(* The log's entry of row d becomes that of r.                               *)
Logged(d, r) ==
  Log' = [Log EXCEPT ![d] = [status |-> r.status, stage |-> r.stage]]

(* A worker writes its row: nobody else works on it.                         *)
LEMMA RowEntry ==
  ASSUME HInv, NEW p \in Requests, NEW step \in Steps, NEW s \in Sessions,
         NEW r \in RowRecords, Goto(p, step, s),
         Row(p) # None, ~RowDeleted(p), r.status # "absent",
         dep' = [dep EXCEPT ![Row(p)] = r],
         s.row = None \/ (s.row = Row(p) /\ Entry(step, r))
  PROVE  /\ WorkerEntry' /\ UnusedRows'
         /\ Row(p) \in Rows
         /\ Logged(Row(p), r)
<1>1. /\ at'[p] = step
      /\ sess'[p] = s
      /\ \A q \in Requests \ {p} : at'[q] = at[q] /\ sess'[q] = sess[q]
  BY MoveFacts DEF HInv, IInv
<1>2. /\ Row(p) \in Rows
      /\ dep'[Row(p)] = r
      /\ \A d \in Rows \ {Row(p)} : dep'[d] = dep[d]
  BY DEF HInv, IInv, TypeOK, Row, Sessions
<1>3. UnusedRows'
  BY <1>2 DEF HInv, UnusedRows
<1>4. ASSUME NEW q \in Requests, Row(q)' # None, ~RowDeleted(q)'
      PROVE  Entry(at[q], dep[Row(q)])'
  <2>1. CASE q = p
    <3>1. Row(p)' = Row(p) /\ Entry(step, r)
      BY <1>1, <1>4, <2>1 DEF Row
    <3> QED
      BY <1>1, <1>2, <2>1, <3>1 DEF Entry
  <2>2. CASE q # p
    <3>1. at'[q] = at[q] /\ Row(q)' = Row(q)
      BY <1>1, <2>2 DEF Row
    <3>2. Row(q) \in Rows \ {Row(p)}
      BY <1>4, <2>2, <3>1 DEF HInv, IInv, OneWorker, TypeOK, Sessions, Row
    <3>3. Entry(at[q], dep[Row(q)])
      BY <1>2, <1>4, <3>1, <3>2 DEF HInv, WorkerEntry, RowDeleted
    <3> QED
      BY <1>2, <3>1, <3>2, <3>3 DEF Entry
  <2> QED
    BY <2>1, <2>2
<1>5. Logged(Row(p), r)
  BY <1>2 DEF Log, Logged
<1> QED
  BY <1>2, <1>3, <1>4, <1>5 DEF WorkerEntry

-----------------------------------------------------------------------------
(* The requests.                                                             *)

LEMMA BeginRefines ==
  ASSUME HInv, NEW p \in Requests, NEW op \in Ops, NEW a \in Apps, Begin(p, op, a)
  PROVE  WorkerEntry' /\ UnusedRows' /\ UNCHANGED Log
<1>1. /\ OthersWait(p)
      /\ sess'[p] = [NoSession EXCEPT !.op = op, !.on = a, !.seen = status[a]]
  BY DEF HInv, IInv, TypeOK, Begin, Goto, OthersWait
<1>2. sess'[p].row = None
  BY <1>1 DEF NoSession
<1> QED
  BY <1>1, <1>2, QuietEntry DEF Begin

QuietHandler(p) ==
  \/ DeployCheck(p) \/ Inspect(p) \/ PollCommit(p) \/ ActionExists(p) \/ ActionRun(p)
  \/ ActionCommit(p) \/ DeleteContainer(p) \/ DeleteCascade(p) \/ RestoreCommit(p)
  \/ RestoreLoad(p) \/ RestoreFiles(p)

LEMMA QuietHandlerRefines ==
  ASSUME HInv, NEW p \in Requests, QuietHandler(p)
  PROVE  WorkerEntry' /\ UnusedRows' /\ UNCHANGED Log
<1>0. TypeOK /\ NoSession.row = None /\ sess[p] \in Sessions
  BY DEF HInv, IInv, TypeOK, NoSession
<1>1. Row(p) = None
  <2>1. at[p] \notin WorkerAt
    BY DEF QuietHandler, DeployCheck, Inspect, PollCommit, ActionExists, ActionRun,
           ActionCommit, DeleteContainer, DeleteCascade, RestoreCommit, RestoreLoad,
           RestoreFiles, WorkerAt, Pipeline
  <2> QED
    BY <2>1, NoWorkerRow DEF HInv
<1>2. UNCHANGED dep
  BY DEF QuietHandler, DeployCheck, Inspect, PollCommit, ActionExists, ActionRun,
         ActionCommit, DeleteContainer, DeleteCascade, RestoreCommit, RestoreLoad,
         RestoreFiles
<1>3. PICK step, s : Goto(p, step, s) /\ s.row = None
  <2>1. ASSUME NEW v PROVE Seeing(p, v).row = None /\ Wanting(p, v).row = None
    BY <1>0, <1>1 DEF Seeing, Wanting, Row, Sessions
  <2>2. ASSUME NEW K PROVE [sess[p] EXCEPT !.kids = K].row = None
    BY <1>0, <1>1 DEF Row, Sessions
  <2>3. CASE DeployCheck(p)
    BY <1>0, <1>1, <2>1, <2>2, <2>3 DEF DeployCheck, Leave, Row
  <2>4. CASE Inspect(p)
    BY <1>0, <1>1, <2>1, <2>2, <2>4 DEF Inspect, Leave, Row
  <2>5. CASE PollCommit(p)
    BY <1>0, <1>1, <2>1, <2>2, <2>5 DEF PollCommit, Leave, Row
  <2>6. CASE ActionExists(p)
    BY <1>0, <1>1, <2>1, <2>2, <2>6 DEF ActionExists, Leave, Row
  <2>7. CASE ActionRun(p)
    BY <1>0, <1>1, <2>1, <2>2, <2>7 DEF ActionRun, Leave, Row
  <2>8. CASE ActionCommit(p)
    BY <1>0, <1>1, <2>1, <2>2, <2>8 DEF ActionCommit, Leave, Row
  <2>9. CASE DeleteContainer(p)
    BY <1>0, <1>1, <2>1, <2>2, <2>9 DEF DeleteContainer, Leave, Row
  <2>10. CASE DeleteCascade(p)
    BY <1>0, <1>1, <2>1, <2>2, <2>10 DEF DeleteCascade, Leave, Row
  <2>11. CASE RestoreCommit(p)
    BY <1>0, <1>1, <2>1, <2>2, <2>11 DEF RestoreCommit, Leave, Row
  <2>12. CASE RestoreLoad(p)
    BY <1>0, <1>1, <2>1, <2>2, <2>12 DEF RestoreLoad, Leave, Row
  <2>13. CASE RestoreFiles(p)
    BY <1>0, <1>1, <2>1, <2>2, <2>13 DEF RestoreFiles, Leave, Row
  <2> QED
    BY <2>3, <2>4, <2>5, <2>6, <2>7, <2>8, <2>9, <2>10, <2>11, <2>12, <2>13 DEF QuietHandler
<1>4. OthersWait(p) /\ sess'[p].row = None
  BY <1>0, <1>3 DEF Goto, OthersWait, TypeOK
<1> QED
  BY <1>2, <1>4, QuietEntry

(* The commit of deploy_app is History!Queue.                                *)
LEMMA DeployCommitRefines ==
  ASSUME HInv, NEW p \in Requests, DeployCommit(p)
  PROVE  WorkerEntry' /\ UnusedRows' /\ [History!Next]_Log
<1>0. /\ TypeOK /\ NoSession.row = None /\ sess[p] \in Sessions
      /\ at[p] = "deploy_commit" /\ Row(p) = None
  BY NoWorkerRow DEF HInv, IInv, TypeOK, NoSession, DeployCommit, WorkerAt, Pipeline
<1>1. CASE Leave(p) /\ UNCHANGED dep
  <2>1. OthersWait(p) /\ sess'[p].row = None
    BY <1>0, <1>1 DEF Leave, Goto, OthersWait, TypeOK
  <2> QED
    BY <1>1, <2>1, QuietEntry
<1>2. CASE \E d \in Rows :
          /\ dep[d].status = "absent"
          /\ dep' = [dep EXCEPT ![d] = QueuedRow(On(p))]
          /\ IF Exists(On(p))
             THEN Goto(p, "queued", [sess[p] EXCEPT !.row = d, !.seen = Expired])
             ELSE Leave(p)
  <2>1. PICK d \in Rows :
          /\ dep[d].status = "absent"
          /\ dep' = [dep EXCEPT ![d] = QueuedRow(On(p))]
          /\ IF Exists(On(p))
             THEN Goto(p, "queued", [sess[p] EXCEPT !.row = d, !.seen = Expired])
             ELSE Leave(p)
    BY <1>2
  <2>2. /\ OthersWait(p)
        /\ sess'[p].row = None \/ (sess'[p].row = d /\ at'[p] = "queued")
    <3> DEFINE s == [sess[p] EXCEPT !.row = d, !.seen = Expired]
    <3>1. s.row = d
      BY <1>0 DEF Sessions
    <3> HIDE DEF s
    <3>2. Goto(p, "queued", s) \/ Goto(p, "idle", NoSession)
      BY <2>1 DEF Leave, s
    <3> QED
      BY <1>0, <3>1, <3>2 DEF Goto, OthersWait, TypeOK
  <2>3. /\ dep'[d].status = "queued" /\ dep'[d].stage = "queued"
        /\ \A e \in Rows \ {d} : dep'[e] = dep[e]
    BY <1>0, <2>1 DEF TypeOK, QueuedRow
  <2>4. \A q \in Requests : Row(q) # d
    BY <2>1, NoneAssumption DEF HInv, IInv, WorkerRow, ActiveStatuses
  <2>5. WorkerEntry'
    <3> SUFFICES ASSUME NEW q \in Requests, Row(q)' # None, ~RowDeleted(q)'
                 PROVE  Entry(at[q], dep[Row(q)])'
      BY DEF WorkerEntry
    <3>1. CASE q = p
      BY <2>2, <2>3, <3>1 DEF Row, Entry, Pipeline
    <3>2. CASE q # p
      <4>1. at'[q] = at[q] /\ Row(q)' = Row(q) /\ Row(q) \in Rows \ {d}
        BY <1>0, <2>2, <2>4, <3>2 DEF Row, OthersWait, TypeOK, Sessions
      <4>2. Entry(at[q], dep[Row(q)])
        BY <2>3, <4>1 DEF HInv, WorkerEntry, RowDeleted
      <4> QED
        BY <2>3, <4>1, <4>2 DEF Entry
    <3> QED
      BY <3>1, <3>2
  <2>6. UnusedRows'
    BY <2>3 DEF HInv, UnusedRows
  <2>7. /\ Log[d] = [status |-> "absent", stage |-> "none"]
        /\ Log' = [Log EXCEPT ![d] = [status |-> "queued", stage |-> "queued"]]
    BY <2>1, <2>3 DEF Log, HInv, UnusedRows
  <2>8. History!Queue(d)
    BY <2>7 DEF History!Queue, History!NoEntry
  <2> QED
    BY <2>5, <2>6, <2>8 DEF History!Next
<1> QED
  BY <1>1, <1>2 DEF DeployCommit

(* The commit of delete_app is History!Forget.                               *)
LEMMA DeleteCommitRefines ==
  ASSUME HInv, NEW p \in Requests, DeleteCommit(p)
  PROVE  WorkerEntry' /\ UnusedRows' /\ [History!Next]_Log
<1> DEFINE kids == sess[p].kids
<1>0. /\ TypeOK /\ NoSession.row = None
      /\ at[p] = "delete_commit" /\ On(p) \in Apps /\ kids \subseteq Rows
  BY DEF HInv, IInv, TypeOK, NoSession, DeleteCommit, Placed, Shape, On, Sessions
<1>1. OthersWait(p) /\ sess'[p].row = None
  BY <1>0 DEF DeleteCommit, Leave, Goto, OthersWait, TypeOK
<1>2. /\ \A d \in kids : dep'[d].status = "deleted" /\ dep'[d].stage = "none"
      /\ \A d \in Rows \ kids : dep'[d] = dep[d]
  BY <1>0 DEF DeleteCommit, TypeOK
<1>3. WorkerEntry'
  <2> SUFFICES ASSUME NEW q \in Requests, Row(q)' # None, ~RowDeleted(q)'
               PROVE  Entry(at[q], dep[Row(q)])'
    BY DEF WorkerEntry
  <2>1. q # p /\ at'[q] = at[q] /\ Row(q)' = Row(q) /\ Row(q) \in Rows
    BY <1>0, <1>1 DEF Row, OthersWait, TypeOK, Sessions
  <2>2. Row(q) \notin kids
    BY <1>2, <2>1 DEF RowDeleted
  <2>3. Entry(at[q], dep[Row(q)])
    BY <1>2, <2>1, <2>2 DEF HInv, WorkerEntry, RowDeleted
  <2> QED
    BY <1>2, <2>1, <2>2, <2>3 DEF Entry
<1>4. UnusedRows'
  BY <1>2 DEF HInv, UnusedRows
<1>5. \A d \in kids : dep[d].status # "absent"
  BY <1>0, NoneAssumption DEF HInv, IInv, CascadeOwn, RowApps
<1>6. kids \in SUBSET {d \in Rows : Log[d] # History!NoEntry}
  BY <1>0, <1>5 DEF Log, History!NoEntry
<1>7. Log' = [d \in Rows |-> IF d \in kids THEN [status |-> "deleted", stage |-> "none"]
                                           ELSE Log[d]]
  BY <1>2 DEF Log
<1>8. History!Forget
  BY <1>6, <1>7 DEF History!Forget
<1> QED
  BY <1>3, <1>4, <1>8 DEF History!Next

-----------------------------------------------------------------------------
(* The process.                                                              *)

LEMMA CrashRefines ==
  ASSUME HInv, Crash
  PROVE  WorkerEntry' /\ UnusedRows' /\ UNCHANGED Log
<1>1. \A q \in Requests : Row(q)' = None
  BY DEF Crash, Row, NoSession
<1> QED
  BY <1>1 DEF Crash, WorkerEntry, HInv, UnusedRows, Log

(* reconcile_interrupted_deployments is History!Interrupt.                   *)
LEMMA RestartRefines ==
  ASSUME HInv, Restart
  PROVE  WorkerEntry' /\ UnusedRows' /\ [History!Next]_Log
<1>1. \A q \in Requests : Row(q)' = None
  BY DEF HInv, IInv, Restart, DownIdle, Placed, Shape, Row, NoSession
<1>2. \A d \in Rows :
        IF dep[d].status \in {"queued", "running"}
        THEN dep'[d].status = "failed" /\ dep'[d].stage = "interrupted"
        ELSE dep'[d] = dep[d]
  BY DEF HInv, IInv, TypeOK, Restart, Interrupted, ActiveRow, ActiveStatuses, ReconciledRow
<1>3. WorkerEntry' /\ UnusedRows'
  BY <1>1, <1>2 DEF WorkerEntry, UnusedRows, HInv
<1>4. History!Interrupt
  BY <1>2 DEF History!Interrupt, History!Open, Log
<1> QED
  BY <1>3, <1>4 DEF History!Next

-----------------------------------------------------------------------------
(* The workers.                                                              *)

(* A step that writes no row leads to a step the row's entry fits.           *)
Follows(here, next) ==
  \/ here = "queued" /\ next = "start"
  \/ here = "validate" /\ next \in {"remove", "finish", "broken"}
  \/ here = "remove" /\ next \in {"generate_report", "start_report", "finish"}
  \/ here = "generate" /\ next \in {"build_report", "finish", "broken"}
  \/ here = "build" /\ next \in {"start_report", "finish"}
  \/ here = "run" /\ next \in {"verify", "verify_report", "broken"}
  \/ here = "verify" /\ next = "verify_report"
  \/ here = "broken" /\ next = "finish"

LEMMA FollowsEntry ==
  ASSUME NEW here, NEW next, Follows(here, next), NEW r, Entry(here, r)
  PROVE  Entry(next, r)
BY DEF Follows, Entry, Pipeline

QuietWorker(p) ==
  \/ WorkerLoad(p) \/ Validate(p) \/ RemoveOld(p) \/ GenerateDockerfile(p)
  \/ BuildImage(p) \/ RunContainer(p) \/ Verify(p) \/ Broken(p)

LEMMA QuietWorkerRefines ==
  ASSUME HInv, NEW p \in Requests, QuietWorker(p)
  PROVE  WorkerEntry' /\ UnusedRows' /\ UNCHANGED Log
<1>0. TypeOK /\ NoSession.row = None /\ sess[p] \in Sessions
  BY DEF HInv, IInv, TypeOK, NoSession
<1>1. UNCHANGED dep
  BY DEF QuietWorker, WorkerLoad, Validate, RemoveOld, GenerateDockerfile, BuildImage,
         RunContainer, Verify, Broken
<1>2. \A v, w : /\ Seeing(p, v).row = Row(p)
                /\ Wanting(p, v).row = Row(p)
                /\ [Seeing(p, v) EXCEPT !.want = w].row = Row(p)
  BY <1>0 DEF Seeing, Wanting, Row, Sessions
<1>3. Leave(p) \/ \E next, s : Goto(p, next, s) /\ s.row = Row(p) /\ Follows(at[p], next)
  <2>1. CASE WorkerLoad(p)
    BY <1>2, <2>1 DEF WorkerLoad, Follows
  <2>2. CASE Validate(p)
    BY <1>2, <2>2 DEF Validate, AppRead, Outcome, Follows
  <2>3. CASE RemoveOld(p)
    BY <1>2, <2>3 DEF RemoveOld, Follows, Row
  <2>4. CASE GenerateDockerfile(p)
    BY <1>2, <2>4 DEF GenerateDockerfile, AppRead, Outcome, Follows
  <2>5. CASE BuildImage(p)
    BY <1>2, <2>5 DEF BuildImage, Follows, Row
  <2>6. CASE RunContainer(p)
    BY <1>2, <2>6 DEF RunContainer, Follows
  <2>7. CASE Verify(p)
    BY <1>2, <2>7 DEF Verify, Follows
  <2>8. CASE Broken(p)
    BY <1>2, <2>8 DEF Broken, Follows, Row
  <2> QED
    BY <2>1, <2>2, <2>3, <2>4, <2>5, <2>6, <2>7, <2>8 DEF QuietWorker
<1>4. CASE Leave(p)
  <2>1. OthersWait(p) /\ sess'[p].row = None
    BY <1>0, <1>4 DEF Leave, Goto, OthersWait, TypeOK
  <2> QED
    BY <1>1, <2>1, QuietEntry
<1>5. ASSUME NEW next, NEW s, Goto(p, next, s), s.row = Row(p), Follows(at[p], next)
      PROVE  WorkerEntry' /\ UnusedRows' /\ UNCHANGED Log
  <2>1. OthersWait(p) /\ sess'[p].row = Row(p) /\ at'[p] = next
    BY <1>0, <1>5 DEF Goto, OthersWait, TypeOK
  <2> QED
    BY <1>1, <1>5, <2>1, FollowsEntry, QuietEntry
<1> QED
  BY <1>3, <1>4, <1>5

(* report() is History!Report, or a stutter when it repeats the stage.       *)
Advances(stage, r) ==
  r.stage = stage \/ History!Percent(stage) > History!Percent(r.stage)

LEMMA ReportRefines ==
  ASSUME HInv, NEW p \in Requests, NEW here \in Pipeline, NEW next \in Pipeline,
         NEW stage \in History!WorkStages, Report(p, here, stage, next),
         \A r \in RowRecords : Entry(here, r) =>
           Entry(next, [r EXCEPT !.stage = stage]) /\ Advances(stage, r)
  PROVE  WorkerEntry' /\ UnusedRows' /\ [History!Next]_Log
<1>0. /\ TypeOK /\ NoSession.row = None /\ sess[p] \in Sessions
      /\ at[p] = here /\ next \in Steps /\ stage \in Stages
  BY DEF HInv, IInv, TypeOK, NoSession, Report, Steps, History!WorkStages, Stages
<1>1. CASE Row(p) = None /\ Goto(p, next, sess[p]) /\ UNCHANGED dep
  <2>1. OthersWait(p) /\ sess'[p].row = None
    BY <1>0, <1>1 DEF Goto, OthersWait, TypeOK, Row
  <2> QED
    BY <1>1, <2>1, QuietEntry
<1>2. CASE Leave(p) /\ UNCHANGED dep
  <2>1. OthersWait(p) /\ sess'[p].row = None
    BY <1>0, <1>2 DEF Leave, Goto, OthersWait, TypeOK
  <2> QED
    BY <1>2, <2>1, QuietEntry
<1>3. CASE /\ Row(p) # None /\ ~RowDeleted(p)
           /\ dep' = [dep EXCEPT ![Row(p)].stage = stage]
           /\ Goto(p, next, Seeing(p, Expired))
  <2> DEFINE o == dep[Row(p)]
             r == [o EXCEPT !.stage = stage]
             s == Seeing(p, Expired)
  <2>1. Row(p) \in Rows /\ o \in RowRecords /\ Entry(here, o)
    BY <1>0, <1>3 DEF HInv, WorkerEntry, TypeOK, Sessions, Row, RowRecords
  <2>2. s \in Sessions /\ s.row = Row(p)
    BY <1>0, SeeingFacts
  <2>3. /\ r \in RowRecords /\ r.stage = stage /\ r.status = o.status
        /\ o.status = "running" /\ o.stage \in History!WorkStages
    BY <1>0, <2>1 DEF RowRecords, Entry
  <2>4. Entry(next, r) /\ Advances(stage, o)
    BY <2>1
  <2>5. dep' = [dep EXCEPT ![Row(p)] = r]
    BY <1>0, <1>3, <2>1 DEF TypeOK
  <2> HIDE DEF r, s
  <2>6. /\ WorkerEntry' /\ UnusedRows'
        /\ Logged(Row(p), r)
    <3>1. Goto(p, next, s)
      BY <1>3 DEF s
    <3> QED
      BY <1>0, <1>3, <2>2, <2>3, <2>4, <2>5, <3>1, RowEntry
  <2>7. Log[Row(p)] = [status |-> "running", stage |-> o.stage]
    BY <2>1, <2>3 DEF Log
  <2>8. CASE o.stage = stage
    <3>1. Log' = Log
      BY <2>1, <2>3, <2>6, <2>7, <2>8 DEF Log, Logged
    <3> QED
      BY <2>6, <3>1
  <2>9. CASE History!Percent(stage) > History!Percent(o.stage)
    <3>1. Log' = [Log EXCEPT ![Row(p)].stage = stage]
      BY <2>1, <2>3, <2>6, <2>7 DEF Log, Logged
    <3>2. /\ Log[Row(p)].status = "running"
          /\ History!Percent(stage) > History!Percent(Log[Row(p)].stage)
      BY <2>7, <2>9
    <3>3. History!Report(Row(p))
      BY <3>1, <3>2, Zenon DEF History!Report
    <3> QED
      BY <2>1, <2>6, <3>3 DEF History!Next
  <2> QED
    BY <2>4, <2>8, <2>9 DEF Advances
<1> QED
  BY <1>1, <1>2, <1>3 DEF Report

LEMMA WorkerRefines ==
  ASSUME HInv, NEW p \in Requests, WorkerStep(p)
  PROVE  WorkerEntry' /\ UnusedRows' /\ [History!Next]_Log
<1>0. /\ TypeOK /\ NoSession.row = None /\ sess[p] \in Sessions
      /\ NoSession \in Sessions /\ "idle" \in Steps /\ "prepare" \in Steps
  BY NoSessionType DEF HInv, IInv, TypeOK, NoSession, Steps, RequestSteps, Pipeline
<1>1. CASE QuietWorker(p)
  BY <1>1, QuietWorkerRefines
<1>2. CASE WorkerStart(p)
  <2>1. at[p] = "start" /\ Row(p) # None
    BY <1>2 DEF WorkerStart, HInv, IInv, Placed, Shape, Row
  <2>2. CASE Leave(p) /\ UNCHANGED dep
    <3>1. OthersWait(p) /\ sess'[p].row = None
      BY <1>0, <2>2 DEF Leave, Goto, OthersWait, TypeOK
    <3> QED
      BY <2>2, <3>1, QuietEntry
  <2>3. CASE /\ ~RowDeleted(p)
             /\ dep' = [dep EXCEPT ![Row(p)] = RunningRow(Row(p), "preparing")]
             /\ Goto(p, "prepare", Seeing(p, Expired))
    <3> DEFINE r == RunningRow(Row(p), "preparing")
               s == Seeing(p, Expired)
    <3>1. /\ Row(p) \in Rows /\ dep[Row(p)] \in RowRecords
          /\ dep[Row(p)].status = "queued" /\ Log[Row(p)].status = "queued"
      BY <1>0, <2>1, <2>3
         DEF HInv, WorkerEntry, TypeOK, Sessions, Row, RowRecords, Entry, Log
    <3>2. r \in RowRecords /\ r.status = "running" /\ r.stage = "preparing"
      BY <3>1 DEF RunningRow, RowRecords, DepStatuses, ActiveStatuses, Stages
    <3>3. s \in Sessions /\ s.row = Row(p)
      BY <1>0, SeeingFacts
    <3>4. Entry("prepare", r)
      BY <3>2 DEF Entry, Pipeline, History!WorkStages
    <3> HIDE DEF r, s
    <3>5. /\ WorkerEntry' /\ UnusedRows'
          /\ Logged(Row(p), r)
      <4>1. Goto(p, "prepare", s) /\ dep' = [dep EXCEPT ![Row(p)] = r]
        BY <2>3 DEF r, s
      <4> QED
        BY <1>0, <2>1, <2>3, <3>2, <3>3, <3>4, <4>1, RowEntry
    <3>6. History!Start(Row(p))
      BY <3>1, <3>2, <3>5 DEF History!Start, Logged
    <3> QED
      BY <3>1, <3>5, <3>6 DEF History!Next
  <2> QED
    BY <1>2, <2>2, <2>3 DEF WorkerStart
<1>3. CASE ReportPreparing(p)
  <2>1. \A r \in RowRecords : Entry("prepare", r) =>
          Entry("validate", [r EXCEPT !.stage = "preparing"]) /\ Advances("preparing", r)
    BY DEF RowRecords, Entry, Pipeline, Advances, History!WorkStages
  <2> QED
    BY <1>3, <2>1, ReportRefines DEF ReportPreparing, Pipeline, History!WorkStages
<1>4. CASE ReportGenerate(p)
  <2>1. \A r \in RowRecords : Entry("generate_report", r) =>
          Entry("generate", [r EXCEPT !.stage = "generating_build"])
          /\ Advances("generating_build", r)
    BY DEF RowRecords, Entry, Pipeline, Advances, History!WorkStages, History!Percent
  <2> QED
    BY <1>4, <2>1, ReportRefines DEF ReportGenerate, Pipeline, History!WorkStages
<1>5. CASE ReportBuild(p)
  <2>1. \A r \in RowRecords : Entry("build_report", r) =>
          Entry("build", [r EXCEPT !.stage = "building_image"])
          /\ Advances("building_image", r)
    BY DEF RowRecords, Entry, Pipeline, Advances, History!WorkStages, History!Percent
  <2> QED
    BY <1>5, <2>1, ReportRefines DEF ReportBuild, Pipeline, History!WorkStages
<1>6. CASE ReportStart(p)
  <2>1. \A r \in RowRecords : Entry("start_report", r) =>
          Entry("run", [r EXCEPT !.stage = "starting"]) /\ Advances("starting", r)
    BY DEF RowRecords, Entry, Pipeline, Advances, History!WorkStages, History!Percent
  <2> QED
    BY <1>6, <2>1, ReportRefines DEF ReportStart, Pipeline, History!WorkStages
<1>7. CASE ReportVerifying(p)
  <2>1. \A r \in RowRecords : Entry("verify_report", r) =>
          Entry("finish", [r EXCEPT !.stage = "verifying"]) /\ Advances("verifying", r)
    BY DEF RowRecords, Entry, Pipeline, Advances, History!WorkStages, History!Percent
  <2> QED
    BY <1>7, <2>1, ReportRefines DEF ReportVerifying, Pipeline, History!WorkStages
<1>8. CASE Finish(p)
  <2> DEFINE outcome == RowOutcome(sess[p].want)
  <2>1. at[p] = "finish" /\ Leave(p) /\ outcome \in {"completed", "failed"}
    BY <1>8 DEF Finish, RowOutcome
  <2> HIDE DEF outcome
  <2>2. CASE UNCHANGED dep
    <3>1. OthersWait(p) /\ sess'[p].row = None
      BY <1>0, <2>1 DEF Leave, Goto, OthersWait, TypeOK
    <3> QED
      BY <2>2, <3>1, QuietEntry
  <2>3. CASE /\ Row(p) # None /\ ~RowDeleted(p)
             /\ dep' = [dep EXCEPT ![Row(p)].status = outcome, ![Row(p)].stage = outcome]
    <3> DEFINE r == [dep[Row(p)] EXCEPT !.status = outcome, !.stage = outcome]
    <3>1. /\ Row(p) \in Rows /\ dep[Row(p)] \in RowRecords
          /\ Log[Row(p)].status = "running"
      BY <1>0, <2>1, <2>3
         DEF HInv, WorkerEntry, TypeOK, Sessions, Row, RowRecords, Entry, Log, Pipeline
    <3>2. r \in RowRecords /\ r.status = outcome /\ r.stage = outcome
      BY <2>1, <3>1 DEF RowRecords, DepStatuses, Stages
    <3>3. dep' = [dep EXCEPT ![Row(p)] = r]
      BY <1>0, <2>3, <3>1 DEF TypeOK
    <3> HIDE DEF r
    <3>4. /\ WorkerEntry' /\ UnusedRows'
          /\ Logged(Row(p), r)
      BY <1>0, <2>1, <2>3, <3>2, <3>3, RowEntry DEF Leave
    <3>5. History!Finish(Row(p))
      BY <2>1, <3>1, <3>2, <3>4 DEF History!Finish, Logged
    <3> QED
      BY <3>1, <3>4, <3>5 DEF History!Next
  <2> QED
    BY <1>8, <2>2, <2>3 DEF Finish, outcome
<1> QED
  BY <1>1, <1>2, <1>3, <1>4, <1>5, <1>6, <1>7, <1>8 DEF WorkerStep, QuietWorker

-----------------------------------------------------------------------------

LEMMA HistoryInit == Init => HInv /\ History!Init
<1> SUFFICES ASSUME Init PROVE HInv /\ History!Init
  OBVIOUS
<1>1. IInv
  BY InitInv
<1>2. \A p \in Requests : Row(p) = None
  BY DEF Init, Row, NoSession
<1>3. \A d \in Rows : dep[d].status = "absent" /\ dep[d].stage = "none"
  BY DEF Init, NoRow
<1>4. WorkerEntry /\ UnusedRows
  BY <1>2, <1>3 DEF WorkerEntry, UnusedRows
<1>5. History!Init
  BY <1>3 DEF History!Init, History!NoEntry, Log
<1> QED
  BY <1>1, <1>4, <1>5 DEF HInv

LEMMA HistoryNext == HInv /\ [Next]_vars => HInv' /\ [History!Next]_Log
<1> SUFFICES ASSUME HInv, [Next]_vars
             PROVE  WorkerEntry' /\ UnusedRows' /\ [History!Next]_Log
  BY NextInv DEF HInv
<1>1. ASSUME NEW p \in Requests, NEW op \in Ops, NEW a \in Apps, Begin(p, op, a)
      PROVE  WorkerEntry' /\ UnusedRows' /\ [History!Next]_Log
  BY <1>1, BeginRefines
<1>2. ASSUME NEW p \in Requests, HandlerStep(p)
      PROVE  WorkerEntry' /\ UnusedRows' /\ [History!Next]_Log
  BY <1>2, QuietHandlerRefines, DeployCommitRefines, DeleteCommitRefines
     DEF HandlerStep, QuietHandler
<1>3. ASSUME NEW p \in Requests, WorkerStep(p)
      PROVE  WorkerEntry' /\ UnusedRows' /\ [History!Next]_Log
  BY <1>3, WorkerRefines
<1>4. CASE Crash
  BY <1>4, CrashRefines
<1>5. CASE Restart
  BY <1>5, RestartRefines
<1>6. CASE UNCHANGED <<dep, at, sess>>
  <2>1. \A p \in Requests : Row(p)' = Row(p)
    BY <1>6 DEF Row
  <2> QED
    BY <1>6, <2>1 DEF WorkerEntry, UnusedRows, HInv, RowDeleted, Entry, Log
<1>7. ASSUME NEW a \in Apps, CreateApp(a) \/ ContainerExits(a) \/ ContainerRevives(a)
      PROVE  UNCHANGED <<dep, at, sess>>
  BY <1>7 DEF CreateApp, ContainerExits, ContainerRevives
<1>8. UNCHANGED vars => UNCHANGED <<dep, at, sess>>
  BY DEF vars
<1> QED
  BY <1>1, <1>2, <1>3, <1>4, <1>5, <1>6, <1>7, <1>8 DEF Next

(* The deployments table is the history page's log: rows are queued and run   *)
(* once, stages only advance, outcomes are final, and only a restart or an     *)
(* app's deletion touches a row from outside its worker (_deploy_background,  *)
(* deploy, delete_app, reconcile_interrupted_deployments).                    *)
THEOREM HistoryIsRefined == Spec => HistoryRefined
<1>1. Spec => History!Init /\ [][History!Next]_Log
  BY HistoryInit, HistoryNext, PTL DEF Spec
<1> QED
  BY <1>1 DEF HistoryRefined, History!Spec

-----------------------------------------------------------------------------
(* What the history promises of one row, step by step.                       *)

Final(d) ==
  /\ dep[d].status \in {"completed", "failed"} => Log'[d] = Log[d] \/ dep'[d].status = "deleted"
  /\ dep[d].status = "deleted" => dep'[d].status = "deleted"
Onward(d) ==
  dep[d].status = "running" /\ dep'[d].status = "running" =>
    \/ dep'[d].stage = dep[d].stage
    \/ History!Percent(dep'[d].stage) > History!Percent(dep[d].stage)

LEMMA HistoryRows ==
  ASSUME [History!Next]_Log, NEW d \in Rows
  PROVE  Final(d) /\ Onward(d)
<1>1. /\ Log[d] = [status |-> dep[d].status, stage |-> dep[d].stage]
      /\ Log'[d] = [status |-> dep'[d].status, stage |-> dep'[d].stage]
  BY DEF Log
<1>2. SUFFICES
        /\ Log[d].status \in {"completed", "failed"} =>
             Log'[d] = Log[d] \/ Log'[d].status = "deleted"
        /\ Log[d].status = "deleted" => Log'[d].status = "deleted"
        /\ Log[d].status = "running" /\ Log'[d].status = "running" =>
             \/ Log'[d].stage = Log[d].stage
             \/ History!Percent(Log'[d].stage) > History!Percent(Log[d].stage)
  BY <1>1 DEF Final, Onward
<1>3. DOMAIN Log = Rows /\ \A e \in Rows : DOMAIN Log[e] = {"status", "stage"}
  BY DEF Log
<1>4. CASE Log' = Log
  BY <1>4
<1>5. ASSUME NEW e \in Rows, History!Queue(e) \/ History!Start(e) \/ History!Finish(e)
      PROVE  /\ Log[e].status \in {"absent", "queued", "running"}
             /\ Log'[e].status # "running" \/ Log[e].status = "queued"
             /\ e # d => Log'[d] = Log[d]
  BY <1>3, <1>5 DEF History!Queue, History!Start, History!Finish, History!NoEntry
<1>6. ASSUME NEW e \in Rows, History!Report(e)
      PROVE  /\ Log[e].status = "running"
             /\ History!Percent(Log'[e].stage) > History!Percent(Log[e].stage)
             /\ e # d => Log'[d] = Log[d]
  <2>1. PICK s \in History!WorkStages :
          /\ History!Percent(s) > History!Percent(Log[e].stage)
          /\ Log' = [Log EXCEPT ![e].stage = s]
    BY <1>6, Zenon DEF History!Report
  <2>2. Log[e].status = "running"
    BY <1>6 DEF History!Report
  <2>3. Log'[e].stage = s /\ (e # d => Log'[d] = Log[d])
    BY <1>3, <2>1
  <2>. QED
    BY <2>1, <2>2, <2>3
<1>7. CASE History!Interrupt
  BY <1>7 DEF History!Interrupt, History!Open
<1>8. CASE History!Forget
  BY <1>8 DEF History!Forget
<1>9. CASE \E e \in Rows : History!Queue(e) \/ History!Start(e) \/ History!Finish(e)
  <2>1. PICK e \in Rows : History!Queue(e) \/ History!Start(e) \/ History!Finish(e)
    BY <1>9
  <2>. QED
    BY <1>5, <2>1
<1>10. CASE \E e \in Rows : History!Report(e)
  <2>1. PICK e \in Rows : History!Report(e)
    BY <1>10
  <2>. QED
    BY <1>6, <2>1
<1>. QED
  BY <1>4, <1>7, <1>8, <1>9, <1>10 DEF History!Next

(* The outcome of a deployment is final: no worker that comes late, no start *)
(* of the panel and no other deployment changes a row that is completed or   *)
(* failed, or brings back a deleted one (_deploy_background, delete_app,     *)
(* reconcile_interrupted_deployments).                                       *)
THEOREM OutcomesAreFinal == Spec => [][\A d \in Rows : Final(d)]_vars
<1>1. HInv /\ [Next]_vars => HInv' /\ [\A d \in Rows : Final(d)]_vars
  BY HistoryNext, HistoryRows
<1>. QED
  BY <1>1, HistoryInit, PTL DEF Spec

(* A running deployment's progress never goes back (docker_service.deploy's  *)
(* report calls).                                                            *)
THEOREM ProgressOnlyAdvances == Spec => [][\A d \in Rows : Onward(d)]_vars
<1>1. HInv /\ [Next]_vars => HInv' /\ [\A d \in Rows : Onward(d)]_vars
  BY HistoryNext, HistoryRows
<1>. QED
  BY <1>1, HistoryInit, PTL DEF Spec
=============================================================================
