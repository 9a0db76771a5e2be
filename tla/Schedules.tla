------------------------------ MODULE Schedules ------------------------------
(***************************************************************************)
(* The backup schedules of one app: rows in the database, the interval jobs  *)
(* of the scheduler that lives in the panel's memory, the requests that      *)
(* change both in the thread pool, and the page that shows the rows and      *)
(* sends back what it shows.                                                 *)
(***************************************************************************)
EXTENDS Integers, SequencesExt

CONSTANTS
  MaxId,        \* schedules
  Intervals,
  None,
  MaxRequests,  \* requests in flight
  MaxLoads,     \* listings in flight
  MaxCrashes

ASSUME SchedulesAssumption ==
  /\ MaxId \in Nat \ {0}
  /\ None \notin Intervals \cup [enabled : BOOLEAN, interval : Intervals]
  /\ MaxRequests \in Nat \ {0}
  /\ MaxLoads \in Nat \ {0}
  /\ MaxCrashes \in Nat

VARIABLES
  row,       \* the schedules table
  job,       \* the interval of the job of a schedule, or None
  run,       \* the scheduler's thread of a schedule
  requests,  \* the requests in flight, the oldest first
  up,        \* whether the panel serves
  crashes,   \* crashes so far
  app,       \* whether the app exists
  list,      \* page: the rows shown
  loads,     \* page: the listings in flight, the oldest first
  raced,     \* history: two requests for a schedule met, or a commit failed
  crossed    \* history: the page's last listing met a request or another one

database == <<row, app>>
page == <<list, loads>>
panel == <<up, crashes>>
vars == <<row, job, run, requests, up, crashes, app, list, loads, raced, crossed>>

Ids == 1 .. MaxId
Row == [enabled : BOOLEAN, interval : Intervals]
Rows == [Ids -> Row \cup {None}]

On(s) == {r \in DOMAIN requests : requests[r].id = s}

Init ==
  /\ row = [s \in Ids |-> None]
  /\ job = [s \in Ids |-> None]
  /\ run = [s \in Ids |-> "none"]
  /\ requests = <<>>
  /\ up = TRUE
  /\ crashes = 0
  /\ app = TRUE
  /\ list = [s \in Ids |-> None]
  /\ loads = <<None>>
  /\ raced = [s \in Ids |-> FALSE]
  /\ crossed = FALSE

-----------------------------------------------------------------------------
(* sync_schedule(): the job of a schedule follows the row as it is about to  *)
(* be committed.                                                             *)

(* Mutants: a schedule that is off keeps its job; or keeps it, paused.       *)
SyncedOn(r) == r.interval
SyncedPaused(r) == IF r.enabled THEN r.interval ELSE "paused"
Synced(r) == IF r.enabled THEN r.interval ELSE None

(* start_scheduler(): at start-up every row is synchronised.                 *)
(* Mutant: the scheduler starts empty.                                       *)
StartEmpty == [s \in Ids |-> None]
StartScheduler == [s \in Ids |-> IF row[s] = None THEN None ELSE Synced(row[s])]

Crash ==
  /\ up
  /\ crashes < MaxCrashes
  /\ up' = FALSE
  /\ crashes' = crashes + 1
  /\ job' = [s \in Ids |-> None]
  /\ run' = [s \in Ids |-> "none"]
  /\ requests' = <<>>
  /\ loads' = <<>>
  /\ crossed' = TRUE
  /\ UNCHANGED <<database, list, raced>>

Restart ==
  /\ ~up
  /\ up' = TRUE
  /\ job' = StartScheduler
  /\ raced' = [s \in Ids |-> FALSE]
  /\ UNCHANGED <<database, crashes, run, requests, page, crossed>>

-----------------------------------------------------------------------------
(* _run_schedule(), in a thread of the scheduler; one at a time of each job. *)
(* It reads the row as it is when the job comes due.                         *)

Wanted(s) == row[s] # None /\ row[s].enabled /\ app

RunSchedule(s) ==
  /\ job[s] # None
  /\ run[s] = "none"
  /\ Wanted(s)
  /\ run' = [run EXCEPT ![s] = "backup"]
  /\ UNCHANGED <<database, job, requests, panel, page, raced, crossed>>

(* create_backup() has ended, one way or the other, and the row has got its  *)
(* next_run.                                                                 *)
EndRun(s) ==
  /\ run[s] = "backup"
  /\ run' = [run EXCEPT ![s] = "none"]
  /\ UNCHANGED <<database, job, requests, panel, page, raced, crossed>>

-----------------------------------------------------------------------------
(* The handlers.  A new row is flushed before the job is made, and SQLite    *)
(* lets nobody else write until it is committed; its id is one more than the *)
(* largest there is.                                                         *)

Writing == \E r \in DOMAIN requests : requests[r].kind = "create" /\ requests[r].stage \in {"ready", "synced"}
NextId == CHOOSE n \in 1 .. MaxId + 1 :
  /\ \A s \in Ids : row[s] # None => s < n
  /\ n = 1 \/ row[n - 1] # None

Refused(r) == requests' = RemoveAt(requests, r)

Flush(r) ==
  /\ requests[r].stage = "sent" /\ requests[r].kind = "create"
  /\ ~Writing
  /\ IF app /\ NextId \in Ids
     THEN /\ requests' = [requests EXCEPT ![r].stage = "ready", ![r].id = NextId]
          /\ raced' = [raced EXCEPT ![NextId] = On(NextId) # {}]
     ELSE Refused(r) /\ UNCHANGED raced
  /\ UNCHANGED <<database, job, run, panel, page, crossed>>

(* A request that reads the row alone puts right what others left apart.     *)
Get(r) ==
  /\ requests[r].stage = "sent" /\ requests[r].kind \in {"update", "delete"}
  /\ LET s == requests[r].id IN
       IF row[s] = None
       THEN Refused(r) /\ UNCHANGED raced
       ELSE /\ requests' = [requests EXCEPT ![r].stage = "ready",
                              ![r].base = IF requests[r].kind = "update" THEN row[s] ELSE None]
            /\ raced' = [raced EXCEPT ![s] = @ /\ On(s) # {r}]
  /\ UNCHANGED <<database, job, run, panel, page, crossed>>

Sync(r) ==
  /\ requests[r].stage = "ready"
  /\ requests' = [requests EXCEPT ![r].stage = "synced"]
  /\ job' = [job EXCEPT ![requests[r].id] =
       IF requests[r].kind = "delete" THEN None ELSE Synced(requests[r].new)]
  /\ UNCHANGED <<database, run, panel, page, raced, crossed>>

(* An update writes the columns that it has changed, over the row as it is   *)
(* by now; a row that is gone cannot be updated.                             *)
Merged(q, now) ==
  [enabled |-> IF q.new.enabled = q.base.enabled THEN now.enabled ELSE q.new.enabled,
   interval |-> IF q.new.interval = q.base.interval THEN now.interval ELSE q.new.interval]

(* All that counts of a request that is only to be answered.                 *)
Done == [stage |-> "done", kind |-> "update", id |-> 0, new |-> None, base |-> None]

Commit(r) ==
  LET q == requests[r] IN
  /\ q.stage = "synced"
  /\ q.kind = "create" \/ ~Writing
  /\ q.kind = "update" => row[q.id] # None
  /\ row' = [row EXCEPT ![q.id] = CASE q.kind = "create" -> q.new
                                    [] q.kind = "delete" -> None
                                    [] OTHER -> Merged(q, row[q.id])]
  /\ requests' = [requests EXCEPT ![r] = Done]
  /\ UNCHANGED <<job, run, panel, app, page, raced, crossed>>

(* The row is gone, or the database stays locked: the job stays as it is.    *)
CommitFails(r) ==
  /\ requests[r].stage = "synced"
  /\ requests' = RemoveAt(requests, r)
  /\ raced' = [raced EXCEPT ![requests[r].id] = TRUE]
  /\ UNCHANGED <<database, job, run, panel, page, crossed>>

(* The app is deleted; its schedules are not.                                *)
DeleteApp ==
  /\ up
  /\ app
  /\ app' = FALSE
  /\ UNCHANGED <<row, job, run, requests, panel, page, raced, crossed>>

-----------------------------------------------------------------------------
(* BackupsView.                                                              *)

Ask ==
  /\ up
  /\ Len(loads) < MaxLoads
  /\ loads' = Append(loads, None)

Refresh ==
  /\ Ask
  /\ crossed' = (loads # <<>> \/ requests # <<>>)
  /\ UNCHANGED <<database, job, run, requests, panel, list, raced>>

Answer(i) ==
  /\ loads[i] = None
  /\ loads' = [loads EXCEPT ![i] = row]
  /\ UNCHANGED <<database, job, run, requests, panel, list, raced, crossed>>

Deliver(i) ==
  /\ loads[i] # None
  /\ list' = loads[i]
  /\ loads' = RemoveAt(loads, i)
  /\ UNCHANGED <<database, job, run, requests, panel, raced, crossed>>

Send(kind, s, new) ==
  /\ up
  /\ Len(requests) < MaxRequests
  /\ requests' = Append(requests, [stage |-> "sent", kind |-> kind, id |-> s, new |-> new,
                                   base |-> None])
  /\ raced' = [t \in Ids |-> raced[t] \/ (t = s /\ On(s) # {})]
  /\ crossed' = (crossed \/ requests # <<>> \/ loads # <<>>)
  /\ UNCHANGED <<database, job, run, panel, page>>

(* toggleSchedule(), removeSchedule(): what the row on the screen says, the   *)
(* other columns included.  Nothing keeps a button from being pressed again. *)
ToggleSchedule(s) ==
  list[s] # None /\ Send("update", s, [list[s] EXCEPT !.enabled = ~@])
RemoveSchedule(s) ==
  list[s] # None /\ Send("delete", s, None)

(* ScheduleModal: a new schedule is on; one that is edited is sent as on or   *)
(* off as the page showed it when the dialog was opened, which may be some   *)
(* time ago.                                                                 *)
SubmitNew(interval) ==
  Send("create", 0, [enabled |-> TRUE, interval |-> interval])
SubmitEdited(s, interval) ==
  list[s] # None /\ \E enabled \in BOOLEAN :
    Send("update", s, [enabled |-> enabled, interval |-> interval])

(* Mutant: the page keeps what it shows.                                     *)
ShowNothing(r) ==
  /\ requests[r].stage = "done"
  /\ requests' = RemoveAt(requests, r)
  /\ UNCHANGED <<database, job, run, panel, page, raced, crossed>>

(* The answer: the page loads again.                                         *)
Show(r) ==
  /\ requests[r].stage = "done"
  /\ requests' = RemoveAt(requests, r)
  /\ Ask
  /\ crossed' = (loads # <<>> \/ Len(requests) > 1)
  /\ UNCHANGED <<database, job, run, panel, list, raced>>

Handle(r) == Flush(r) \/ Get(r) \/ Sync(r) \/ Commit(r) \/ CommitFails(r) \/ Show(r)

Next ==
  \/ Crash \/ Restart \/ DeleteApp \/ Refresh
  \/ \E s \in Ids : RunSchedule(s) \/ EndRun(s) \/ ToggleSchedule(s) \/ RemoveSchedule(s)
  \/ \E interval \in Intervals : \/ SubmitNew(interval)
                                \/ \E s \in Ids : SubmitEdited(s, interval)
  \/ \E r \in DOMAIN requests : Handle(r)
  \/ \E i \in DOMAIN loads : Answer(i) \/ Deliver(i)

Spec == Init /\ [][Next]_vars

(* The panel comes back, the threads that serve the requests of a schedule   *)
(* go on, and so does its job.  Whether the page asks again, and whether an  *)
(* answer reaches it, is left open.                                          *)
FairSpec ==
  /\ Spec
  /\ WF_vars(Restart)
  /\ \A s \in Ids : /\ WF_vars(\E r \in On(s) : Handle(r))
                    /\ WF_vars(RunSchedule(s) \/ EndRun(s))

-----------------------------------------------------------------------------
(* Properties.                                                               *)

(* The types of the state.                                                   *)
TypeOK ==
  /\ row \in Rows
  /\ job \in [Ids -> Intervals \cup {None}]
  /\ run \in [Ids -> {"none", "backup"}]
  /\ Len(requests) <= MaxRequests
  /\ \A r \in DOMAIN requests : /\ requests[r].stage \in {"sent", "ready", "synced", "done"}
                                /\ requests[r].kind \in {"create", "update", "delete"}
                                /\ requests[r].id \in 0 .. MaxId
                                /\ requests[r].new \in Row \cup {None}
                                /\ requests[r].base \in Row \cup {None}
  /\ up \in BOOLEAN
  /\ crashes \in 0 .. MaxCrashes
  /\ app \in BOOLEAN
  /\ list \in Rows
  /\ Len(loads) <= MaxLoads
  /\ \A i \in DOMAIN loads : loads[i] \in Rows \cup {None}
  /\ raced \in [Ids -> BOOLEAN]
  /\ crossed \in BOOLEAN

(* While the panel serves and nothing is under way for a schedule it has a    *)
(* job exactly when its row says it is on, with the row's interval: also     *)
(* after a crash between the change of the job and the commit of the row.    *)
(* Requests that met, and a commit that failed, may leave them apart until   *)
(* the next start or the next request that has the schedule for itself.      *)
JobsFollowRows ==
  up => \A s \in Ids : (On(s) = {} /\ ~raced[s]) =>
    job[s] = IF row[s] = None THEN None
             ELSE IF row[s].enabled THEN row[s].interval ELSE None

(* A schedule that is on makes a backup, unless it is changed, its app is    *)
(* deleted or its requests have met; a panel that crashes makes up for it.   *)
EnabledRuns ==
  \A s \in Ids : (row[s] # None /\ row[s].enabled) ~>
    (run[s] = "backup" \/ row[s] = None \/ ~row[s].enabled \/ ~app \/ raced[s])

(* When all is answered the page shows the rows as they are, unless a        *)
(* request or a listing met another since it was last loaded.                *)
ListFollows == (requests = <<>> /\ loads = <<>> /\ ~crossed) => list = row
=============================================================================
