------------------------------- MODULE Backups -------------------------------
(***************************************************************************)
(* The backups of one app (services/backup_service.py, routers/backups.py,   *)
(* _run_schedule in services/scheduler_service.py): rows of the table         *)
(* backups and archives on disk, which only the order of the commits, writes *)
(* and unlinks keeps in step.                                                *)
(*                                                                         *)
(* A row is its id, in the order of creation.  An archive's path holds the   *)
(* second it was begun in, so two backups begun in one second share it.  A   *)
(* path leads to a file, called after the process that created it, and a     *)
(* file holds what those that have it open wrote: unlinking the path leaves  *)
(* the open file to its writer.  Each process runs once.                     *)
(***************************************************************************)
EXTENDS Naturals, FiniteSets

CONSTANTS
  Manual,      \* background tasks of POST /apps/{app_id}
  Runs,        \* scheduled runs
  Deletes,     \* DELETE /items/{backup_id} requests
  Keep,        \* the retention of each run's schedule
  Telegram,    \* the processes whose destination is telegram
  MaxRows,     \* bound on the number of backups
  MaxCrashes,  \* bound on the number of crashes
  SameSecond,  \* whether two backups may begin in the same second
  None         \* no file

Creators == Manual \cup Runs
Processes == Creators \cup Deletes
Ids == 1 .. MaxRows

ASSUME ProcessAssumption ==
  /\ Manual \cap Runs = {} /\ Creators \cap Deletes = {} /\ None \notin Creators
  /\ Telegram \subseteq Creators
ASSUME RetentionAssumption == Keep \in [Runs -> Nat \ {0}]     \* schemas.py: ge=1
ASSUME BoundsAssumption == {MaxRows, MaxCrashes} \subseteq Nat /\ SameSecond \in BOOLEAN

VARIABLES
  up,        \* the panel process is serving
  crashes,   \* crashes so far
  made,      \* the last id
  status,    \* of each row, "none" before and "deleted" after it exists
  error,     \* of each row
  path,      \* of each row's archive
  disk,      \* the file each path leads to, or None
  content,   \* who has written to each file since it was last truncated
  at,        \* where each process is
  mine,      \* the row a process creates or deletes
  file,      \* the file a creator has open
  outcome,   \* the status and error a creator will commit
  doomed,    \* the rows a run's retention removes
  left       \* those of them whose archive is not unlinked yet

vars == <<up, crashes, made, status, error, path, disk, content,
          at, mine, file, outcome, doomed, left>>

table == <<made, status, error, path>>
files == <<disk, content, file>>
retention == <<doomed, left>>

Resting == {"new", "done"}
Live(d) == status[d] \notin {"none", "deleted"}

Init ==
  /\ up = TRUE
  /\ crashes = 0
  /\ made = 0
  /\ status = [d \in Ids |-> "none"]
  /\ error = [d \in Ids |-> "none"]
  /\ path = [d \in Ids |-> d]
  /\ disk = [t \in Ids |-> None]
  /\ content = [p \in Creators |-> {}]
  /\ at = [p \in Processes |-> "new"]
  /\ mine = [p \in Processes |-> 0]
  /\ file = [p \in Creators |-> None]
  /\ outcome = [p \in Creators |-> <<"creating", "none">>]
  /\ doomed = [p \in Runs |-> {}]
  /\ left = [p \in Runs |-> {}]

Goto(p, to) == at' = [at EXCEPT ![p] = to]
Move(p, from, to) == at[p] = from /\ Goto(p, to)
PathOf(p) == path[mine[p]]
Unlink(t) == disk' = [disk EXCEPT ![t] = None]

-----------------------------------------------------------------------------
(* create_backup.                                                            *)

(* The path: of the second of the clock, later backups in later seconds.     *)
Paths(d) == {d} \cup (IF SameSecond /\ d > 1 THEN {path[d - 1]} ELSE {})

(* The row is committed before anything is dumped.                           *)
Insert(p) ==
  /\ up
  /\ Move(p, "new", "open")
  /\ made < MaxRows
  /\ made' = made + 1
  /\ status' = [status EXCEPT ![made + 1] = "creating"]
  /\ \E t \in Paths(made + 1) : path' = [path EXCEPT ![made + 1] = t]
  /\ mine' = [mine EXCEPT ![p] = made + 1]
  /\ UNCHANGED <<up, crashes, error, files, outcome, retention>>

(* Mutant: another status.                                                   *)
RaiseMisspelt(p, reason) ==
  /\ outcome' = [outcome EXCEPT ![p] = <<"error", reason>>]
  /\ Goto(p, "except")

Raise(p, reason) ==
  /\ outcome' = [outcome EXCEPT ![p] = <<"failed", reason>>]
  /\ Goto(p, "except")

(* The dump, then tarfile.open(output, "w:gz"): truncates what is there.     *)
Open(p) ==
  /\ at[p] = "open"
  /\ LET f == IF disk[PathOf(p)] = None THEN p ELSE disk[PathOf(p)] IN
       \/ /\ disk' = [disk EXCEPT ![PathOf(p)] = f]
          /\ content' = [content EXCEPT ![f] = {}]
          /\ file' = [file EXCEPT ![p] = f]
          /\ Goto(p, "write")
          /\ UNCHANGED outcome
       \/ Raise(p, "dump") /\ UNCHANGED files
  /\ UNCHANGED <<up, crashes, table, mine, retention>>

(* The source, the manifest and the dump go in; adding a file may raise.     *)
Write(p) ==
  /\ at[p] = "write"
  /\ \/ /\ content' = [content EXCEPT ![file[p]] = @ \cup {p}]
        /\ Goto(p, "stat")
        /\ UNCHANGED outcome
     \/ Raise(p, "archive") /\ UNCHANGED content
  /\ UNCHANGED <<up, crashes, table, disk, mine, file, retention>>

Complete(p) ==
  /\ outcome' = [outcome EXCEPT ![p] = <<"completed", "none">>]
  /\ Goto(p, "commit")

(* output.stat() raises if somebody has unlinked the path.                   *)
Stat(p) ==
  /\ at[p] = "stat"
  /\ IF disk[PathOf(p)] = None THEN Raise(p, "archive")
     ELSE IF p \in Telegram THEN Goto(p, "send") /\ UNCHANGED outcome
     ELSE Complete(p)
  /\ UNCHANGED <<up, crashes, table, files, mine, retention>>

(* send_telegram: path.stat() raises too, and more than 49 MB are refused;   *)
(* missing settings or Telegram's answer may be an error.                    *)
Send(p) ==
  /\ at[p] = "send"
  /\ IF disk[PathOf(p)] = None THEN Raise(p, "archive")
     ELSE Complete(p) \/ \E reason \in {"size", "telegram"} : Raise(p, reason)
  /\ UNCHANGED <<up, crashes, table, files, mine, retention>>

(* Mutant: the row of a failed backup says completed.                        *)
ExceptCompleting(p) ==
  /\ Move(p, "except", "commit")
  /\ Unlink(PathOf(p))
  /\ outcome' = [outcome EXCEPT ![p][1] = "completed"]
  /\ UNCHANGED <<up, crashes, table, content, file, mine, retention>>

(* except: output.unlink(missing_ok=True).                                   *)
Except(p) ==
  /\ Move(p, "except", "commit")
  /\ Unlink(PathOf(p))
  /\ UNCHANGED <<up, crashes, table, content, file, mine, outcome, retention>>

(* The outcome; a row deleted meanwhile makes the commit raise, and a        *)
(* scheduled run ends there too.                                             *)
Commit(p) ==
  /\ at[p] = "commit"
  /\ IF Live(mine[p])
     THEN /\ status' = [status EXCEPT ![mine[p]] = outcome[p][1]]
          /\ error' = [error EXCEPT ![mine[p]] = outcome[p][2]]
          /\ Goto(p, IF p \in Runs THEN "list" ELSE "done")
     ELSE Goto(p, "done") /\ UNCHANGED <<status, error>>
  /\ UNCHANGED <<up, crashes, made, path, files, mine, outcome, retention>>

-----------------------------------------------------------------------------
(* enforce_retention, after the run's own commits.                           *)

Completed == {d \in Ids : status[d] = "completed"}
Newer(d) == {e \in Completed : e > d}

(* Mutant: the order of creation is not reversed.                            *)
BeyondOldest(k) == {d \in Completed : Cardinality({e \in Completed : e < d}) >= k}

(* records[schedule.retention:]                                              *)
Beyond(k) == {d \in Completed : Cardinality(Newer(d)) >= k}

(* The run ends before it if its row or its schedule, which it refreshes and *)
(* updates first, is gone.                                                   *)
List(p) ==
  /\ \/ /\ Move(p, "list", "prune")
        /\ doomed' = [doomed EXCEPT ![p] = Beyond(Keep[p])]
        /\ left' = [left EXCEPT ![p] = Beyond(Keep[p])]
     \/ Move(p, "list", "done") /\ UNCHANGED retention
  /\ UNCHANGED <<up, crashes, table, files, mine, outcome>>

(* Mutant: one archive is passed over.                                       *)
PruneSkipping(p) ==
  /\ at[p] = "prune"
  /\ \E d \in left[p] : left' = [left EXCEPT ![p] = @ \ {d}]
  /\ UNCHANGED <<up, crashes, table, files, at, mine, outcome, doomed>>

(* One archive after the other is unlinked, the newest first, ...            *)
Prune(p) ==
  /\ at[p] = "prune"
  /\ \E d \in left[p] :
       /\ \A e \in left[p] : e <= d
       /\ Unlink(path[d])
       /\ left' = [left EXCEPT ![p] = @ \ {d}]
  /\ UNCHANGED <<up, crashes, table, content, file, at, mine, outcome, doomed>>

(* ... then one commit deletes the rows (one already gone is only a warning).*)
Purge(p) ==
  /\ Move(p, "prune", "done")
  /\ left[p] = {}
  /\ status' = [d \in Ids |-> IF d \in doomed[p] THEN "deleted" ELSE status[d]]
  /\ UNCHANGED <<up, crashes, made, error, path, files, mine, outcome, retention>>

-----------------------------------------------------------------------------
(* delete_backup: any row, one being created included.                       *)

DeleteLook(x) ==
  /\ up
  /\ Move(x, "new", "unlink")
  /\ \E d \in Ids : Live(d) /\ mine' = [mine EXCEPT ![x] = d]
  /\ UNCHANGED <<up, crashes, table, files, outcome, retention>>

DeleteUnlink(x) ==
  /\ Move(x, "unlink", "delete")
  /\ Unlink(PathOf(x))
  /\ UNCHANGED <<up, crashes, table, content, file, mine, outcome, retention>>

DeleteCommit(x) ==
  /\ Move(x, "delete", "done")
  /\ status' = [status EXCEPT ![mine[x]] = "deleted"]
  /\ UNCHANGED <<up, crashes, made, error, path, files, mine, outcome, retention>>

-----------------------------------------------------------------------------
(* A crash ends every process; no start-up step looks at the backups.        *)

Crash ==
  /\ up
  /\ crashes < MaxCrashes
  /\ up' = FALSE
  /\ crashes' = crashes + 1
  /\ at' = [p \in Processes |-> IF at[p] = "new" THEN "new" ELSE "done"]
  /\ UNCHANGED <<table, files, mine, outcome, retention>>

Restart ==
  /\ ~up
  /\ up' = TRUE
  /\ UNCHANGED <<crashes, table, files, at, mine, outcome, retention>>

CreateStep(p) == Open(p) \/ Write(p) \/ Stat(p) \/ Send(p) \/ Except(p) \/ Commit(p)
RetentionStep(p) == List(p) \/ Prune(p) \/ Purge(p)
DeleteStep(x) == DeleteUnlink(x) \/ DeleteCommit(x)

Next ==
  \/ \E p \in Creators : Insert(p) \/ CreateStep(p)
  \/ \E p \in Runs : RetentionStep(p)
  \/ \E x \in Deletes : DeleteLook(x) \/ DeleteStep(x)
  \/ Crash
  \/ Restart

Spec == Init /\ [][Next]_vars

-----------------------------------------------------------------------------
(* Properties.                                                               *)

Steps == {"open", "write", "stat", "send", "except", "commit", "list", "prune",
          "unlink", "delete"}

(* The types of the state.                                                   *)
TypeOK ==
  /\ up \in BOOLEAN
  /\ crashes \in 0 .. MaxCrashes
  /\ made \in 0 .. MaxRows
  /\ status \in [Ids -> {"none", "creating", "completed", "failed", "deleted"}]
  /\ error \in [Ids -> {"none", "dump", "archive", "size", "telegram"}]
  /\ path \in [Ids -> Ids]
  /\ disk \in [Ids -> Creators \cup {None}]
  /\ content \in [Creators -> SUBSET Creators]
  /\ at \in [Processes -> Resting \cup Steps]
  /\ mine \in [Processes -> 0 .. MaxRows]
  /\ file \in [Creators -> Creators \cup {None}]
  /\ outcome \in [Creators -> {"creating", "completed", "failed"}
                               \X {"none", "dump", "archive", "size", "telegram"}]
  /\ doomed \in [Runs -> SUBSET Ids]
  /\ left \in [Runs -> SUBSET Ids]

(* The archive at the row's path is the one made for it, and whole.          *)
Restorable(d) ==
  /\ disk[path[d]] # None
  /\ \E p \in Creators : mine[p] = d /\ content[disk[path[d]]] = {p}

BeingRemoved(d) ==
  \/ \E x \in Deletes : mine[x] = d /\ at[x] \in {"unlink", "delete"}
  \/ \E p \in Runs : at[p] = "prune" /\ d \in doomed[p]
NoDeletes == \A x \in Deletes : at[x] = "new"

(* A backup shown as completed can be downloaded and restored, whatever      *)
(* backups, retentions and deletes overlap, crashes and backups begun in one *)
(* second aside (create_backup's order of archive, status and commit).       *)
CompletedRestorable ==
  crashes = 0 => \A d \in Completed : BeingRemoved(d) \/ Restorable(d)

(* Retention never costs a backup that some schedule's retention does not    *)
(* give up: overlapping runs and crashes included, the newest completed ones *)
(* stay restorable and what is removed had enough newer ones.                *)
RetentionKeeps ==
  NoDeletes =>
    \A d \in Ids :
      /\ status[d] = "completed" =>
           Restorable(d) \/ \E p \in Runs : Cardinality(Newer(d)) >= Keep[p]
      /\ status[d] = "deleted" => \E p \in Runs : Cardinality(Newer(d)) >= Keep[p]

(* Every archive on disk belongs to a backup that is still listed, at every  *)
(* moment and whatever fails or crashes: a row goes only after its archive,  *)
(* so what takes room on the server can be seen and deleted (the order of    *)
(* enforce_retention's unlinks and commit).  A user's delete of a backup     *)
(* being created is set aside: its archive is finished without a row.        *)
ArchivesOwned ==
  NoDeletes =>
    \A t \in Ids : disk[t] # None => \E d \in Ids : path[d] = t /\ Live(d)

(* While the panel serves, a backup shown as being created is being created: *)
(* the state of interrupted operations is recovered after a restart          *)
(* (README.md:37).                                                           *)
CreatingOwned ==
  up => \A d \in Ids : status[d] = "creating" =>
          \E p \in Creators : mine[p] = d /\ at[p] \notin Resting

(* A backup too large for Telegram is still made on the server, and the      *)
(* error recorded (README.md:166).                                           *)
OversizedKept ==
  \A d \in Ids : (status[d] = "failed" /\ error[d] = "size") => disk[path[d]] # None
=============================================================================
