------------------------------- MODULE Sources -------------------------------
(***************************************************************************)
(* The source directory of one app and everything that replaces, writes or  *)
(* reads it: the ZIP upload (routers/apps.py), the restore of a backup and   *)
(* the archive of a backup (backup_service.py), the file manager's save      *)
(* (file_service.py) and a deployment's mkdir (docker_service.py).           *)
(*                                                                         *)
(* Upload and restore unpack into a staging directory of their own, rename   *)
(* the source away and rename staging into its place: two renames, with any  *)
(* thread between them.  Uploads are coroutines of one event loop: from the  *)
(* last chunk they read to the end of their finally block no other coroutine *)
(* runs, but threads do.                                                     *)
(*                                                                         *)
(* A directory is Missing or the set of what it holds: the upload, restore   *)
(* or original whose files it has, Edit for files written in place (saved    *)
(* online, or generated by a deployment), and Scraps for what a removal that *)
(* raised has left.  rename onto a directory succeeds only if that is missing *)
(* or empty.  Each process runs once, and the model begins after a first     *)
(* upload: before it there is no version to keep.                            *)
(***************************************************************************)
EXTENDS Naturals, FiniteSets

CONSTANTS
  Uploads,     \* POST /{app_id}/upload requests
  Restores,    \* restore background tasks
  Saves,       \* PUT files/content requests
  Deploys,     \* deploy() calls
  Builds,      \* those of them that generate a Dockerfile in the source
  Archives,    \* create_backup() calls
  Original,    \* the version in place at the start
  Missing,     \* no such directory
  Edit,        \* files written in place
  Scraps,      \* what a removal that raised has left
  RenameMayFail, \* whether the second rename may raise on a free target
  MaxCrashes   \* bound on the number of crashes

Swappers == Uploads \cup Restores
Processes == Swappers \cup Saves \cup Deploys \cup Archives
Versions == Swappers \cup {Original}

ASSUME DisjointAssumption ==
  /\ Uploads \cap Restores = {} /\ Original \notin Swappers
  /\ Swappers \cap (Saves \cup Deploys \cup Archives) = {}
  /\ Builds \subseteq Deploys
  /\ Edit \notin Versions /\ Scraps \notin Versions \cup {Edit}
  /\ \A dir \in SUBSET (Versions \cup {Edit, Scraps}) : dir # Missing
ASSUME BoundsAssumption == MaxCrashes \in Nat /\ RenameMayFail \in BOOLEAN

VARIABLES
  up,        \* the panel process is serving
  crashes,   \* crashes so far
  src,       \* the source directory
  staging,   \* the staging directory of each upload and restore
  old,       \* where each upload and restore put the previous source
  placed,    \* history: the uploads and restores whose last rename took place
  record,    \* the upload_records rows
  archive,   \* the source part of each backup
  at         \* where each process is

vars == <<up, crashes, src, staging, old, placed, record, archive, at>>

Present(dir) == dir # Missing
Vacant(dir) == dir \in {Missing, {}}

(* One whole version, with or without online edits.                         *)
Whole(dir) == Present(dir) /\ \E v \in Versions : dir \in {{v}, {v, Edit}}

Resting == {"new", "done", "complete", "restored"}
Quiet == up /\ \A p \in Processes : at[p] \in Resting

Init ==
  /\ up = TRUE
  /\ crashes = 0
  /\ src = {Original}
  /\ staging = [p \in Swappers |-> Missing]
  /\ old = [p \in Swappers |-> Missing]
  /\ placed = {}
  /\ record = [u \in Uploads |-> "none"]
  /\ archive = [b \in Archives |-> {}]
  /\ at = [p \in Processes |-> "new"]

Goto(p, to) == at' = [at EXCEPT ![p] = to]
Move(p, from, to) == at[p] = from /\ Goto(p, to)

-----------------------------------------------------------------------------
(* The event loop.                                                           *)

Blocking == {"unpack", "look", "out", "in", "drop", "commit", "fail", "tidy",
             "judge", "undo", "discard"}
LoopFree == \A u \in Uploads : at[u] \notin Blocking

(* Mutant: the record in progress is not looked for.                         *)
UploadBeginUnchecked(u) ==
  /\ up
  /\ Move(u, "new", "receive")
  /\ LoopFree
  /\ record' = [record EXCEPT ![u] = "processing"]
  /\ UNCHANGED <<up, crashes, src, staging, old, placed, archive>>

(* upload_source up to its first await: the check for a record in progress   *)
(* and the commit of its own run without giving the loop away (else 409).    *)
Processing(u) == record[u] = "processing"
UploadBegin(u) ==
  /\ up
  /\ at[u] = "new"
  /\ LoopFree
  /\ IF \E v \in Uploads : Processing(v)
     THEN Goto(u, "done") /\ UNCHANGED record
     ELSE Goto(u, "receive") /\ record' = [record EXCEPT ![u] = "processing"]
  /\ UNCHANGED <<up, crashes, src, staging, old, placed, archive>>

(* The chunks: other coroutines run between them; too many is 413.           *)
UploadReceive(u) ==
  /\ at[u] = "receive"
  /\ LoopFree
  /\ Goto(u, "unpack") \/ Goto(u, "fail")
  /\ UNCHANGED <<up, crashes, src, staging, old, placed, record, archive>>

(* mkdir staging, extract, flatten and count; any of it may raise, with the  *)
(* staging directory missing, empty or filled in part.                       *)
Unpack(p, broken) ==
  /\ at[p] = "unpack"
  /\ \/ staging' = [staging EXCEPT ![p] = {p}] /\ Goto(p, "look")
     \/ Goto(p, broken) /\ \E dir \in {Missing, {}, {p}} : staging' = [staging EXCEPT ![p] = dir]
  /\ UNCHANGED <<up, crashes, src, old, placed, record, archive>>

-----------------------------------------------------------------------------
(* The swap, in the same words in upload_source and in restore_backup.       *)

(* Mutant: the source is removed instead of moved away.                      *)
SwapOutRemoving(p, broken) ==
  /\ Move(p, "out", "in")
  /\ src' = Missing
  /\ UNCHANGED <<up, crashes, staging, old, placed, record, archive>>

(* if source.exists()                                                        *)
LookForSource(p) ==
  /\ at[p] = "look"
  /\ Goto(p, IF Present(src) THEN "out" ELSE "in")
  /\ UNCHANGED <<up, crashes, src, staging, old, placed, record, archive>>

(* source.rename(old): raises if another process took the source meanwhile.  *)
SwapOut(p, broken) ==
  /\ at[p] = "out"
  /\ IF Present(src)
     THEN /\ old' = [old EXCEPT ![p] = src]
          /\ src' = Missing
          /\ Goto(p, "in")
     ELSE Goto(p, broken) /\ UNCHANGED <<src, old>>
  /\ UNCHANGED <<up, crashes, staging, placed, record, archive>>

(* Mutant: staging is copied over what is there.                             *)
SwapInMerging(p, broken) ==
  /\ Move(p, "in", "drop")
  /\ src' = (IF Present(src) THEN src ELSE {}) \cup staging[p]
  /\ staging' = [staging EXCEPT ![p] = Missing]
  /\ placed' = placed \cup {p}
  /\ UNCHANGED <<up, crashes, old, record, archive>>

(* staging.rename(source): raises if the source is a directory with files.   *)
SwapIn(p, broken) ==
  /\ at[p] = "in"
  /\ \/ /\ Vacant(src)
        /\ src' = staging[p]
        /\ staging' = [staging EXCEPT ![p] = Missing]
        /\ placed' = placed \cup {p}
        /\ Goto(p, "drop")
     \/ /\ ~Vacant(src) \/ RenameMayFail
        /\ Goto(p, broken)
        /\ UNCHANGED <<src, staging, placed>>
  /\ UNCHANGED <<up, crashes, old, record, archive>>

(* if old.exists(): shutil.rmtree(old), inside the try: when it raises, none *)
(* or some of old is gone, but what it could not remove is left.             *)
DropOld(p, next, broken) ==
  /\ at[p] = "drop"
  /\ \/ old' = [old EXCEPT ![p] = Missing] /\ Goto(p, next)
     \/ /\ ~Vacant(old[p])
        /\ \E left \in {old[p], {Scraps}} : old' = [old EXCEPT ![p] = left]
        /\ Goto(p, broken)
  /\ UNCHANGED <<up, crashes, src, staging, placed, record, archive>>

-----------------------------------------------------------------------------
(* The end of an upload: the record's outcome, then the finally block.       *)

(* The first commit may raise, and leads to the second.                      *)
UploadCommit(u) ==
  /\ \/ Move(u, "commit", "tidy") /\ record' = [record EXCEPT ![u] = "completed"]
     \/ Move(u, "commit", "fail") /\ UNCHANGED record
     \/ Move(u, "fail", "tidy") /\ record' = [record EXCEPT ![u] = "failed"]
  /\ UNCHANGED <<up, crashes, src, staging, old, placed, archive>>

UploadTidy(u) ==
  /\ Move(u, "tidy", "judge")
  /\ staging' = [staging EXCEPT ![u] = Missing]
  /\ UNCHANGED <<up, crashes, src, old, placed, record, archive>>

(* Mutant: the previous version is discarded when the source is missing.     *)
UploadJudgeSwapped(u) ==
  /\ at[u] = "judge"
  /\ Goto(u, IF ~Present(old[u]) THEN "done" ELSE IF Present(src) THEN "undo" ELSE "discard")
  /\ UNCHANGED <<up, crashes, src, staging, old, placed, record, archive>>

(* if old.exists() and not source.exists() ... elif old.exists()             *)
UploadJudge(u) ==
  /\ at[u] = "judge"
  /\ Goto(u, IF ~Present(old[u]) THEN "done" ELSE IF Present(src) THEN "discard" ELSE "undo")
  /\ UNCHANGED <<up, crashes, src, staging, old, placed, record, archive>>

(* old.rename(source): the previous version comes back, unless another       *)
(* process made a source with files since the test.                          *)
PutBack(p) ==
  /\ Move(p, "undo", "done")
  /\ IF Vacant(src)
     THEN src' = old[p] /\ old' = [old EXCEPT ![p] = Missing]
     ELSE UNCHANGED <<src, old>>
  /\ UNCHANGED <<up, crashes, staging, placed, record, archive>>

UploadDiscard(u) ==
  /\ Move(u, "discard", "done")
  /\ old' = [old EXCEPT ![u] = Missing]
  /\ UNCHANGED <<up, crashes, src, staging, placed, record, archive>>

UploadStep(u) ==
  \/ UploadReceive(u)
  \/ Unpack(u, "fail")
  \/ LookForSource(u)
  \/ SwapOut(u, "fail")
  \/ SwapIn(u, "fail")
  \/ DropOld(u, "commit", "fail")
  \/ UploadCommit(u)
  \/ UploadTidy(u)
  \/ UploadJudge(u)
  \/ PutBack(u)
  \/ UploadDiscard(u)

-----------------------------------------------------------------------------
(* restore_backup: a thread, with no check for uploads or other restores.    *)

RestoreBegin(r) ==
  /\ up
  /\ at[r] = "new"
  /\ Goto(r, "unpack") \/ Goto(r, "done")       \* no archive, or no source in it
  /\ UNCHANGED <<up, crashes, src, staging, old, placed, record, archive>>

(* Mutant: staging is not removed.                                           *)
RestoreExceptLeaving(r) ==
  /\ at[r] = "except"
  /\ Goto(r, IF Present(old[r]) /\ ~Present(src) THEN "undo" ELSE "done")
  /\ UNCHANGED <<up, crashes, src, staging, old, placed, record, archive>>

(* except: remove staging, put the previous source back if there is none.    *)
RestoreExcept(r) ==
  /\ at[r] = "except"
  /\ staging' = [staging EXCEPT ![r] = Missing]
  /\ Goto(r, IF Present(old[r]) /\ ~Present(src) THEN "undo" ELSE "done")
  /\ UNCHANGED <<up, crashes, src, old, placed, record, archive>>

RestoreStep(r) ==
  \/ Unpack(r, "except")
  \/ LookForSource(r)
  \/ SwapOut(r, "except")
  \/ SwapIn(r, "except")
  \/ DropOld(r, "restored", "except")
  \/ RestoreExcept(r)
  \/ PutBack(r)

-----------------------------------------------------------------------------
(* write_text: mkdir -p of the parent, then the file.                        *)

SaveMkdir(w) ==
  /\ up
  /\ Move(w, "new", "write")
  /\ src' = IF Present(src) THEN src ELSE {}
  /\ UNCHANGED <<up, crashes, staging, old, placed, record, archive>>

SaveWrite(w) ==
  /\ Move(w, "write", "done")
  /\ src' = IF Present(src) THEN src \cup {Edit} ELSE src
  /\ UNCHANGED <<up, crashes, staging, old, placed, record, archive>>

(* deploy(): source.mkdir(parents=True, exist_ok=True); later                *)
(* generate_dockerfile writes Dockerfile.nova and .dockerignore, unless the  *)
(* deployment ended before or the source has a Dockerfile of its own.        *)
DeployMkdir(d) ==
  /\ up
  /\ at[d] = "new"
  /\ Goto(d, IF d \in Builds THEN "generate" ELSE "done")
  /\ src' = IF Present(src) THEN src ELSE {}
  /\ UNCHANGED <<up, crashes, staging, old, placed, record, archive>>

DeployGenerate(d) ==
  /\ \/ Present(src) /\ Move(d, "generate", "ignore") /\ src' = src \cup {Edit}
     \/ Present(src) /\ Move(d, "ignore", "done") /\ src' = src \cup {Edit}
     \/ at[d] \in {"generate", "ignore"} /\ Goto(d, "done") /\ UNCHANGED src
  /\ UNCHANGED <<up, crashes, staging, old, placed, record, archive>>

(* create_backup: the source goes in if it exists and holds anything, ...    *)
ArchiveLook(b) ==
  /\ up
  /\ at[b] = "new"
  /\ Goto(b, IF Vacant(src) THEN "complete" ELSE "add")
  /\ UNCHANGED <<up, crashes, src, staging, old, placed, record, archive>>

(* ... file by file: a source that vanished raises, one that was replaced    *)
(* may leave files of both.                                                  *)
ArchiveAdd(b) ==
  /\ at[b] = "add"
  /\ IF Present(src)
     THEN /\ archive' = [archive EXCEPT ![b] = @ \cup src]
          /\ Goto(b, "add") \/ Goto(b, "complete")
     ELSE Goto(b, "done") /\ UNCHANGED archive
  /\ UNCHANGED <<up, crashes, src, staging, old, placed, record>>

-----------------------------------------------------------------------------
(* A crash ends every process where it is; the directories stay.             *)

Crash ==
  /\ up
  /\ crashes < MaxCrashes
  /\ up' = FALSE
  /\ crashes' = crashes + 1
  /\ at' = [p \in Processes |-> IF at[p] \in Resting THEN at[p] ELSE "done"]
  /\ UNCHANGED <<src, staging, old, placed, record, archive>>

(* Mutants: another status; uploads are not reconciled.                      *)
ReconciledMisspelt(u) == IF Processing(u) THEN "interrupted" ELSE record[u]
ReconciledForgotten(u) == record[u]

(* reconcile_interrupted_deployments: the records, not the directories.      *)
Reconciled(u) == IF Processing(u) THEN "failed" ELSE record[u]
Restart ==
  /\ ~up
  /\ up' = TRUE
  /\ record' = [u \in Uploads |-> Reconciled(u)]
  /\ UNCHANGED <<crashes, src, staging, old, placed, archive, at>>

Step(p) ==
  \/ p \in Uploads /\ UploadStep(p)
  \/ p \in Restores /\ RestoreStep(p)
  \/ p \in Saves /\ SaveWrite(p)
  \/ p \in Builds /\ DeployGenerate(p)
  \/ p \in Archives /\ ArchiveAdd(p)

Next ==
  \/ \E u \in Uploads : UploadBegin(u)
  \/ \E r \in Restores : RestoreBegin(r)
  \/ \E w \in Saves : SaveMkdir(w)
  \/ \E d \in Deploys : DeployMkdir(d)
  \/ \E b \in Archives : ArchiveLook(b)
  \/ \E p \in Processes : Step(p)
  \/ Crash
  \/ Restart

Spec == Init /\ [][Next]_vars

(* A handler and a task that have begun run on; systemd restarts the panel.  *)
Fairness == WF_vars(Restart) /\ \A p \in Processes : WF_vars(Step(p))
FairSpec == Spec /\ Fairness

-----------------------------------------------------------------------------
(* Properties.                                                               *)

Places == Blocking \cup Resting \cup {"receive", "except", "write", "generate", "ignore", "add"}
Dirs == {Missing} \cup SUBSET (Versions \cup {Edit, Scraps})

(* The types of the state.                                                   *)
TypeOK ==
  /\ up \in BOOLEAN
  /\ crashes \in 0 .. MaxCrashes
  /\ src \in Dirs
  /\ staging \in [Swappers -> Dirs]
  /\ \A p \in Swappers : staging[p] \in {Missing, {}, {p}}
  /\ old \in [Swappers -> Dirs]
  /\ placed \subseteq Swappers
  /\ record \in [Uploads -> {"none", "processing", "completed", "failed"}]
  /\ archive \in [Archives -> SUBSET (Versions \cup {Edit, Scraps})]
  /\ at \in [Processes -> Places]

(* A record in "processing" belongs to an upload that is running, and to one *)
(* only: after a crash no dead record is left to refuse uploads for ever     *)
(* (upload_source's 409, reconcile_interrupted_deployments).                 *)
Working == {"receive"} \cup (Blocking \ {"tidy", "judge", "undo", "discard"})
OneLiveUpload ==
  up => \A u, v \in Uploads :
          record[u] = "processing" =>
            /\ at[u] \in Working
            /\ record[v] = "processing" => u = v

(* What the swaps cannot be blamed for: a file written in place between two  *)
(* renames, and a directory made there before a rename that raises; and a    *)
(* crash between them.  Each of the three loses the source.                  *)
Unwritten ==
  /\ \A p \in Saves \cup Builds : at[p] = "new"
  /\ RenameMayFail => \A d \in Deploys : at[d] = "new"
Undisturbed == crashes = 0 /\ Unwritten

(* When nothing is under way the source is one whole version: never missing, *)
(* empty or made of two (the two renames and their except and finally); or   *)
(* what a removal that raised has left of one, if it had to be put back.     *)
SourceWhole == (Quiet /\ Undisturbed) => Whole(src) \/ src = {Scraps}

(* When nothing is under way and no upload or restore has got through its    *)
(* last rename, the version that was there before them is there.             *)
UnplacedKept == (Quiet /\ Undisturbed /\ placed = {}) => Present(src) /\ Original \in src

(* The same for those that did not succeed: an upload or restore that ends   *)
(* in an error keeps the previous version (README.md:38).  It does not hold: *)
(* what follows the last rename may still raise.                             *)
Succeeded(p) == IF p \in Uploads THEN record[p] = "completed" ELSE at[p] = "restored"
PreviousKept ==
  (Quiet /\ Undisturbed /\ \A p \in Swappers : ~Succeeded(p)) => Present(src) /\ Original \in src

(* A failed upload or restore leaves no staging directory behind, unless it  *)
(* was cut off by a crash.                                                   *)
StagingRemoved ==
  crashes = 0 => \A p \in Swappers : at[p] \in Resting => staging[p] = Missing

(* A backup in "completed" holds one whole version of the source             *)
(* (operations-views.tsx:132: a complete backup stores the app's source).    *)
ArchiveWhole == \A b \in Archives : at[b] = "complete" => Whole(archive[b])

(* An upload in progress ends: its handler runs on or the restart fails it.  *)
UploadsEnd == \A u \in Uploads : record[u] = "processing" ~> record[u] # "processing"

(* Upload and restore replace the source in one step: the two renames, the   *)
(* removals and the put-backs, interleaved with those of another, implement  *)
(* SourceStore, as long as they are left alone and there are uploads only or *)
(* no more than two.  The version in place is the source, or, between two    *)
(* renames, what was moved away and is not yet superseded.                   *)
InPlace ==
  IF ~Vacant(src) THEN src
  ELSE UNION {old[p] : p \in {q \in Swappers \ placed : ~Vacant(old[q])}}
Failed(p) == at[p] = "done" \/ (p \in Uploads /\ record[p] = "failed")
StageOf(p) ==
  IF at[p] = "new" THEN "idle"
  ELSE IF p \in placed
  THEN IF Succeeded(p) THEN "kept" ELSE IF Failed(p) THEN "disowned" ELSE "placed"
  ELSE IF Failed(p) THEN "dropped" ELSE "open"
FewSwaps ==
  \/ \A r \in Restores : at[r] = "new"
  \/ \A p, q, r \in {s \in Swappers : at[s] # "new"} : p = q \/ q = r \/ p = r
LeftAlone == Undisturbed /\ FewSwaps
Store == INSTANCE SourceStore WITH
  version <- InPlace,
  stage <- [p \in Swappers |-> StageOf(p)],
  alone <- LeftAlone
StoreRefined == Store!Spec
=============================================================================
