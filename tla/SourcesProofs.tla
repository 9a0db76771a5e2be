---------------------------- MODULE SourcesProofs ----------------------------
(***************************************************************************)
(* Proofs about Sources: for any number of uploads, restores, saves,         *)
(* deployments and archives.                                                 *)
(***************************************************************************)
EXTENDS Sources, TLAPS

USE DEF Goto, Move, Present, Vacant

-----------------------------------------------------------------------------
(* Types.                                                                    *)

(* Every action of a process sets at by Goto.                                *)
LEMMA GotoType ==
  ASSUME at \in [Processes -> Places], NEW p, NEW to \in Places, Goto(p, to)
  PROVE  at' \in [Processes -> Places]
BY DEF Goto

LEMMA SwapperTypes ==
  /\ Uploads \subseteq Swappers /\ Restores \subseteq Swappers
  /\ Swappers \subseteq Processes
  /\ Missing \in Dirs /\ {} \in Dirs /\ {Original} \in Dirs /\ {Scraps} \in Dirs
  /\ \A p \in Swappers : {p} \in Dirs
BY DEF Swappers, Processes, Dirs, Versions

LEMMA PlaceTypes ==
  \A to \in {"new", "done", "complete", "restored", "receive", "unpack", "look", "out",
             "in", "drop", "commit", "fail", "tidy", "judge", "undo", "discard",
             "except", "write", "generate", "ignore", "add"} : to \in Places
BY DEF Places, Blocking, Resting

LEMMA InitTypes == Init => TypeOK
<1>. SUFFICES ASSUME Init PROVE TypeOK
  OBVIOUS
<1>1. crashes \in 0 .. MaxCrashes
  BY BoundsAssumption DEF Init
<1>2. src \in Dirs
  BY SwapperTypes DEF Init
<1>3. at \in [Processes -> Places]
  BY PlaceTypes DEF Init
<1>4. staging \in [Swappers -> Dirs] /\ old \in [Swappers -> Dirs]
  <2>1. Missing \in Dirs
    BY SwapperTypes
  <2>. QED
    BY <2>1 DEF Init
<1>5. \A p \in Swappers : staging[p] \in {Missing, {}, {p}}
  BY DEF Init
<1>6. /\ up \in BOOLEAN /\ placed \subseteq Swappers
      /\ record \in [Uploads -> {"none", "processing", "completed", "failed"}]
      /\ archive \in [Archives -> SUBSET (Versions \cup {Edit, Scraps})]
  BY DEF Init
<1>. QED
  BY <1>1, <1>2, <1>3, <1>4, <1>5, <1>6 DEF TypeOK

LEMMA StepTypes == TypeOK /\ [Next]_vars => TypeOK'
<1>. SUFFICES ASSUME TypeOK, [Next]_vars PROVE TypeOK'
  OBVIOUS
<1>. USE SwapperTypes, PlaceTypes DEF TypeOK
<1>1. CASE UNCHANGED vars
  BY <1>1 DEF vars
<1>2. ASSUME NEW u \in Uploads, UploadBegin(u) PROVE TypeOK'
  BY <1>2 DEF UploadBegin
<1>3. ASSUME NEW r \in Restores, RestoreBegin(r) PROVE TypeOK'
  BY <1>3 DEF RestoreBegin
<1>4. ASSUME NEW w \in Saves, SaveMkdir(w) PROVE TypeOK'
  BY <1>4 DEF SaveMkdir
<1>5. ASSUME NEW d \in Deploys, DeployMkdir(d) PROVE TypeOK'
  BY <1>5 DEF DeployMkdir
<1>6. ASSUME NEW b \in Archives, ArchiveLook(b) PROVE TypeOK'
  BY <1>6 DEF ArchiveLook
<1>7. ASSUME NEW u \in Uploads, UploadReceive(u) PROVE TypeOK'
  BY <1>7 DEF UploadReceive
<1>8. ASSUME NEW p \in Swappers, NEW broken \in {"fail", "except"}, Unpack(p, broken)
      PROVE  TypeOK'
  <2>1. /\ staging' \in [Swappers -> Dirs]
        /\ \A q \in Swappers : staging'[q] \in {Missing, {}, {q}}
    <3>1. PICK dir \in {Missing, {}, {p}} : staging' = [staging EXCEPT ![p] = dir]
      BY <1>8 DEF Unpack
    <3>2. dir \in Dirs
      OBVIOUS
    <3>. QED
      BY <3>1, <3>2
  <2>2. at' \in [Processes -> Places]
    BY <1>8 DEF Unpack
  <2>. QED
    BY <1>8, <2>1, <2>2 DEF Unpack
<1>9. ASSUME NEW p \in Swappers, LookForSource(p) PROVE TypeOK'
  BY <1>9 DEF LookForSource
<1>10. ASSUME NEW p \in Swappers, NEW broken \in {"fail", "except"}, SwapOut(p, broken)
       PROVE  TypeOK'
  BY <1>10 DEF SwapOut
<1>11. ASSUME NEW p \in Swappers, NEW broken \in {"fail", "except"}, SwapIn(p, broken)
       PROVE  TypeOK'
  BY <1>11 DEF SwapIn
<1>12. ASSUME NEW p \in Swappers, NEW next \in {"commit", "restored"},
              NEW broken \in {"fail", "except"}, DropOld(p, next, broken)
       PROVE  TypeOK'
  <2>1. PICK left \in {Missing, old[p], {Scraps}} : old' = [old EXCEPT ![p] = left]
    BY <1>12 DEF DropOld
  <2>2. old' \in [Swappers -> Dirs]
    BY <2>1
  <2>3. at' \in [Processes -> Places]
    BY <1>12 DEF DropOld
  <2>. QED
    BY <1>12, <2>2, <2>3 DEF DropOld
<1>13. ASSUME NEW u \in Uploads, UploadCommit(u) PROVE TypeOK'
  BY <1>13 DEF UploadCommit
<1>14. ASSUME NEW u \in Uploads, UploadTidy(u) PROVE TypeOK'
  BY <1>14 DEF UploadTidy
<1>15. ASSUME NEW u \in Uploads, UploadJudge(u) PROVE TypeOK'
  BY <1>15 DEF UploadJudge
<1>16. ASSUME NEW p \in Swappers, PutBack(p) PROVE TypeOK'
  BY <1>16 DEF PutBack
<1>17. ASSUME NEW u \in Uploads, UploadDiscard(u) PROVE TypeOK'
  BY <1>17 DEF UploadDiscard
<1>18. ASSUME NEW r \in Restores, RestoreExcept(r) PROVE TypeOK'
  BY <1>18 DEF RestoreExcept
<1>19. ASSUME NEW w \in Saves, SaveWrite(w) PROVE TypeOK'
  <2>1. src' \in Dirs
    BY <1>19 DEF SaveWrite, Dirs
  <2>. QED
    BY <1>19, <2>1 DEF SaveWrite
<1>23. ASSUME NEW d \in Deploys, DeployGenerate(d) PROVE TypeOK'
  <2>1. src' \in Dirs
    BY <1>23 DEF DeployGenerate, Dirs
  <2>2. at' \in [Processes -> Places]
    BY <1>23 DEF DeployGenerate
  <2>. QED
    BY <1>23, <2>1, <2>2 DEF DeployGenerate
<1>20. ASSUME NEW b \in Archives, ArchiveAdd(b) PROVE TypeOK'
  <2>1. archive' \in [Archives -> SUBSET (Versions \cup {Edit, Scraps})]
    BY <1>20 DEF ArchiveAdd, Dirs
  <2>. QED
    BY <1>20, <2>1 DEF ArchiveAdd
<1>21. CASE Crash
  <2>1. crashes' \in 0 .. MaxCrashes
    BY <1>21, BoundsAssumption DEF Crash
  <2>2. at' \in [Processes -> Places]
    BY <1>21 DEF Crash, Resting
  <2>. QED
    BY <1>21, <2>1, <2>2 DEF Crash
<1>22. CASE Restart
  BY <1>22 DEF Restart, Reconciled, Processing
<1>. QED
  BY <1>1, <1>2, <1>3, <1>4, <1>5, <1>6, <1>7, <1>8, <1>9, <1>10, <1>11, <1>12, <1>13,
     <1>14, <1>15, <1>16, <1>17, <1>18, <1>19, <1>20, <1>21, <1>22, <1>23, DisjointAssumption
     DEF Next, Step, UploadStep, RestoreStep

(* Every variable keeps its type.                                            *)
THEOREM TypeCorrect == Spec => []TypeOK
BY InitTypes, StepTypes, PTL DEF Spec

-----------------------------------------------------------------------------
(* An upload in progress is alive and alone.                                 *)
(*                                                                         *)
(* OneLiveUpload says nothing while the panel is down and would not survive  *)
(* the restart; the strengthening says what holds then: nothing runs, and    *)
(* no two records are in progress.                                           *)
(***************************************************************************)

Alone == \A u, v \in Uploads : Processing(u) /\ Processing(v) => u = v
Alive == up => \A u \in Uploads : Processing(u) => at[u] \in Working
Stopped == ~up => \A p \in Processes : at[p] \in Resting
LiveInv == Alone /\ Alive /\ Stopped

(* A step that touches neither the records nor up, and moves only a process  *)
(* that is no upload or that stays within the working places.                *)
LEMMA QuietStep ==
  ASSUME TypeOK, LiveInv, up' = up, record' = record,
         NEW p \in Processes, NEW to, Goto(p, to),
         up \/ at[p] \notin Resting,
         p \in Uploads /\ at[p] \in Working => to \in Working
  PROVE  LiveInv'
<1>1. Alone'
  BY DEF LiveInv, Alone, Processing
<1>2. Alive'
  BY DEF LiveInv, Alive, Processing, TypeOK
<1>3. Stopped'
  BY DEF LiveInv, Stopped
<1>. QED
  BY <1>1, <1>2, <1>3 DEF LiveInv

LEMMA InitLive == Init => LiveInv
BY DEF Init, LiveInv, Alone, Alive, Stopped, Processing

LEMMA StepLive == TypeOK /\ LiveInv /\ [Next]_vars => LiveInv'
<1>. SUFFICES ASSUME TypeOK, LiveInv, [Next]_vars PROVE LiveInv'
  OBVIOUS
<1>0. /\ Uploads \subseteq Processes /\ Restores \subseteq Processes
      /\ Saves \subseteq Processes /\ Deploys \subseteq Processes
      /\ Archives \subseteq Processes /\ Swappers \subseteq Processes
  BY DEF Processes, Swappers
<1>1. CASE UNCHANGED vars
  BY <1>1 DEF vars, LiveInv, Alone, Alive, Stopped, Processing
<1>2. ASSUME NEW u \in Uploads, UploadBegin(u) PROVE LiveInv'
  <2>1. CASE \E v \in Uploads : Processing(v)
    BY <1>0, <1>2, <2>1, QuietStep DEF UploadBegin, Working, Blocking
  <2>2. CASE ~ \E v \in Uploads : Processing(v)
    <3>1. /\ up /\ up' = up
          /\ record' = [record EXCEPT ![u] = "processing"]
          /\ at' = [at EXCEPT ![u] = "receive"]
      BY <1>2, <2>2 DEF UploadBegin
    <3>. QED
      BY <1>0, <2>2, <3>1 DEF LiveInv, Alone, Alive, Stopped, Processing, TypeOK, Working
  <2>. QED
    BY <2>1, <2>2
<1>3. ASSUME NEW r \in Restores, RestoreBegin(r) PROVE LiveInv'
  BY <1>0, <1>3, QuietStep DEF RestoreBegin, Working, Blocking
<1>4. ASSUME NEW w \in Saves, SaveMkdir(w) PROVE LiveInv'
  BY <1>0, <1>4, QuietStep DEF SaveMkdir, Working, Blocking
<1>5. ASSUME NEW d \in Deploys, DeployMkdir(d) PROVE LiveInv'
  BY <1>0, <1>5, QuietStep DEF DeployMkdir, Working, Blocking
<1>6. ASSUME NEW b \in Archives, ArchiveLook(b) PROVE LiveInv'
  BY <1>0, <1>6, QuietStep DEF ArchiveLook, Working, Blocking
<1>7. ASSUME NEW u \in Uploads, UploadReceive(u) PROVE LiveInv'
  BY <1>0, <1>7, QuietStep DEF UploadReceive, Working, Blocking, Resting
(* The swap: an upload's failure leads to "fail", a working place.           *)
<1>8. ASSUME NEW p \in Swappers, NEW broken \in {"fail", "except"},
               p \in Uploads => broken = "fail", Unpack(p, broken)
      PROVE LiveInv'
  BY <1>0, <1>8, QuietStep DEF Unpack, Working, Blocking, Resting
<1>9. ASSUME NEW p \in Swappers, LookForSource(p) PROVE LiveInv'
  BY <1>0, <1>9, QuietStep DEF LookForSource, Working, Blocking, Resting
<1>10. ASSUME NEW p \in Swappers, NEW broken \in {"fail", "except"},
               p \in Uploads => broken = "fail", SwapOut(p, broken)
      PROVE LiveInv'
  BY <1>0, <1>10, QuietStep DEF SwapOut, Working, Blocking, Resting
<1>11. ASSUME NEW p \in Swappers, NEW broken \in {"fail", "except"},
               p \in Uploads => broken = "fail", SwapIn(p, broken)
      PROVE LiveInv'
  BY <1>0, <1>11, QuietStep DEF SwapIn, Working, Blocking, Resting
<1>12. ASSUME NEW p \in Swappers, NEW next \in {"commit", "restored"},
               NEW broken \in {"fail", "except"},
               p \in Uploads => next = "commit" /\ broken = "fail", DropOld(p, next, broken)
      PROVE LiveInv'
  BY <1>0, <1>12, QuietStep DEF DropOld, Working, Blocking, Resting
<1>13. ASSUME NEW u \in Uploads, UploadCommit(u) PROVE LiveInv'
  <2>1. up' = up /\ at[u] \notin Resting
    BY <1>13 DEF UploadCommit, Resting
  <2>2. CASE Move(u, "commit", "fail") /\ UNCHANGED record
    BY <1>0, <2>1, <2>2, QuietStep DEF Working, Blocking
  <2>3. ASSUME NEW end \in {"completed", "failed"}, record' = [record EXCEPT ![u] = end],
               at' = [at EXCEPT ![u] = "tidy"]
        PROVE  LiveInv'
    BY <1>0, <2>1, <2>3 DEF LiveInv, Alone, Alive, Stopped, Processing, TypeOK
  <2>. QED
    BY <1>13, <2>2, <2>3 DEF UploadCommit
<1>14. ASSUME NEW u \in Uploads, UploadTidy(u) PROVE LiveInv'
  BY <1>0, <1>14, QuietStep DEF UploadTidy, Working, Blocking, Resting
<1>15. ASSUME NEW u \in Uploads, UploadJudge(u) PROVE LiveInv'
  BY <1>0, <1>15, QuietStep DEF UploadJudge, Working, Blocking, Resting
<1>16. ASSUME NEW p \in Swappers, PutBack(p) PROVE LiveInv'
  BY <1>0, <1>16, QuietStep DEF PutBack, Working, Blocking, Resting
<1>17. ASSUME NEW u \in Uploads, UploadDiscard(u) PROVE LiveInv'
  BY <1>0, <1>17, QuietStep DEF UploadDiscard, Working, Blocking, Resting
<1>18. ASSUME NEW r \in Restores, RestoreExcept(r) PROVE LiveInv'
  BY <1>0, <1>18, QuietStep, DisjointAssumption DEF RestoreExcept, Working, Blocking, Resting
<1>19. ASSUME NEW w \in Saves, SaveWrite(w) PROVE LiveInv'
  BY <1>0, <1>19, QuietStep DEF SaveWrite, Working, Blocking, Resting
<1>27. ASSUME NEW d \in Deploys, DeployGenerate(d) PROVE LiveInv'
  BY <1>0, <1>27, QuietStep DEF DeployGenerate, Working, Blocking, Resting
<1>20. ASSUME NEW b \in Archives, ArchiveAdd(b) PROVE LiveInv'
  BY <1>0, <1>20, QuietStep DEF ArchiveAdd, Working, Blocking, Resting
<1>21. CASE Crash
  BY <1>0, <1>21 DEF Crash, Resting, LiveInv, Alone, Alive, Stopped, Processing
<1>22. CASE Restart
  BY <1>0, <1>22 DEF Restart, Reconciled, LiveInv, Alone, Alive, Stopped, Processing
<1>23. Uploads \cap Restores = {}
  BY DisjointAssumption
<1>24. ASSUME NEW u \in Uploads, UploadStep(u) PROVE LiveInv'
  <2>1. u \in Swappers
    BY DEF Swappers
  <2>. QED
    BY <1>7, <1>8, <1>9, <1>10, <1>11, <1>12, <1>13, <1>14, <1>15, <1>16, <1>17, <1>24, <2>1
       DEF UploadStep
<1>25. ASSUME NEW r \in Restores, RestoreStep(r) PROVE LiveInv'
  <2>1. r \in Swappers /\ r \notin Uploads
    BY <1>23 DEF Swappers
  <2>. QED
    BY <1>8, <1>9, <1>10, <1>11, <1>12, <1>16, <1>18, <1>25, <2>1 DEF RestoreStep
<1>26. ASSUME NEW p \in Processes, Step(p) PROVE LiveInv'
  BY <1>19, <1>20, <1>24, <1>25, <1>26, <1>27, DisjointAssumption DEF Step
<1>. QED
  BY <1>1, <1>2, <1>3, <1>4, <1>5, <1>6, <1>21, <1>22, <1>26 DEF Next

(* While the panel serves, a record in "processing" belongs to a running     *)
(* upload, and no other record is in "processing".                           *)
THEOREM UploadsAreAlone == Spec => []OneLiveUpload
<1>1. LiveInv => OneLiveUpload
  BY DEF LiveInv, Alone, Alive, OneLiveUpload, Processing
<1>. QED
  BY <1>1, InitTypes, StepTypes, InitLive, StepLive, PTL DEF Spec

-----------------------------------------------------------------------------
(* No staging directory is left.                                             *)

Staged == {"look", "out", "in", "fail", "tidy", "except"}
StagingInv ==
  crashes = 0 => \A p \in Swappers : at[p] \notin Staged => staging[p] = Missing

LEMMA InitStaging == Init => StagingInv
BY DEF Init, StagingInv

(* A step that leaves the staging directories alone, moving no process from  *)
(* outside the staged places into them.                                      *)
LEMMA UnstagedStep ==
  ASSUME TypeOK, StagingInv, crashes' = crashes, staging' = staging,
         NEW p \in Processes, NEW to, Goto(p, to),
         p \in Swappers /\ at[p] \in Staged => \/ to \in Staged
                                              \/ staging[p] = Missing
  PROVE  StagingInv'
BY DEF StagingInv, TypeOK

(* A step after which the process has no staging directory.                  *)
LEMMA RemovingStep ==
  ASSUME TypeOK, StagingInv, crashes' = crashes,
         NEW p \in Swappers, NEW to, Goto(p, to),
         staging' = [staging EXCEPT ![p] = Missing]
  PROVE  StagingInv'
<1>1. p \in Processes
  BY DEF Processes
<1>. QED
  BY <1>1 DEF StagingInv, TypeOK, Swappers, Processes

LEMMA StepStaging == TypeOK /\ StagingInv /\ [Next]_vars => StagingInv'
<1>. SUFFICES ASSUME TypeOK, StagingInv, [Next]_vars PROVE StagingInv'
  OBVIOUS
<1>. USE DEF Staged
<1>0. /\ Uploads \subseteq Processes /\ Restores \subseteq Processes
      /\ Saves \subseteq Processes /\ Deploys \subseteq Processes
      /\ Archives \subseteq Processes /\ Swappers \subseteq Processes
      /\ Uploads \subseteq Swappers /\ Restores \subseteq Swappers
  BY DEF Processes, Swappers
<1>1. CASE UNCHANGED vars
  BY <1>1 DEF vars, StagingInv
<1>2. ASSUME NEW u \in Uploads, UploadBegin(u) PROVE StagingInv'
  BY <1>0, <1>2, UnstagedStep DEF UploadBegin
<1>3. ASSUME NEW r \in Restores, RestoreBegin(r) PROVE StagingInv'
  BY <1>0, <1>3, UnstagedStep DEF RestoreBegin
<1>4. ASSUME NEW w \in Saves, SaveMkdir(w) PROVE StagingInv'
  BY <1>0, <1>4, UnstagedStep DEF SaveMkdir
<1>5. ASSUME NEW d \in Deploys, DeployMkdir(d) PROVE StagingInv'
  BY <1>0, <1>5, UnstagedStep DEF DeployMkdir
<1>6. ASSUME NEW b \in Archives, ArchiveLook(b) PROVE StagingInv'
  BY <1>0, <1>6, UnstagedStep DEF ArchiveLook
<1>7. ASSUME NEW u \in Uploads, UploadReceive(u) PROVE StagingInv'
  BY <1>0, <1>7, UnstagedStep DEF UploadReceive
<1>8. ASSUME NEW p \in Swappers, NEW broken \in {"fail", "except"}, Unpack(p, broken)
      PROVE  StagingInv'
  <2>1. PICK to \in Staged : at' = [at EXCEPT ![p] = to]
    BY <1>8 DEF Unpack
  <2>2. PICK dir : staging' = [staging EXCEPT ![p] = dir]
    BY <1>8 DEF Unpack
  <2>3. crashes' = crashes
    BY <1>8 DEF Unpack
  <2>. QED
    BY <1>0, <2>1, <2>2, <2>3 DEF StagingInv, TypeOK
<1>9. ASSUME NEW p \in Swappers, LookForSource(p) PROVE StagingInv'
  BY <1>0, <1>9, UnstagedStep DEF LookForSource
<1>10. ASSUME NEW p \in Swappers, NEW broken \in {"fail", "except"}, SwapOut(p, broken)
       PROVE StagingInv'
  BY <1>0, <1>10, UnstagedStep DEF SwapOut
<1>11. ASSUME NEW p \in Swappers, NEW broken \in {"fail", "except"}, SwapIn(p, broken)
       PROVE StagingInv'
  <2>1. CASE staging' = staging /\ Goto(p, broken)
    BY <1>0, <1>11, <2>1, UnstagedStep DEF SwapIn
  <2>2. CASE staging' = [staging EXCEPT ![p] = Missing] /\ Goto(p, "drop")
    BY <1>11, <2>2, RemovingStep DEF SwapIn
  <2>. QED
    BY <1>11, <2>1, <2>2 DEF SwapIn
<1>12. ASSUME NEW p \in Swappers, NEW next \in {"commit", "restored"},
              NEW broken \in {"fail", "except"}, DropOld(p, next, broken)
       PROVE StagingInv'
  BY <1>0, <1>12, UnstagedStep DEF DropOld
<1>13. ASSUME NEW u \in Uploads, UploadCommit(u) PROVE StagingInv'
  BY <1>0, <1>13, UnstagedStep DEF UploadCommit
<1>14. ASSUME NEW u \in Uploads, UploadTidy(u) PROVE StagingInv'
  BY <1>0, <1>14, RemovingStep DEF UploadTidy
<1>15. ASSUME NEW u \in Uploads, UploadJudge(u) PROVE StagingInv'
  BY <1>0, <1>15, UnstagedStep DEF UploadJudge
<1>16. ASSUME NEW p \in Swappers, PutBack(p) PROVE StagingInv'
  BY <1>0, <1>16, UnstagedStep DEF PutBack
<1>17. ASSUME NEW u \in Uploads, UploadDiscard(u) PROVE StagingInv'
  BY <1>0, <1>17, UnstagedStep DEF UploadDiscard
<1>18. ASSUME NEW r \in Restores, RestoreExcept(r) PROVE StagingInv'
  BY <1>0, <1>18, RemovingStep DEF RestoreExcept
<1>19. ASSUME NEW w \in Saves, SaveWrite(w) PROVE StagingInv'
  BY <1>0, <1>19, UnstagedStep DEF SaveWrite
<1>27. ASSUME NEW d \in Deploys, DeployGenerate(d) PROVE StagingInv'
  BY <1>0, <1>27, UnstagedStep DEF DeployGenerate
<1>20. ASSUME NEW b \in Archives, ArchiveAdd(b) PROVE StagingInv'
  BY <1>0, <1>20, UnstagedStep DEF ArchiveAdd
<1>21. CASE Crash
  BY <1>21 DEF Crash, StagingInv, TypeOK
<1>22. CASE Restart
  BY <1>22 DEF Restart, StagingInv
<1>24. ASSUME NEW u \in Uploads, UploadStep(u) PROVE StagingInv'
  BY <1>0, <1>7, <1>8, <1>9, <1>10, <1>11, <1>12, <1>13, <1>14, <1>15, <1>16, <1>17, <1>24
     DEF UploadStep
<1>25. ASSUME NEW r \in Restores, RestoreStep(r) PROVE StagingInv'
  BY <1>0, <1>8, <1>9, <1>10, <1>11, <1>12, <1>16, <1>18, <1>25 DEF RestoreStep
<1>26. ASSUME NEW p \in Processes, Step(p) PROVE StagingInv'
  BY <1>19, <1>20, <1>24, <1>25, <1>26, <1>27, DisjointAssumption DEF Step
<1>. QED
  BY <1>1, <1>2, <1>3, <1>4, <1>5, <1>6, <1>21, <1>22, <1>26 DEF Next

(* Without a crash, an upload or a restore that has ended left no staging    *)
(* directory behind.                                                         *)
THEOREM NoStagingIsLeft == Spec => []StagingRemoved
<1>1. StagingInv => StagingRemoved
  BY DEF StagingInv, StagingRemoved, Staged, Resting
<1>. QED
  BY <1>1, InitTypes, StepTypes, InitStaging, StepStaging, PTL DEF Spec

-----------------------------------------------------------------------------
(* The swaps keep the source, for any number of uploads and restores whose   *)
(* second rename and whose removal of the previous version may raise, when   *)
(* no file is written in place and until a crash cuts one short; and, if a   *)
(* second rename onto a free place cannot raise, with any number of          *)
(* deployments that make the directory while it is away.                     *)
(*                                                                         *)
(* While there are no files in the source some upload or restore answers for *)
(* it: it holds files in its old directory and has yet to rename staging in  *)
(* or to put them back.  Next to deployments only one that has yet to rename *)
(* does: an empty source it would take for one to keep.  Until one has       *)
(* placed its own version, every version there is, in place or set aside, is *)
(* the original one.  A crash ends who answers, and what it holds stays      *)
(* where it is from then on.                                                 *)
(***************************************************************************)

Made(dir) == ~RenameMayFail /\ dir = {}
Versioned(dir) == dir = Missing \/ Made(dir) \/ \E v \in Versions \cup {Scraps} : dir = {v}
Before(dir) == dir = Missing \/ Made(dir) \/ dir = {Original}
Answering == {"in", "fail", "tidy", "judge", "undo", "except"}
AnswerPlaces ==
  (IF RenameMayFail THEN Answering ELSE {"in"}) \cup (IF crashes = 0 THEN {} ELSE {"done"})
Answers(p) == at[p] \in AnswerPlaces /\ ~Vacant(old[p])

DirsInv ==
  /\ Versioned(src)
  /\ \A p \in Swappers : Versioned(old[p])
  /\ \A p \in Swappers : at[p] \in {"look", "out", "in"} => staging[p] = {p}
  /\ \A p \in Swappers : at[p] = "drop" => p \in placed
KeptInv == ~Vacant(src) \/ \E p \in Swappers : Answers(p)
OriginalInv ==
  crashes = 0 /\ placed = {} => Before(src) /\ \A p \in Swappers : Before(old[p])
SwapInv == DirsInv /\ KeptInv /\ OriginalInv

LEMMA VersionFacts ==
  /\ Missing # {} /\ \A v \in Versions \cup {Scraps} : {v} # Missing /\ {v} # {}
  /\ Original \in Versions /\ Swappers \subseteq Versions
  /\ Uploads \subseteq Swappers /\ Restores \subseteq Swappers
  /\ Uploads \cap Restores = {}
  /\ Swappers \subseteq Processes
<1>1. \A v \in Versions \cup {Scraps} : {v} \in SUBSET (Versions \cup {Edit, Scraps})
  OBVIOUS
<1>2. {} \in SUBSET (Versions \cup {Edit, Scraps})
  OBVIOUS
<1>. QED
  BY <1>1, <1>2, DisjointAssumption DEF Versions, Swappers, Processes

LEMMA VacantIs ==
  ASSUME SwapInv, RenameMayFail
  PROVE  /\ Vacant(src) <=> ~Present(src)
         /\ \A p \in Swappers : Vacant(old[p]) <=> ~Present(old[p])
BY VersionFacts DEF SwapInv, DirsInv, Versioned, Made

LEMMA InitSwap == Init => SwapInv
<1>. SUFFICES ASSUME Init PROVE SwapInv
  OBVIOUS
<1>1. \A p \in Swappers : at[p] = "new" /\ old[p] = Missing
  BY VersionFacts DEF Init
<1>2. src = {Original} /\ placed = {}
  BY DEF Init
<1>. QED
  BY <1>1, <1>2, VersionFacts
     DEF SwapInv, DirsInv, KeptInv, OriginalInv, Versioned, Made, Before

LEMMA MovedFacts ==
  ASSUME TypeOK, NEW p \in Processes, NEW to, Goto(p, to)
  PROVE  /\ at'[p] = to
         /\ \A q \in Processes : q # p => at'[q] = at[q]
         /\ \A q \in Swappers : q # p => at'[q] = at[q]
BY VersionFacts DEF TypeOK

(* A step that moves one process and leaves the source and what was set      *)
(* aside alone.                                                              *)
LEMMA MoveStep ==
  ASSUME TypeOK, SwapInv, NEW p \in Processes, NEW to, Goto(p, to),
         UNCHANGED <<crashes, src, old, placed>>,
         \A q \in Swappers : q # p => staging'[q] = staging[q],
         p \in Swappers =>
           /\ to \in {"look", "out", "in"} => staging'[p] = {p}
           /\ to # "drop"
           /\ Vacant(src) /\ Answers(p) => to \in AnswerPlaces
  PROVE  SwapInv'
<1>1. /\ \A q \in Swappers : q # p => at'[q] = at[q]
      /\ at'[p] = to
  BY MovedFacts
<1>2. DirsInv'
  BY <1>1, VersionFacts DEF SwapInv, DirsInv, Versioned, Made
<1>3. KeptInv'
  BY <1>1 DEF SwapInv, KeptInv, Answers, AnswerPlaces
<1>4. OriginalInv'
  BY DEF SwapInv, OriginalInv, Made, Before
<1>. QED
  BY <1>2, <1>3, <1>4 DEF SwapInv

(* The other steps of an upload or a restore.                                *)
LEMMA UnpackSwap ==
  ASSUME TypeOK, SwapInv, NEW p \in Swappers, NEW broken \in {"fail", "except"},
         Unpack(p, broken)
  PROVE  SwapInv'
<1>1. PICK to \in {"look", "fail", "except"} : Goto(p, to) /\ (to = "look" => staging'[p] = {p})
  BY DEF Unpack, TypeOK
<1>2. /\ at[p] = "unpack" /\ UNCHANGED <<crashes, src, old, placed>>
      /\ \A q \in Swappers : q # p => staging'[q] = staging[q]
  BY DEF Unpack, TypeOK
<1>. QED
  BY <1>1, <1>2, MoveStep, VersionFacts DEF Answers, AnswerPlaces, Answering

LEMMA SwapOutSwap ==
  ASSUME TypeOK, SwapInv, NEW p \in Swappers, NEW broken \in {"fail", "except"},
         SwapOut(p, broken)
  PROVE  SwapInv'
<1>1. CASE ~Present(src)
  BY <1>1, MoveStep, VersionFacts DEF SwapOut, Answers, AnswerPlaces, Answering
<1>2. CASE Present(src)
  <2>1. /\ at[p] = "out" /\ UNCHANGED <<crashes, staging, placed>>
        /\ src' = Missing /\ old' = [old EXCEPT ![p] = src] /\ Goto(p, "in")
    BY <1>2 DEF SwapOut
  <2>2. /\ at'[p] = "in"
        /\ \A q \in Swappers : q # p => at'[q] = at[q]
    BY <2>1, MovedFacts, VersionFacts
  <2>3. /\ old'[p] = src
        /\ \A q \in Swappers : q # p => old'[q] = old[q]
    BY <2>1 DEF TypeOK
  <2>4. DirsInv'
    BY <2>1, <2>2, <2>3, VersionFacts DEF SwapInv, DirsInv, Versioned, Made
  <2>5. KeptInv'
    <3>1. CASE ~Vacant(src)
      BY <2>2, <2>3, <3>1 DEF KeptInv, Answers, AnswerPlaces, Answering
    <3>2. CASE Vacant(src)
      <4>1. ~RenameMayFail
        BY <1>2, <3>2, VacantIs
      <4>2. PICK q \in Swappers : Answers(q) /\ q # p
        BY <2>1, <3>2, <4>1 DEF SwapInv, KeptInv, Answers, AnswerPlaces
      <4>. QED
        BY <2>1, <2>2, <2>3, <4>2 DEF KeptInv, Answers, AnswerPlaces
    <3>. QED
      BY <3>1, <3>2
  <2>6. OriginalInv'
    BY <2>1, <2>3 DEF SwapInv, OriginalInv, Made, Before
  <2>. QED
    BY <2>4, <2>5, <2>6 DEF SwapInv
<1>. QED
  BY <1>1, <1>2

LEMMA SwapInSwap ==
  ASSUME TypeOK, SwapInv, NEW p \in Swappers, NEW broken \in {"fail", "except"},
         SwapIn(p, broken)
  PROVE  SwapInv'
<1>1. CASE Goto(p, broken) /\ UNCHANGED <<src, staging, placed>>
  <2>1. Vacant(src) => RenameMayFail
    BY <1>1, VersionFacts DEF SwapIn, SwapInv, DirsInv
  <2>. QED
    BY <1>1, <2>1, MoveStep, VersionFacts DEF SwapIn, Answers, AnswerPlaces, Answering
<1>2. CASE /\ src' = staging[p]
           /\ staging' = [staging EXCEPT ![p] = Missing]
           /\ placed' = placed \cup {p}
           /\ Goto(p, "drop")
  <2>1. /\ at[p] = "in" /\ old' = old /\ crashes' = crashes
        /\ src' = {p}
    BY <1>2 DEF SwapIn, SwapInv, DirsInv
  <2>2. /\ at'[p] = "drop" /\ p \in placed'
        /\ \A q \in Swappers : q # p => at'[q] = at[q]
    BY <1>2, MovedFacts, VersionFacts
  <2>3. \A q \in Swappers : q # p => staging'[q] = staging[q]
    BY <1>2 DEF TypeOK
  <2>4. DirsInv'
    BY <1>2, <2>1, <2>2, <2>3, VersionFacts DEF SwapInv, DirsInv, Versioned, Made
  <2>5. KeptInv'
    BY <2>1, VersionFacts DEF KeptInv
  <2>6. OriginalInv'
    BY <2>2 DEF OriginalInv
  <2>. QED
    BY <2>4, <2>5, <2>6 DEF SwapInv
<1>. QED
  BY <1>1, <1>2 DEF SwapIn

LEMMA DropOldSwap ==
  ASSUME TypeOK, SwapInv, NEW p \in Swappers, NEW next \in {"commit", "restored"},
         NEW broken \in {"fail", "except"}, DropOld(p, next, broken)
  PROVE  SwapInv'
<1>1. PICK left \in {Missing, old[p], {Scraps}} : old' = [old EXCEPT ![p] = left]
  BY DEF DropOld
<1>2. /\ at[p] = "drop" /\ UNCHANGED <<crashes, src, staging, placed>>
      /\ \E to \in {next, broken} : Goto(p, to)
  BY DEF DropOld
<1>3. /\ at'[p] \in {next, broken}
      /\ \A q \in Swappers : q # p => at'[q] = at[q]
  BY <1>2, MovedFacts, VersionFacts
<1>4. /\ old'[p] = left /\ Versioned(left)
      /\ \A q \in Swappers : q # p => old'[q] = old[q]
  BY <1>1 DEF TypeOK, SwapInv, DirsInv, Versioned
<1>5. p \in placed
  BY <1>2 DEF SwapInv, DirsInv
<1>6. DirsInv'
  BY <1>2, <1>3, <1>4, VersionFacts DEF SwapInv, DirsInv, Versioned, Made
<1>7. KeptInv'
  BY <1>2, <1>3, <1>4 DEF SwapInv, KeptInv, Answers, AnswerPlaces, Answering
<1>8. OriginalInv'
  BY <1>2, <1>5 DEF OriginalInv
<1>. QED
  BY <1>6, <1>7, <1>8 DEF SwapInv

LEMMA PutBackSwap ==
  ASSUME TypeOK, SwapInv, NEW p \in Swappers, PutBack(p)
  PROVE  SwapInv'
<1>1. CASE ~Vacant(src)
  BY <1>1, MoveStep, VersionFacts DEF PutBack
<1>2. CASE Vacant(src)
  <2>1. /\ at[p] = "undo" /\ UNCHANGED <<crashes, staging, placed>>
        /\ src' = old[p] /\ old' = [old EXCEPT ![p] = Missing] /\ Goto(p, "done")
    BY <1>2 DEF PutBack
  <2>2. /\ at'[p] = "done"
        /\ \A q \in Swappers : q # p => at'[q] = at[q]
    BY <2>1, MovedFacts, VersionFacts
  <2>3. /\ old'[p] = Missing
        /\ \A q \in Swappers : q # p => old'[q] = old[q]
    BY <2>1 DEF TypeOK
  <2>4. DirsInv'
    BY <2>1, <2>2, <2>3, VersionFacts DEF SwapInv, DirsInv, Versioned, Made
  <2>5. KeptInv'
    BY <1>2, <2>1, <2>2, <2>3 DEF SwapInv, KeptInv, Answers, AnswerPlaces
  <2>6. OriginalInv'
    BY <2>1, <2>3 DEF SwapInv, OriginalInv, Made, Before
  <2>. QED
    BY <2>4, <2>5, <2>6 DEF SwapInv
<1>. QED
  BY <1>1, <1>2

LEMMA DiscardSwap ==
  ASSUME TypeOK, SwapInv, NEW u \in Uploads, UploadDiscard(u)
  PROVE  SwapInv'
<1>1. /\ at[u] = "discard" /\ UNCHANGED <<crashes, src, staging, placed>>
      /\ old' = [old EXCEPT ![u] = Missing] /\ Goto(u, "done")
  BY DEF UploadDiscard
<1>2. /\ at'[u] = "done"
      /\ \A q \in Swappers : q # u => at'[q] = at[q]
  BY <1>1, MovedFacts, VersionFacts
<1>3. /\ old'[u] = Missing
      /\ \A q \in Swappers : q # u => old'[q] = old[q]
  BY <1>1, VersionFacts DEF TypeOK
<1>4. DirsInv'
  BY <1>1, <1>2, <1>3, VersionFacts DEF SwapInv, DirsInv, Versioned, Made
<1>5. KeptInv'
  BY <1>1, <1>2, <1>3 DEF SwapInv, KeptInv, Answers, AnswerPlaces, Answering
<1>6. OriginalInv'
  BY <1>1, <1>3 DEF SwapInv, OriginalInv, Made, Before
<1>. QED
  BY <1>4, <1>5, <1>6 DEF SwapInv

(* A deployment makes the directory while it is away: an empty one.          *)
LEMMA MkdirSwap ==
  ASSUME TypeOK, SwapInv, ~RenameMayFail, NEW d \in Deploys, DeployMkdir(d)
  PROVE  SwapInv'
<1>1. /\ at[d] = "new" /\ \E to \in {"generate", "done"} : Goto(d, to)
      /\ src' = IF Present(src) THEN src ELSE {}
      /\ UNCHANGED <<crashes, old, staging, placed>>
  BY DEF DeployMkdir
<1>2. d \in Processes
  BY DEF Processes
<1>3. /\ at'[d] \in {"generate", "done"}
      /\ \A q \in Swappers : q # d => at'[q] = at[q]
  BY <1>1, <1>2, MovedFacts
<1>4. DirsInv'
  BY <1>1, <1>3, VersionFacts DEF SwapInv, DirsInv, Versioned, Made
<1>5. KeptInv'
  BY <1>1, <1>3 DEF SwapInv, KeptInv, Answers, AnswerPlaces, Answering
<1>6. OriginalInv'
  BY <1>1, VersionFacts DEF SwapInv, OriginalInv, Made, Before
<1>. QED
  BY <1>4, <1>5, <1>6 DEF SwapInv

(* Who moves: one process, to another place than the first, or all at a      *)
(* crash.  So what has begun has begun for good.                             *)
LEMMA StepMoves ==
  ASSUME [Next]_vars
  PROVE  \/ UNCHANGED <<at, crashes>>
         \/ \E p \in Processes : \E to : to # "new" /\ Goto(p, to) /\ crashes' = crashes
         \/ Crash
<1>. DEFINE Moves == \E p \in Processes : \E to : to # "new" /\ Goto(p, to) /\ crashes' = crashes
<1>0. /\ Uploads \subseteq Processes /\ Restores \subseteq Processes
      /\ Saves \subseteq Processes /\ Deploys \subseteq Processes
      /\ Archives \subseteq Processes /\ Builds \subseteq Processes
  BY DisjointAssumption DEF Processes, Swappers
<1>1. CASE \/ \E u \in Uploads : UploadBegin(u)
           \/ \E r \in Restores : RestoreBegin(r)
           \/ \E w \in Saves : SaveMkdir(w)
           \/ \E d \in Deploys : DeployMkdir(d)
           \/ \E b \in Archives : ArchiveLook(b)
  BY <1>0, <1>1 DEF UploadBegin, RestoreBegin, SaveMkdir, DeployMkdir, ArchiveLook
<1>2. ASSUME NEW p \in Processes, Step(p) PROVE Moves
  <2>1. ASSUME UploadStep(p) PROVE Moves
    BY <2>1 DEF UploadStep, UploadReceive, Unpack, LookForSource, SwapOut, SwapIn, DropOld,
                UploadCommit, UploadTidy, UploadJudge, PutBack, UploadDiscard
  <2>2. ASSUME RestoreStep(p) PROVE Moves
    BY <2>2 DEF RestoreStep, Unpack, LookForSource, SwapOut, SwapIn, DropOld, RestoreExcept, PutBack
  <2>3. CASE SaveWrite(p) \/ DeployGenerate(p) \/ ArchiveAdd(p)
    BY <2>3 DEF SaveWrite, DeployGenerate, ArchiveAdd
  <2>. QED
    BY <1>2, <2>1, <2>2, <2>3 DEF Step
<1>. QED
  BY <1>1, <1>2 DEF Next, vars, Restart

LEMMA Begun ==
  ASSUME TypeOK, [Next]_vars
  PROVE  /\ \A p \in Processes : at'[p] = "new" => at[p] = "new"
         /\ Unwritten' => Unwritten
         /\ Undisturbed' => Undisturbed /\ ~Crash
         /\ FewSwaps' => FewSwaps
<1>1. CASE UNCHANGED <<at, crashes>>
  BY <1>1 DEF Unwritten, Undisturbed, FewSwaps, Crash, TypeOK, BoundsAssumption
<1>2. CASE Crash
  <2>1. crashes \in Nat /\ crashes' = crashes + 1
    BY <1>2, BoundsAssumption DEF Crash, TypeOK
  <2>2. \A p \in Processes : at'[p] = "new" => at[p] = "new"
    BY <1>2 DEF Crash
  <2>. QED
    BY <2>1, <2>2, DisjointAssumption DEF Unwritten, Undisturbed, FewSwaps, Processes, Swappers
<1>3. ASSUME NEW p \in Processes, NEW to, to # "new", Goto(p, to), crashes' = crashes
      PROVE  \A q \in Processes : at'[q] = "new" => at[q] = "new"
  BY <1>3, MovedFacts
<1>4. CASE \E p \in Processes : \E to : to # "new" /\ Goto(p, to) /\ crashes' = crashes
  <2>1. \A p \in Processes : at'[p] = "new" => at[p] = "new"
    BY <1>3, <1>4
  <2>2. ~Crash
    BY <1>4, BoundsAssumption DEF Crash, TypeOK
  <2>. QED
    BY <1>4, <2>1, <2>2, DisjointAssumption DEF Unwritten, Undisturbed, FewSwaps, Processes, Swappers
<1>. QED
  BY <1>1, <1>2, <1>4, StepMoves

LEMMA StepSwap ==
  TypeOK /\ (Unwritten => SwapInv) /\ [Next]_vars => (Unwritten => SwapInv)'
<1>. SUFFICES ASSUME TypeOK, Unwritten => SwapInv, [Next]_vars, Unwritten' PROVE SwapInv'
  OBVIOUS
<1>0. Unwritten /\ SwapInv
  BY Begun
<1>. USE <1>0
<1>1. CASE UNCHANGED vars
  BY <1>1 DEF vars, SwapInv, DirsInv, KeptInv, OriginalInv, Versioned, Made, Before, Answers,
              AnswerPlaces
<1>2. ASSUME NEW u \in Uploads, UploadBegin(u) PROVE SwapInv'
  BY <1>2, MoveStep, VersionFacts DEF UploadBegin, Answers, AnswerPlaces, Answering
<1>3. ASSUME NEW r \in Restores, RestoreBegin(r) PROVE SwapInv'
  BY <1>3, MoveStep, VersionFacts DEF RestoreBegin, Answers, AnswerPlaces, Answering
<1>4. ASSUME NEW b \in Archives, ArchiveLook(b) \/ ArchiveAdd(b) PROVE SwapInv'
  <2>1. b \in Processes /\ b \notin Swappers
    BY DisjointAssumption DEF Processes
  <2>2. UNCHANGED <<crashes, src, old, placed, staging>> /\ \E to : Goto(b, to)
    BY <1>4 DEF ArchiveLook, ArchiveAdd
  <2>. QED
    BY <2>1, <2>2, MoveStep
<1>6. ASSUME NEW u \in Uploads, UploadReceive(u) PROVE SwapInv'
  BY <1>6, MoveStep, VersionFacts DEF UploadReceive, Answers, AnswerPlaces, Answering
<1>7. ASSUME NEW p \in Swappers, LookForSource(p) PROVE SwapInv'
  <2>1. staging'[p] = {p}
    BY <1>7 DEF LookForSource, SwapInv, DirsInv
  <2>. QED
    BY <1>7, <2>1, MoveStep, VersionFacts DEF LookForSource, Answers, AnswerPlaces, Answering
<1>8. ASSUME NEW u \in Uploads, UploadCommit(u) PROVE SwapInv'
  BY <1>8, MoveStep, VersionFacts DEF UploadCommit, Answers, AnswerPlaces, Answering
<1>9. ASSUME NEW u \in Uploads, UploadTidy(u) PROVE SwapInv'
  <2>1. \A q \in Swappers : q # u => staging'[q] = staging[q]
    BY <1>9 DEF UploadTidy, TypeOK
  <2>. QED
    BY <1>9, <2>1, MoveStep, VersionFacts DEF UploadTidy, Answers, AnswerPlaces, Answering
<1>10. ASSUME NEW u \in Uploads, UploadJudge(u) PROVE SwapInv'
  BY <1>10, MoveStep, VacantIs, VersionFacts DEF UploadJudge, Answers, AnswerPlaces, Answering
<1>11. ASSUME NEW r \in Restores, RestoreExcept(r) PROVE SwapInv'
  <2>1. \A q \in Swappers : q # r => staging'[q] = staging[q]
    BY <1>11 DEF RestoreExcept, TypeOK
  <2>. QED
    BY <1>11, <2>1, MoveStep, VacantIs, VersionFacts
       DEF RestoreExcept, Answers, AnswerPlaces, Answering
<1>12. ASSUME NEW u \in Uploads, UploadStep(u) PROVE SwapInv'
  <2>1. u \in Swappers
    BY VersionFacts
  <2>2. CASE \/ Unpack(u, "fail") \/ SwapOut(u, "fail") \/ SwapIn(u, "fail")
             \/ DropOld(u, "commit", "fail") \/ PutBack(u)
    BY <2>1, <2>2, UnpackSwap, SwapOutSwap, SwapInSwap, DropOldSwap, PutBackSwap
  <2>. QED
    BY <1>6, <1>7, <1>8, <1>9, <1>10, <1>12, <2>1, <2>2, DiscardSwap DEF UploadStep
<1>13. ASSUME NEW r \in Restores, RestoreStep(r) PROVE SwapInv'
  <2>1. r \in Swappers
    BY VersionFacts
  <2>2. CASE \/ Unpack(r, "except") \/ SwapOut(r, "except") \/ SwapIn(r, "except")
             \/ DropOld(r, "restored", "except") \/ PutBack(r)
    BY <2>1, <2>2, UnpackSwap, SwapOutSwap, SwapInSwap, DropOldSwap, PutBackSwap
  <2>. QED
    BY <1>7, <1>11, <1>13, <2>1, <2>2 DEF RestoreStep
(* Who writes in place has begun.                                            *)
<1>14. ASSUME NEW w \in Saves, SaveMkdir(w) \/ SaveWrite(w) PROVE FALSE
  BY <1>14 DEF SaveMkdir, SaveWrite, Unwritten, TypeOK, Processes
<1>15. ASSUME NEW d \in Builds, DeployGenerate(d) PROVE FALSE
  BY <1>15 DEF DeployGenerate, Unwritten
<1>16. ASSUME NEW d \in Deploys, DeployMkdir(d) PROVE SwapInv'
  <2>1. d \in Processes /\ \E to \in {"generate", "done"} : Goto(d, to)
    BY <1>16 DEF DeployMkdir, Processes
  <2>2. at'[d] # "new"
    BY <2>1, MovedFacts
  <2>3. ~RenameMayFail
    BY <2>2 DEF Unwritten
  <2>. QED
    BY <1>16, <2>3, MkdirSwap
<1>17. ASSUME NEW p \in Processes, Step(p) PROVE SwapInv'
  BY <1>4, <1>12, <1>13, <1>14, <1>15, <1>17 DEF Step
<1>18. CASE Crash
  <2>1. /\ \A p \in Swappers : at'[p] = IF at[p] \in Resting THEN at[p] ELSE "done"
        /\ crashes' # 0 /\ UNCHANGED <<src, staging, old, placed>>
    BY <1>18, VersionFacts DEF Crash, TypeOK, BoundsAssumption
  <2>2. DirsInv'
    BY <2>1, VersionFacts DEF SwapInv, DirsInv, Versioned, Made, Resting
  <2>3. KeptInv'
    BY <2>1 DEF SwapInv, KeptInv, Answers, AnswerPlaces, Answering, Resting
  <2>4. OriginalInv'
    BY <2>1 DEF OriginalInv
  <2>. QED
    BY <2>2, <2>3, <2>4 DEF SwapInv
<1>19. CASE Restart
  BY <1>19 DEF Restart, SwapInv, DirsInv, KeptInv, OriginalInv, Versioned, Made, Before, Answers,
               AnswerPlaces
<1>. QED
  BY <1>1, <1>2, <1>3, <1>4, <1>14, <1>16, <1>17, <1>18, <1>19 DEF Next

(* Whatever uploads and restores overlap and wherever they fail, the source  *)
(* is one whole version whenever nothing is under way (or what a failed      *)
(* removal has left of one), as long as nothing else disturbs it.            *)
THEOREM SwapsKeepTheSourceWhole == Spec => []SourceWhole
<1>1. (Unwritten => SwapInv) => SourceWhole
  BY VersionFacts DEF SwapInv, DirsInv, KeptInv, Versioned, Made, Answers, AnswerPlaces, Answering,
                      SourceWhole, Quiet, Whole, Resting, Undisturbed, Processes
<1>2. Init => (Unwritten => SwapInv)
  BY InitSwap
<1>. QED
  BY <1>1, <1>2, InitTypes, StepTypes, StepSwap, PTL DEF Spec

(* There, the version in place before is still in place if no upload and no  *)
(* restore has got through its last rename: a failure before it is undone.   *)
THEOREM UnplacedSwapsKeepThePrevious == Spec => []UnplacedKept
<1>1. (Unwritten => SwapInv) => UnplacedKept
  BY VersionFacts DEF SwapInv, DirsInv, KeptInv, OriginalInv, Made, Before, Answers, AnswerPlaces,
                      Answering, UnplacedKept, Present, Quiet, Resting, Undisturbed, Processes
<1>2. Init => (Unwritten => SwapInv)
  BY InitSwap
<1>. QED
  BY <1>1, <1>2, InitTypes, StepTypes, StepSwap, PTL DEF Spec

(* There, whatever the crashes, and at every moment: a whole version, or     *)
(* what a failed removal has left of one, is on the disk, as the source or   *)
(* in the place where an upload or a restore put the previous one            *)
(* (upload_source's and restore_backup's old.rename).                        *)
VersionOnDisk ==
  \E dir \in {src} \cup {old[p] : p \in Swappers} :
    \E v \in Versions \cup {Scraps} : dir = {v}
THEOREM CrashesLoseNoSource == Spec => [](Unwritten => VersionOnDisk)
<1>1. (Unwritten => SwapInv) => (Unwritten => VersionOnDisk)
  BY DEF SwapInv, DirsInv, KeptInv, Versioned, Made, Answers, VersionOnDisk
<1>2. Init => (Unwritten => SwapInv)
  BY InitSwap
<1>. QED
  BY <1>1, <1>2, InitTypes, StepTypes, StepSwap, PTL DEF Spec

-----------------------------------------------------------------------------
(* The swaps implement the store: uploads alone, in any number, since one is *)
(* under way at a time; or two of uploads and restores together.  (With a    *)
(* third the version that one of two set aside comes back over the version   *)
(* of the other, or a set-aside one is no longer the source's.)              *)
(*                                                                         *)
(* The version in place is the source, or what the one process that holds a  *)
(* version has set aside.  A holder next to a source with files is one whose *)
(* place was taken by another: nobody is left who would move that source     *)
(* away.  A holder that gives its version up leaves a source with files.  A  *)
(* process whose version is placed and whose removal of the previous one     *)
(* raised may still put that back: then what is in place is its own version, *)
(* or what the other has made of it.                                         *)
(***************************************************************************)

Early == {"receive", "unpack", "look", "out"}
Future == Early \cup {"new"}
Holds(p) == p \notin placed /\ ~Vacant(old[p])
MayRevert(p) == p \in placed /\ ~Vacant(old[p])
Overtaken(p) ==
  /\ \A q \in Swappers : at[q] \notin Early
  /\ \E q \in Swappers \ {p} : at[q] \notin Future

HoldsNothing(p) ==
  at[p] \in Future \cup {"commit"} \/ (p \in Uploads /\ record[p] = "completed")
    => old[p] = Missing
RecordFits(u) ==
  /\ at[u] = "new" => record[u] = "none"
  /\ at[u] \in Working <=> record[u] = "processing"
  /\ record[u] = "none" => at[u] \in {"new", "done"}
  /\ record[u] = "completed" => u \in placed
PlacedFits(p) ==
  /\ at[p] \in {"drop", "commit", "restored"} => p \in placed
  /\ at[p] \in Future \cup {"in"} => p \notin placed
GivesUp(p) == at[p] = "discard" \/ (~RenameMayFail /\ at[p] # "in")

PlaceInv ==
  /\ up
  /\ \A p \in Swappers : HoldsNothing(p) /\ PlacedFits(p)
  /\ \A u \in Uploads : RecordFits(u)
HolderInv ==
  /\ \A p, q \in Swappers : Holds(p) /\ Holds(q) => p = q
  /\ \A p \in Swappers : Holds(p) /\ ~Vacant(src) => Overtaken(p)
  /\ \A p \in Swappers : Holds(p) /\ GivesUp(p) => ~Vacant(src)
RevertInv ==
  \A p \in Swappers : MayRevert(p) =>
    /\ \A q \in Swappers : Holds(q) => old[q] = {p}
    /\ Vacant(src) => \E q \in Swappers : Holds(q)
    /\ ~Vacant(src) => src = {p} \/ Overtaken(p)
LoneInv ==
  (\A r \in Restores : at[r] = "new") =>
    /\ \A u, v \in Uploads : at[u] \in Blocking /\ at[v] \in Blocking => u = v
    /\ \A p \in Swappers : Holds(p) => p \in Uploads /\ at[p] \in Blocking /\ Vacant(src)
    /\ \A p \in Swappers : MayRevert(p) => p \in Uploads /\ at[p] \in Blocking \ {"undo"} /\ src = {p}
StoreInv == PlaceInv /\ HolderInv /\ RevertInv /\ LoneInv

(* Only what was placed is ever in place, or set aside.                      *)
OnlyPlaced ==
  \A v \in Swappers : v \in placed \/ (src # {v} /\ \A p \in Swappers : old[p] # {v})

stages == [p \in Swappers |-> StageOf(p)]

LEMMA PlaceFacts ==
  /\ Future \cap {"in", "drop", "commit", "fail", "tidy", "judge", "undo", "discard", "done",
                  "except", "restored", "complete"} = {}
  /\ Early \subseteq Future /\ "new" \in Future /\ "new" \notin Early
  /\ {"receive", "unpack", "look", "out", "in", "drop", "commit", "fail"} \subseteq Working
  /\ Working \cap {"new", "tidy", "judge", "undo", "discard", "done", "restored", "complete"} = {}
  /\ {"unpack", "look", "out", "in", "drop", "commit", "fail", "tidy", "judge", "undo",
      "discard"} = Blocking
BY DEF Early, Future, Working, Blocking

LEMMA InitStore == Init => StoreInv
<1>. SUFFICES ASSUME Init PROVE StoreInv
  OBVIOUS
<1>1. /\ up /\ \A p \in Swappers : at[p] = "new" /\ old[p] = Missing
      /\ \A u \in Uploads : at[u] = "new" /\ record[u] = "none"
      /\ placed = {}
  BY VersionFacts DEF Init
<1>2. PlaceInv
  BY <1>1, PlaceFacts DEF PlaceInv, HoldsNothing, PlacedFits, RecordFits
<1>3. \A p \in Swappers : ~Holds(p) /\ ~MayRevert(p)
  BY <1>1 DEF Holds, MayRevert
<1>. QED
  BY <1>1, <1>2, <1>3, VersionFacts DEF StoreInv, HolderInv, RevertInv, LoneInv, Blocking

(* Who has set a version aside is past it.                                   *)
LEMMA HolderPast ==
  ASSUME StoreInv, NEW p \in Swappers, Holds(p) \/ MayRevert(p)
  PROVE  at[p] \notin Future /\ at[p] # "new" /\ at[p] # "commit"
BY PlaceFacts DEF StoreInv, PlaceInv, HoldsNothing, Holds, MayRevert

(* There is no third next to a restore.                                      *)
LEMMA Pair ==
  ASSUME FewSwaps, NEW p \in Swappers, NEW q \in Swappers, p # q, at[p] # "new", at[q] # "new"
  PROVE  \/ \A r \in Restores : at[r] = "new"
         \/ \A r \in Swappers : r = p \/ r = q \/ at[r] = "new"
BY DEF FewSwaps

(* A step that leaves the source's files where they are: nobody begins or    *)
(* ceases to hold a version.                                                 *)
SameFiles ==
  /\ src' = src \/ (Vacant(src) /\ Vacant(src)')
  /\ \A q \in Swappers : Holds(q)' <=> Holds(q)
  /\ \A q \in Swappers : Holds(q) => old'[q] = old[q]

LEMMA SameVersion ==
  ASSUME SameFiles
  PROVE  InPlace' = InPlace
<1>. DEFINE H == {q \in Swappers : Holds(q)}
<1>0. H = {q \in Swappers \ placed : ~Vacant(old[q])}
  BY DEF Holds
<1>0p. H' = {q \in Swappers \ placed' : ~Vacant(old'[q])}
  BY DEF Holds
<1>1. /\ InPlace = IF ~Vacant(src) THEN src ELSE UNION {old[p] : p \in H}
      /\ InPlace' = IF ~Vacant(src)' THEN src' ELSE UNION {old'[p] : p \in H'}
  <2>. HIDE DEF H
  <2>. QED
    BY <1>0, <1>0p, Zenon DEF InPlace
<1>2. H' = H
  BY DEF SameFiles
<1>3. UNION {old'[p] : p \in H} = UNION {old[p] : p \in H}
  <2>1. \A p \in H : old'[p] = old[p]
    BY DEF SameFiles
  <2>. QED
    BY <2>1
<1>. HIDE DEF H
<1>. QED
  BY <1>1, <1>2, <1>3 DEF SameFiles

(* What the only holder holds.                                               *)
LEMMA HeldVersion ==
  ASSUME Vacant(src), NEW p \in Swappers, Holds(p), \A q \in Swappers : Holds(q) => q = p
  PROVE  InPlace = old[p]
<1>1. {q \in Swappers \ placed : ~Vacant(old[q])} = {p}
  BY DEF Holds
<1>2. UNION {old[q] : q \in {p}} = old[p]
  OBVIOUS
<1>. QED
  BY <1>1, <1>2 DEF InPlace

(* The swapper p moves, and its record with it.                              *)
OtherPlaces(p) ==
  /\ \A q \in Swappers : q # p => (q \in placed' <=> q \in placed)
  /\ \A q \in Swappers : q # p => at'[q] = at[q]
  /\ \A u \in Uploads : u # p => record'[u] = record[u]

LEMMA OtherStages ==
  ASSUME NEW p \in Swappers, OtherPlaces(p)
  PROVE  stages' = [stages EXCEPT ![p] = StageOf(p)']
<1>1. \A q \in Swappers : q # p => StageOf(q)' = StageOf(q)
  BY VersionFacts DEF OtherPlaces, StageOf, Succeeded, Failed
<1>. QED
  BY <1>1 DEF stages


LEMMA PlacedStep ==
  ASSUME OnlyPlaced, placed \subseteq placed',
         \A v \in Swappers : src' = {v} => v \in placed' \/ src = {v} \/ \E p \in Swappers : old[p] = {v},
         \A p, v \in Swappers : old'[p] = {v} => old[p] = {v} \/ src = {v}
  PROVE  OnlyPlaced'
BY DEF OnlyPlaced

LEMMA StepPlaced ==
  ASSUME Unwritten', TypeOK, SwapInv, OnlyPlaced, [Next]_vars
  PROVE  OnlyPlaced'
<1>1. CASE UNCHANGED <<src, old, placed>>
  BY <1>1, PlacedStep
<1>2. ASSUME NEW p \in Swappers, NEW broken, SwapOut(p, broken) PROVE OnlyPlaced'
  BY <1>2, PlacedStep, VersionFacts DEF SwapOut, TypeOK
<1>3. ASSUME NEW p \in Swappers, NEW broken, SwapIn(p, broken) PROVE OnlyPlaced'
  <2>1. staging[p] = {p}
    BY <1>3 DEF SwapIn, SwapInv, DirsInv
  <2>. QED
    BY <1>3, <2>1, PlacedStep DEF SwapIn
<1>4. ASSUME NEW p \in Swappers, NEW next, NEW broken, DropOld(p, next, broken) PROVE OnlyPlaced'
  <2>1. PICK left \in {Missing, old[p], {Scraps}} : old' = [old EXCEPT ![p] = left]
    BY <1>4 DEF DropOld
  <2>2. \A v \in Swappers : left = {v} => left = old[p]
    BY <2>1, DisjointAssumption, VersionFacts
  <2>. QED
    BY <1>4, <2>1, <2>2, PlacedStep DEF DropOld, TypeOK
<1>5. ASSUME NEW p \in Swappers, PutBack(p) PROVE OnlyPlaced'
  <2>1. CASE Vacant(src)
    <3>1. /\ src' = old[p] /\ old' = [old EXCEPT ![p] = Missing] /\ placed' = placed
      BY <1>5, <2>1 DEF PutBack
    <3>. QED
      BY <3>1, PlacedStep, VersionFacts DEF TypeOK
  <2>. QED
    BY <1>1, <1>5, <2>1 DEF PutBack
<1>6. ASSUME NEW u \in Uploads, UploadDiscard(u) PROVE OnlyPlaced'
  BY <1>6, PlacedStep, VersionFacts DEF UploadDiscard, TypeOK
<1>7. ASSUME NEW d \in Deploys, DeployMkdir(d) PROVE OnlyPlaced'
  BY <1>7, PlacedStep, VersionFacts DEF DeployMkdir
<1>8. ASSUME NEW p \in Processes, Step(p) PROVE OnlyPlaced'
  <2>1. CASE p \in Uploads /\ UploadStep(p)
    <3>1. p \in Swappers
      BY <2>1, VersionFacts
    <3>2. CASE UploadReceive(p) \/ Unpack(p, "fail") \/ LookForSource(p) \/ UploadCommit(p) \/ UploadTidy(p) \/ UploadJudge(p)
      BY <1>1, <3>2 DEF UploadReceive, Unpack, LookForSource, UploadCommit, UploadTidy, UploadJudge
    <3>. QED
      BY <1>2, <1>3, <1>4, <1>5, <1>6, <2>1, <3>1, <3>2 DEF UploadStep
  <2>2. CASE p \in Restores /\ RestoreStep(p)
    <3>1. p \in Swappers
      BY <2>2, VersionFacts
    <3>2. CASE Unpack(p, "except") \/ LookForSource(p) \/ RestoreExcept(p)
      BY <1>1, <3>2 DEF Unpack, LookForSource, RestoreExcept
    <3>. QED
      BY <1>2, <1>3, <1>4, <1>5, <2>2, <3>1, <3>2 DEF RestoreStep
  <2>3. CASE p \in Saves /\ SaveWrite(p)
    <3>1. at'[p] # "new" /\ p \in Processes
      BY <2>3, MovedFacts DEF SaveWrite, Processes
    <3>. QED
      BY <2>3, <3>1 DEF Unwritten
  <2>4. CASE p \in Builds /\ DeployGenerate(p)
    <3>1. at'[p] # "new"
      BY <1>8, <2>4, MovedFacts DEF DeployGenerate
    <3>. QED
      BY <2>4, <3>1 DEF Unwritten
  <2>5. CASE p \in Archives /\ ArchiveAdd(p)
    BY <1>1, <2>5 DEF ArchiveAdd
  <2>. QED
    BY <1>8, <2>1, <2>2, <2>3, <2>4, <2>5 DEF Step
<1>9. ASSUME NEW w \in Saves, SaveMkdir(w) PROVE FALSE
  <2>1. w \in Processes /\ at' = [at EXCEPT ![w] = "write"]
    BY <1>9 DEF SaveMkdir, Processes
  <2>2. at'[w] = "write"
    BY <2>1 DEF TypeOK
  <2>. QED
    BY <2>2 DEF Unwritten
<1>. QED
  BY <1>1, <1>7, <1>8, <1>9
     DEF Next, vars, UploadBegin, RestoreBegin, ArchiveLook, Crash, Restart
-----------------------------------------------------------------------------
(* The invariant is kept.                                                    *)

(* A step of p that leaves all files where they are, up to what a removal    *)
(* that raised leaves of a version that is superseded.                       *)
LEMMA MoveStore ==
  ASSUME StoreInv, FewSwaps', NEW p \in Swappers, OtherPlaces(p), up' = up, placed' = placed,
         src' = src,
         \A q \in Swappers : \/ old'[q] = old[q]
                             \/ q = p /\ MayRevert(p) /\ ~Vacant(old'[p]),
         HoldsNothing(p)', PlacedFits(p)', p \in Uploads => RecordFits(p)',
         at'[p] # "new", at'[p] \in Early => at[p] \in Future,
         Holds(p) /\ GivesUp(p)' => ~Vacant(src),
         p \in Uploads /\ at'[p] \in Blocking => at[p] \in Blocking \/ LoopFree,
         p \in Uploads /\ Holds(p) /\ Vacant(src) => at'[p] \in Blocking,
         p \in Uploads /\ MayRevert(p) /\ src = {p} /\ at[p] # "undo"
           => at'[p] \in Blocking \ {"undo"}
  PROVE  StoreInv' /\ SameFiles
<1>1. \A q \in Swappers : /\ Holds(q)' <=> Holds(q)
                          /\ MayRevert(q)' <=> MayRevert(q)
                          /\ Holds(q) => old'[q] = old[q]
  BY DEF Holds, MayRevert
<1>2. PlaceInv'
  <2>1. \A q \in Swappers : (HoldsNothing(q) /\ PlacedFits(q))'
    BY DEF StoreInv, PlaceInv, OtherPlaces, HoldsNothing, PlacedFits
  <2>2. \A u \in Uploads : RecordFits(u)'
    BY VersionFacts DEF StoreInv, PlaceInv, OtherPlaces, RecordFits
  <2>. QED
    BY <2>1, <2>2 DEF StoreInv, PlaceInv
<1>3. (\A r \in Restores : at[r] = "new")' => p \in Uploads /\ \A r \in Restores : at[r] = "new"
  BY VersionFacts DEF OtherPlaces, Swappers
(* Who begins now is alone with what the others leave.                       *)
<1>4. ASSUME NEW q \in Swappers, Holds(q) \/ MayRevert(q), Overtaken(q)
      PROVE  \/ Overtaken(q)'
             \/ (Holds(q) => Vacant(src)) /\ (MayRevert(q) => src = {q})
  <2>1. CASE at'[p] \in Early
    <3>1. at[p] = "new"
      BY <1>4, <2>1, PlaceFacts DEF Overtaken, Future
    <3>2. PICK r \in Swappers \ {q} : at[r] \notin Future
      BY <1>4 DEF Overtaken
    <3>3. /\ p # q /\ p # r /\ at'[p] # "new" /\ at'[q] # "new" /\ at'[r] # "new"
      BY <1>4, <3>1, <3>2, HolderPast, PlaceFacts DEF OtherPlaces
    <3>4. \A s \in Restores : at'[s] = "new"
      BY <3>2, <3>3 DEF FewSwaps
    <3>. QED
      BY <1>3, <1>4, <3>4 DEF StoreInv, LoneInv
  <2>2. CASE at'[p] \notin Early
    <3>1. at'[p] \notin Future
      BY <2>2 DEF Future
    <3>. QED
      BY <1>4, <2>2, <3>1 DEF Overtaken, OtherPlaces
  <2>. QED
    BY <2>1, <2>2
<1>5. HolderInv'
  <2>1. (\A q, r \in Swappers : Holds(q) /\ Holds(r) => q = r)'
    BY <1>1 DEF StoreInv, HolderInv
  <2>2. (\A q \in Swappers : Holds(q) /\ ~Vacant(src) => Overtaken(q))'
    BY <1>1, <1>4 DEF StoreInv, HolderInv
  <2>3. (\A q \in Swappers : Holds(q) /\ GivesUp(q) => ~Vacant(src))'
    BY <1>1 DEF StoreInv, HolderInv, OtherPlaces, GivesUp
  <2>. QED
    BY <2>1, <2>2, <2>3 DEF HolderInv
<1>6. RevertInv'
  BY <1>1, <1>4 DEF StoreInv, RevertInv
<1>7. LoneInv'
  <2>. SUFFICES ASSUME (\A r \in Restores : at[r] = "new")' PROVE LoneInv'
    BY DEF LoneInv
  <2>. USE <1>3
  <2>1. ASSUME NEW u \in Uploads, NEW v \in Uploads, at'[u] \in Blocking, at'[v] \in Blocking
        PROVE  u = v
    BY <2>1, VersionFacts DEF StoreInv, LoneInv, OtherPlaces, LoopFree
  <2>2. ASSUME NEW q \in Swappers, Holds(q)'
        PROVE  q \in Uploads /\ at'[q] \in Blocking /\ Vacant(src)'
    BY <1>1, <2>2, VersionFacts DEF StoreInv, LoneInv, OtherPlaces
  <2>3. ASSUME NEW q \in Swappers, MayRevert(q)'
        PROVE  q \in Uploads /\ at'[q] \in Blocking \ {"undo"} /\ src' = {q}
    BY <1>1, <2>3, VersionFacts DEF StoreInv, LoneInv, OtherPlaces
  <2>. QED
    BY <2>1, <2>2, <2>3 DEF LoneInv
<1>. QED
  BY <1>1, <1>2, <1>5, <1>6, <1>7 DEF StoreInv, SameFiles

(* The place of a swapper between two places of the same kind.               *)
LEMMA StepFacts ==
  ASSUME TypeOK, StoreInv, NEW p \in Swappers, NEW to, Goto(p, to), record' = record,
         placed' = placed
  PROVE  /\ at'[p] = to /\ OtherPlaces(p)
         /\ at[p] \in Working /\ to \in Working /\ p \in Uploads => RecordFits(p)'
         /\ at[p] \notin Working \cup {"new"} /\ to \notin Working \cup {"new"}
              /\ (at[p] = "done" => to = "done") /\ p \in Uploads
            => RecordFits(p)'
<1>1. at'[p] = to /\ \A q \in Swappers : q # p => at'[q] = at[q]
  BY MovedFacts, VersionFacts
<1>2. p \in Uploads => RecordFits(p)
  BY DEF StoreInv, PlaceInv
<1>3. "new" \notin Working /\ "done" \notin Working
  BY PlaceFacts
<1>. QED
  BY <1>1, <1>2, <1>3 DEF OtherPlaces, RecordFits

(* The version is set aside: p holds it, and no other does.                  *)
LEMMA SwapOutStore ==
  ASSUME TypeOK, StoreInv, NEW p \in Swappers, at[p] = "out", Present(src), Goto(p, "in"),
         old' = [old EXCEPT ![p] = src], src' = Missing, UNCHANGED <<up, placed, record>>
  PROVE  StoreInv' /\ InPlace' = InPlace
<1>1. at'[p] = "in" /\ OtherPlaces(p) /\ (p \in Uploads => RecordFits(p)')
  BY StepFacts, PlaceFacts
<1>2. /\ old'[p] = src /\ old[p] = Missing /\ p \notin placed /\ at[p] \in Early
      /\ \A q \in Swappers : q # p => old'[q] = old[q]
  BY PlaceFacts DEF TypeOK, StoreInv, PlaceInv, HoldsNothing, PlacedFits, Future, Early
<1>3. /\ ~Holds(p) /\ (Holds(p)' <=> ~Vacant(src))
      /\ \A q \in Swappers : q # p => (Holds(q)' <=> Holds(q))
      /\ \A q \in Swappers : MayRevert(q)' => q # p /\ MayRevert(q)
  BY <1>2 DEF Holds, MayRevert
<1>4. \A q \in Swappers : ~Overtaken(q)
  BY <1>2 DEF Overtaken
<1>5. ~Vacant(src) => \A q \in Swappers : /\ ~Holds(q)
                                          /\ MayRevert(q) => src = {q}
  BY <1>4 DEF StoreInv, HolderInv, RevertInv
<1>6. PlaceInv'
  <2>1. \A q \in Swappers : (HoldsNothing(q) /\ PlacedFits(q))'
    <3>1. p \in Uploads => record[p] = "processing"
      BY PlaceFacts DEF StoreInv, PlaceInv, RecordFits
    <3>. QED
      BY <1>1, <1>2, <3>1, PlaceFacts
         DEF StoreInv, PlaceInv, OtherPlaces, HoldsNothing, PlacedFits
  <2>2. \A u \in Uploads : RecordFits(u)'
    BY <1>1, VersionFacts DEF StoreInv, PlaceInv, OtherPlaces, RecordFits
  <2>. QED
    BY <2>1, <2>2 DEF StoreInv, PlaceInv
<1>7. HolderInv'
  <2>1. (\A q, r \in Swappers : Holds(q) /\ Holds(r) => q = r)'
    BY <1>3, <1>5 DEF StoreInv, HolderInv
  <2>2. Vacant(src)'
    OBVIOUS
  <2>3. (\A q \in Swappers : Holds(q) /\ GivesUp(q) => ~Vacant(src))'
    BY <1>1, <1>3, <1>5 DEF StoreInv, HolderInv, GivesUp, OtherPlaces
  <2>. QED
    BY <2>1, <2>2, <2>3 DEF HolderInv
<1>8. RevertInv'
  <2>. SUFFICES ASSUME NEW q \in Swappers, MayRevert(q)'
                PROVE  /\ \A r \in Swappers : Holds(r)' => old'[r] = {q}
                       /\ \E r \in Swappers : Holds(r)'
    BY DEF RevertInv
  <2>1. q # p /\ MayRevert(q)
    BY <1>3
  <2>2. CASE Vacant(src)
    BY <1>2, <1>3, <2>1, <2>2 DEF StoreInv, RevertInv
  <2>3. CASE ~Vacant(src)
    BY <1>2, <1>3, <1>5, <2>1, <2>3
  <2>. QED
    BY <2>2, <2>3
<1>9. LoneInv'
  BY <1>1, <1>3, VersionFacts DEF StoreInv, LoneInv, OtherPlaces, Blocking, Swappers
<1>10. InPlace' = InPlace
  <2>1. CASE Vacant(src)
    <3>1. SameFiles
      BY <1>2, <1>3, <2>1 DEF SameFiles
    <3>. QED
      BY <3>1, SameVersion
  <2>2. CASE ~Vacant(src)
    <3>1. InPlace = src
      BY <2>2 DEF InPlace
    <3>2. {q \in Swappers \ placed' : ~Vacant(old'[q])} = {p}
      BY <1>3, <1>5, <2>2 DEF Holds
    <3>3. InPlace' = UNION {old'[q] : q \in {p}}
      BY <3>2 DEF InPlace
    <3>. QED
      BY <1>2, <3>1, <3>3
  <2>. QED
    BY <2>1, <2>2
<1>. QED
  BY <1>6, <1>7, <1>8, <1>9, <1>10 DEF StoreInv

(* p's own version takes the free place.                                     *)
LEMMA SwapInStore ==
  ASSUME FewSwaps, TypeOK, SwapInv, StoreInv, NEW p \in Swappers, at[p] = "in", Vacant(src),
         Goto(p, "drop"), src' = staging[p], placed' = placed \cup {p}, UNCHANGED <<up, old, record>>
  PROVE  StoreInv' /\ InPlace' = {p}
<1>1. /\ at'[p] = "drop" /\ OtherPlaces(p) /\ (p \in Uploads => RecordFits(p)')
  <2>1. at'[p] = "drop" /\ \A q \in Swappers : q # p => at'[q] = at[q]
    BY MovedFacts, VersionFacts
  <2>. QED
    BY <2>1, PlaceFacts DEF OtherPlaces, StoreInv, PlaceInv, RecordFits
<1>2. src' = {p} /\ ~Vacant(src)'
  BY VersionFacts DEF SwapInv, DirsInv
<1>3. /\ ~Holds(p)' /\ (MayRevert(p)' <=> Holds(p)) /\ ~MayRevert(p)
      /\ \A q \in Swappers : q # p => (Holds(q)' <=> Holds(q)) /\ (MayRevert(q)' <=> MayRevert(q))
  BY DEF Holds, MayRevert, StoreInv, PlaceInv, PlacedFits
(* Another that has set a version aside is the only other there is.          *)
<1>4. ASSUME NEW q \in Swappers, q # p, Holds(q) \/ MayRevert(q)
      PROVE  /\ \E r \in Restores : at'[r] # "new"
             /\ Overtaken(q)'
  <2>1. at[q] # "new" /\ at[q] \notin Future
    BY <1>4, HolderPast
  <2>2. \E r \in Restores : at[r] # "new"
    <3>. SUFFICES ASSUME \A r \in Restores : at[r] = "new" PROVE FALSE
      OBVIOUS
    <3>1. p \in Uploads /\ q \in Uploads /\ at[p] \in Blocking /\ at[q] \in Blocking
      BY <1>4, <2>1, PlaceFacts DEF StoreInv, LoneInv, Swappers
    <3>. QED
      BY <1>4, <3>1 DEF StoreInv, LoneInv
  <2>3. \A r \in Swappers : r = p \/ r = q \/ at[r] = "new"
    BY <1>4, <2>1, <2>2, Pair
  <2>4. \A r \in Swappers : at'[r] \notin Early
    BY <1>1, <2>1, <2>3, PlaceFacts DEF OtherPlaces, Future
  <2>5. p \in Swappers \ {q} /\ at'[p] \notin Future
    BY <1>1, <1>4, PlaceFacts
  <2>6. \E r \in Restores : at'[r] # "new"
    BY <1>1, <2>2, VersionFacts DEF OtherPlaces
  <2>. QED
    BY <2>4, <2>5, <2>6 DEF Overtaken
<1>5. PlaceInv'
  <2>1. \A q \in Swappers : (HoldsNothing(q) /\ PlacedFits(q))'
    BY <1>1, PlaceFacts DEF StoreInv, PlaceInv, OtherPlaces, HoldsNothing, PlacedFits
  <2>2. \A u \in Uploads : RecordFits(u)'
    BY <1>1, VersionFacts DEF StoreInv, PlaceInv, OtherPlaces, RecordFits
  <2>. QED
    BY <2>1, <2>2 DEF StoreInv, PlaceInv
<1>6. HolderInv'
  <2>1. (\A q, r \in Swappers : Holds(q) /\ Holds(r) => q = r)'
    BY <1>3 DEF StoreInv, HolderInv
  <2>2. (\A q \in Swappers : Holds(q) => Overtaken(q))'
    BY <1>3, <1>4
  <2>. QED
    BY <1>2, <2>1, <2>2 DEF HolderInv
<1>7. RevertInv'
  <2>. SUFFICES ASSUME NEW q \in Swappers, MayRevert(q)'
                PROVE  /\ \A r \in Swappers : Holds(r)' => old'[r] = {q}
                       /\ src' = {q} \/ Overtaken(q)'
    BY <1>2 DEF RevertInv
  <2>1. CASE q = p
    BY <1>2, <1>3, <2>1 DEF StoreInv, HolderInv
  <2>2. CASE q # p
    BY <1>3, <1>4, <2>2 DEF StoreInv, RevertInv
  <2>. QED
    BY <2>1, <2>2
<1>8. LoneInv'
  <2>. SUFFICES ASSUME (\A r \in Restores : at[r] = "new")' PROVE LoneInv'
    BY DEF LoneInv
  <2>1. p \in Uploads /\ (\A r \in Restores : at[r] = "new")
    BY <1>1, VersionFacts DEF OtherPlaces, Swappers
  <2>2. ASSUME NEW u \in Uploads, NEW v \in Uploads, at'[u] \in Blocking, at'[v] \in Blocking
        PROVE  u = v
    BY <1>1, <2>1, <2>2, VersionFacts, PlaceFacts DEF StoreInv, LoneInv, OtherPlaces
  <2>3. \A q \in Swappers : ~Holds(q)'
    BY <1>3, <1>4
  <2>4. \A q \in Swappers : MayRevert(q)' => q = p
    BY <1>3, <1>4
  <2>5. at'[p] \in Blocking \ {"undo"}
    BY <1>1, PlaceFacts
  <2>. QED
    BY <1>2, <2>1, <2>2, <2>3, <2>4, <2>5 DEF LoneInv
<1>. QED
  BY <1>2, <1>5, <1>6, <1>7, <1>8 DEF StoreInv, InPlace

(* A directory set aside is removed: of a version that was replaced, or next *)
(* to a source with files.                                                   *)
LEMMA RemoveOldStore ==
  ASSUME TypeOK, SwapInv, StoreInv, NEW p \in Swappers, NEW to,
         \/ at[p] = "drop" /\ to = IF p \in Uploads THEN "commit" ELSE "restored"
         \/ p \in Uploads /\ at[p] = "discard" /\ to = "done",
         Goto(p, to), old' = [old EXCEPT ![p] = Missing], UNCHANGED <<up, src, placed, record>>
  PROVE  StoreInv' /\ InPlace' = InPlace
<1>1. /\ at'[p] = to /\ OtherPlaces(p) /\ (p \in Uploads => RecordFits(p)')
      /\ to \notin Future /\ to # "new" /\ to # "in" /\ at[p] \notin Future
      /\ p \in Uploads => at[p] \in Blocking
  BY StepFacts, PlaceFacts
<1>2. old'[p] = Missing /\ \A q \in Swappers : q # p => old'[q] = old[q]
  BY DEF TypeOK
<1>3. /\ ~Holds(p)' /\ ~MayRevert(p)'
      /\ \A q \in Swappers : q # p => (Holds(q)' <=> Holds(q)) /\ (MayRevert(q)' <=> MayRevert(q))
  BY <1>2 DEF Holds, MayRevert
<1>4. Vacant(src) => ~Holds(p)
  BY DEF StoreInv, PlaceInv, PlacedFits, HolderInv, GivesUp, Holds
<1>5. \A q \in Swappers : Overtaken(q) => Overtaken(q)'
  BY <1>1, PlaceFacts DEF Overtaken, OtherPlaces
<1>6. PlaceInv'
  <2>1. \A q \in Swappers : (HoldsNothing(q) /\ PlacedFits(q))'
    BY <1>1, <1>2, VersionFacts DEF StoreInv, PlaceInv, OtherPlaces, HoldsNothing, PlacedFits
  <2>2. \A u \in Uploads : RecordFits(u)'
    BY <1>1, VersionFacts DEF StoreInv, PlaceInv, OtherPlaces, RecordFits
  <2>. QED
    BY <2>1, <2>2 DEF StoreInv, PlaceInv
<1>7. HolderInv'
  <2>1. (\A q, r \in Swappers : Holds(q) /\ Holds(r) => q = r)'
    BY <1>3 DEF StoreInv, HolderInv
  <2>2. (\A q \in Swappers : Holds(q) /\ ~Vacant(src) => Overtaken(q))'
    BY <1>3, <1>5 DEF StoreInv, HolderInv
  <2>3. (\A q \in Swappers : Holds(q) /\ GivesUp(q) => ~Vacant(src))'
    BY <1>1, <1>3 DEF StoreInv, HolderInv, GivesUp, OtherPlaces
  <2>. QED
    BY <2>1, <2>2, <2>3 DEF HolderInv
<1>8. RevertInv'
  BY <1>2, <1>3, <1>4, <1>5 DEF StoreInv, RevertInv
<1>9. LoneInv'
  <2>. SUFFICES ASSUME (\A r \in Restores : at[r] = "new")' PROVE LoneInv'
    BY DEF LoneInv
  <2>1. p \in Uploads /\ (\A r \in Restores : at[r] = "new")
    BY <1>1, VersionFacts DEF OtherPlaces, Swappers
  <2>2. ASSUME NEW u \in Uploads, NEW v \in Uploads, at'[u] \in Blocking, at'[v] \in Blocking
        PROVE  u = v
    BY <1>1, <2>1, <2>2, VersionFacts DEF StoreInv, LoneInv, OtherPlaces
  <2>3. \A q \in Swappers : /\ Holds(q)' => q \in Uploads /\ at'[q] \in Blocking /\ Vacant(src)'
                            /\ MayRevert(q)' => /\ q \in Uploads /\ at'[q] \in Blocking \ {"undo"}
                                                /\ src' = {q}
    BY <1>1, <1>3, <2>1, VersionFacts DEF StoreInv, LoneInv, OtherPlaces
  <2>. QED
    BY <2>2, <2>3 DEF LoneInv
<1>10. InPlace' = InPlace
  <2>1. CASE ~Vacant(src)
    BY <2>1 DEF InPlace
  <2>2. CASE Vacant(src)
    <3>1. SameFiles
      BY <1>2, <1>3, <1>4, <2>2 DEF SameFiles
    <3>. QED
      BY <3>1, SameVersion
  <2>. QED
    BY <2>1, <2>2
<1>. QED
  BY <1>6, <1>7, <1>8, <1>9, <1>10 DEF StoreInv

(* What was set aside comes back: the version that was in place, or, if p's  *)
(* own is placed and the removal of the previous one raised, that one        *)
(* instead of p's.                                                           *)
LEMMA PutBackStore ==
  ASSUME FewSwaps, TypeOK, SwapInv, OnlyPlaced, StoreInv,
         NEW p \in Swappers, at[p] = "undo", Vacant(src),
         Goto(p, "done"), src' = old[p], old' = [old EXCEPT ![p] = Missing],
         UNCHANGED <<up, placed, record>>
  PROVE  /\ StoreInv'
         /\ \/ InPlace' = InPlace
            \/ /\ MayRevert(p) /\ InPlace = {p}
               /\ \E v \in Versions \cup {Scraps} : InPlace' = {v} /\ (v \in Swappers => v \in placed)
<1>1. at'[p] = "done" /\ OtherPlaces(p) /\ (p \in Uploads => RecordFits(p)')
  BY StepFacts, PlaceFacts
<1>2. old'[p] = Missing /\ \A q \in Swappers : q # p => old'[q] = old[q]
  BY DEF TypeOK
<1>3. /\ ~Holds(p)' /\ ~MayRevert(p)'
      /\ (Holds(p) \/ MayRevert(p)) <=> ~Vacant(src)'
      /\ \A q \in Swappers : q # p => (Holds(q)' <=> Holds(q)) /\ (MayRevert(q)' <=> MayRevert(q))
      /\ ~(Holds(p) /\ MayRevert(p))
  BY <1>2 DEF Holds, MayRevert
<1>4. PlaceInv'
  <2>1. \A q \in Swappers : (HoldsNothing(q) /\ PlacedFits(q))'
    BY <1>1, <1>2, VersionFacts, PlaceFacts
       DEF StoreInv, PlaceInv, OtherPlaces, HoldsNothing, PlacedFits
  <2>2. \A u \in Uploads : RecordFits(u)'
    BY <1>1, VersionFacts DEF StoreInv, PlaceInv, OtherPlaces, RecordFits
  <2>. QED
    BY <2>1, <2>2 DEF StoreInv, PlaceInv
<1>5. (\A q, r \in Swappers : Holds(q) /\ Holds(r) => q = r)'
  BY <1>3 DEF StoreInv, HolderInv
<1>6. (\A q \in Swappers : Holds(q) /\ GivesUp(q) => ~Vacant(src))'
  BY <1>1, <1>3 DEF StoreInv, HolderInv, GivesUp, OtherPlaces
<1>7. LoneInv'
  <2>. SUFFICES ASSUME (\A r \in Restores : at[r] = "new")' PROVE LoneInv'
    BY DEF LoneInv
  <2>1. /\ p \in Uploads /\ (\A r \in Restores : at[r] = "new")
        /\ at[p] \in Blocking /\ at'[p] \notin Blocking
    BY <1>1, VersionFacts, PlaceFacts DEF OtherPlaces, Swappers
  <2>2. ASSUME NEW u \in Uploads, NEW v \in Uploads, at'[u] \in Blocking, at'[v] \in Blocking
        PROVE  u = v
    BY <1>1, <2>1, <2>2, VersionFacts DEF StoreInv, LoneInv, OtherPlaces
  <2>3. \A q \in Swappers : q # p => ~Holds(q) /\ ~MayRevert(q)
    BY <2>1 DEF StoreInv, LoneInv
  <2>. QED
    BY <1>3, <2>2, <2>3 DEF LoneInv
<1>8. CASE ~MayRevert(p)
  <2>1. (\A q \in Swappers : Holds(q) /\ ~Vacant(src) => Overtaken(q))'
    BY <1>3, <1>8 DEF StoreInv, HolderInv
  <2>2. HolderInv'
    BY <1>5, <1>6, <2>1 DEF HolderInv
  <2>3. RevertInv'
    <3>. SUFFICES ASSUME NEW q \in Swappers, MayRevert(q)'
                  PROVE  /\ \A r \in Swappers : Holds(r)' => old'[r] = {q}
                         /\ Vacant(src)' => \E r \in Swappers : Holds(r)'
                         /\ ~Vacant(src)' => src' = {q}
      BY DEF RevertInv
    <3>1. MayRevert(q) /\ q # p
      BY <1>3
    <3>2. /\ \A r \in Swappers : Holds(r) => old[r] = {q}
          /\ \E r \in Swappers : Holds(r)
      BY <3>1 DEF StoreInv, RevertInv
    <3>. QED
      BY <1>2, <1>3, <1>8, <3>2
  <2>4. InPlace' = InPlace
    <3>1. CASE Holds(p)
      <4>1. InPlace = old[p]
        BY <3>1, HeldVersion DEF StoreInv, HolderInv
      <4>2. InPlace' = src'
        BY <1>3, <3>1 DEF InPlace
      <4>. QED
        BY <4>1, <4>2
    <3>2. CASE ~Holds(p)
      <4>1. SameFiles
        BY <1>2, <1>3, <1>8, <3>2 DEF SameFiles
      <4>. QED
        BY <4>1, SameVersion
    <3>. QED
      BY <3>1, <3>2
  <2>. QED
    BY <1>4, <1>7, <2>2, <2>3, <2>4 DEF StoreInv
<1>9. CASE MayRevert(p)
  <2>1. PICK q \in Swappers : Holds(q) /\ old[q] = {p} /\ \A r \in Swappers : Holds(r) => r = q
    BY <1>9 DEF StoreInv, RevertInv, HolderInv
  <2>2. q # p /\ at[q] \notin Future /\ at[q] # "new" /\ p \in placed
    BY <1>3, <1>9, <2>1, HolderPast DEF MayRevert
  <2>3. ~\A r \in Restores : at[r] = "new"
    BY <1>9 DEF StoreInv, LoneInv
  <2>4. \A r \in Swappers : r = p \/ r = q \/ at[r] = "new"
    BY <2>2, <2>3, Pair
  <2>5. Overtaken(q)'
    <3>1. \A r \in Swappers : at'[r] \notin Early
      BY <1>1, <2>2, <2>4, PlaceFacts DEF OtherPlaces, Future
    <3>2. p \in Swappers \ {q} /\ at'[p] \notin Future
      BY <1>1, <2>2, PlaceFacts
    <3>. QED
      BY <3>1, <3>2 DEF Overtaken
  <2>6. HolderInv'
    BY <1>3, <1>5, <1>6, <2>1, <2>5 DEF HolderInv
  <2>7. \A r \in Swappers : ~MayRevert(r)'
    <3>. SUFFICES ASSUME NEW r \in Swappers, MayRevert(r), r # p PROVE FALSE
      BY <1>3
    <3>1. old[q] = {r}
      BY <2>1 DEF StoreInv, RevertInv
    <3>. QED
      BY <2>1, <3>1
  <2>8. InPlace = {p}
    BY <2>1, HeldVersion
  <2>9. \E v \in Versions \cup {Scraps} : InPlace' = {v} /\ (v \in Swappers => v \in placed)
    <3>1. InPlace' = src' /\ src' = old[p] /\ ~Vacant(old[p])
      BY <1>3, <1>9 DEF InPlace
    <3>. QED
      BY <3>1 DEF SwapInv, DirsInv, Versioned, Made, OnlyPlaced
  <2>. QED
    BY <1>4, <1>7, <1>9, <2>6, <2>7, <2>8, <2>9 DEF StoreInv, RevertInv
<1>. QED
  BY <1>8, <1>9
-----------------------------------------------------------------------------
(* Every step is a step of the store, or changes nothing of it.              *)

StoreStep == [Store!Next]_(Store!vars)

LEMMA StoreSteps ==
  ASSUME LeftAlone, LeftAlone', NEW p \in Swappers, Store!Swap(p)
  PROVE  StoreStep
<1>1. p \in Store!Swappers
  BY DEF Store!Swappers, Swappers
<1>2. LeftAlone' <=> LeftAlone
  OBVIOUS
<1>. QED
  BY <1>1, <1>2, Zenon DEF StoreStep, Store!Next

LEMMA Stutters ==
  ASSUME LeftAlone, LeftAlone', InPlace' = InPlace, stages' = stages
  PROVE  StoreStep
<1>1. LeftAlone' <=> LeftAlone
  OBVIOUS
<1>. QED
  BY <1>1, Zenon DEF StoreStep, Store!vars, stages

(* A step of p, by what it makes of p's stage.                               *)
LEMMA Mapped ==
  ASSUME LeftAlone, LeftAlone', NEW p \in Swappers, OtherPlaces(p),
         \/ InPlace' = InPlace /\ StageOf(p)' = StageOf(p)
         \/ /\ InPlace' = InPlace /\ StageOf(p) = "idle" /\ StageOf(p)' = "open"
            /\ p \in Uploads => \A u \in Uploads : StageOf(u) \notin {"open", "placed"}
         \/ InPlace' = InPlace /\ StageOf(p) = "idle" /\ StageOf(p)' = "dropped"
         \/ InPlace' = {p} /\ StageOf(p) = "open" /\ StageOf(p)' = "placed"
         \/ InPlace' = InPlace /\ StageOf(p) = "placed" /\ StageOf(p)' = "kept"
         \/ InPlace' = InPlace /\ StageOf(p) = "placed" /\ StageOf(p)' = "disowned"
         \/ InPlace' = InPlace /\ StageOf(p) = "open" /\ StageOf(p)' = "dropped"
         \/ /\ InPlace = {p} /\ StageOf(p) \in {"placed", "disowned"} /\ StageOf(p)' = "disowned"
            /\ \E v \in Versions \cup {Scraps} :
                 InPlace' = {v} /\ (v \in Swappers => StageOf(v) \in {"placed", "kept", "disowned"})
  PROVE  StoreStep
<1>1. /\ stages' = [stages EXCEPT ![p] = StageOf(p)']
      /\ \A q \in Swappers : stages[q] = StageOf(q)
  BY OtherStages DEF stages
<1>2. /\ Store!Swappers = Swappers
      /\ Uploads \subseteq Swappers
  BY DEF Store!Swappers, Swappers
<1>3. CASE InPlace' = InPlace /\ StageOf(p)' = StageOf(p)
  <2>1. stages' = stages
    BY <1>1, <1>3 DEF stages
  <2>. QED
    BY <1>3, <2>1, Stutters
<1>4. CASE /\ InPlace' = InPlace /\ StageOf(p) = "idle" /\ StageOf(p)' = "open"
           /\ p \in Uploads => \A u \in Uploads : StageOf(u) \notin {"open", "placed"}
  <2>1. Store!Open(p)
    BY <1>1, <1>2, <1>4 DEF Store!Open, Store!UnderWay, stages
  <2>. QED
    BY <2>1, StoreSteps DEF Store!Swap
<1>5. CASE InPlace' = InPlace /\ StageOf(p) = "idle" /\ StageOf(p)' = "dropped"
  <2>1. Store!Refuse(p)
    BY <1>1, <1>5 DEF Store!Refuse, stages
  <2>. QED
    BY <2>1, StoreSteps DEF Store!Swap
<1>6. CASE InPlace' = {p} /\ StageOf(p) = "open" /\ StageOf(p)' = "placed"
  <2>1. Store!Place(p)
    BY <1>1, <1>6 DEF Store!Place, stages
  <2>. QED
    BY <2>1, StoreSteps DEF Store!Swap
<1>7. CASE InPlace' = InPlace /\ StageOf(p) = "placed" /\ StageOf(p)' = "kept"
  <2>1. Store!Keep(p)
    BY <1>1, <1>7 DEF Store!Keep, stages
  <2>. QED
    BY <2>1, StoreSteps DEF Store!Swap
<1>8. CASE InPlace' = InPlace /\ StageOf(p) = "placed" /\ StageOf(p)' = "disowned"
  <2>1. Store!Disown(p)
    BY <1>1, <1>8 DEF Store!Disown, stages
  <2>. QED
    BY <2>1, StoreSteps DEF Store!Swap
<1>9. CASE InPlace' = InPlace /\ StageOf(p) = "open" /\ StageOf(p)' = "dropped"
  <2>1. Store!Drop(p)
    BY <1>1, <1>9 DEF Store!Drop, stages
  <2>. QED
    BY <2>1, StoreSteps DEF Store!Swap
<1>10. CASE /\ InPlace = {p} /\ StageOf(p) \in {"placed", "disowned"} /\ StageOf(p)' = "disowned"
            /\ \E v \in Versions \cup {Scraps} :
                 InPlace' = {v} /\ (v \in Swappers => StageOf(v) \in {"placed", "kept", "disowned"})
  <2>1. Store!Revert(p)
    BY <1>1, <1>2, <1>10 DEF Store!Revert, Store!Laid, Versions, stages
  <2>. QED
    BY <2>1, StoreSteps DEF Store!Swap
<1>. QED
  BY <1>3, <1>4, <1>5, <1>6, <1>7, <1>8, <1>9, <1>10

(* The stage of a swapper before a step, and after it.                       *)
LEMMA StageNow ==
  ASSUME StoreInv, NEW p \in Swappers
  PROVE  /\ at[p] = "new" => StageOf(p) = "idle"
         /\ p \in Uploads /\ at[p] \in Working
              => StageOf(p) = IF p \in placed THEN "placed" ELSE "open"
         /\ p \notin Uploads /\ at[p] \notin {"new", "restored", "done"}
              => StageOf(p) = IF p \in placed THEN "placed" ELSE "open"
<1>1. "new" \notin Working /\ "done" \notin Working
  BY PlaceFacts
<1>. QED
  BY <1>1 DEF StoreInv, PlaceInv, RecordFits, StageOf, Succeeded, Failed

LEMMA StageThen ==
  ASSUME StoreInv', NEW p \in Swappers
  PROVE  /\ p \in Uploads /\ at'[p] \in Working
              => StageOf(p)' = IF p \in placed' THEN "placed" ELSE "open"
         /\ p \notin Uploads /\ at'[p] \notin {"new", "restored", "done"}
              => StageOf(p)' = IF p \in placed' THEN "placed" ELSE "open"
         /\ p \notin Uploads /\ at'[p] = "done"
              => StageOf(p)' = IF p \in placed' THEN "disowned" ELSE "dropped"
         /\ p \notin Uploads /\ at'[p] = "restored" => StageOf(p)' = "kept"
<1>1. "new" \notin Working /\ "done" \notin Working
  BY PlaceFacts
<1>. QED
  BY <1>1 DEF StoreInv, PlaceInv, RecordFits, PlacedFits, StageOf, Succeeded, Failed

(* An upload past its commit keeps the stage its record gives it.            *)
LEMMA StageStays ==
  ASSUME TypeOK, StoreInv, NEW u \in Uploads, UNCHANGED <<record, placed>>,
         at[u] \in {"tidy", "judge", "undo", "discard"},
         at'[u] \in {"judge", "undo", "discard", "done"}
  PROVE  /\ StageOf(u)' = StageOf(u)
         /\ u \in placed => StageOf(u) \in {"kept", "disowned"}
<1>1. record[u] # "none"
  BY DEF StoreInv, PlaceInv, RecordFits
<1>2. record[u] # "processing"
  BY PlaceFacts DEF StoreInv, PlaceInv, RecordFits
<1>3. /\ record[u] = "failed" \/ (record[u] = "completed" /\ u \in placed)
      /\ record'[u] = record[u] /\ placed' = placed
  BY <1>1, <1>2 DEF TypeOK, StoreInv, PlaceInv, RecordFits
<1>. QED
  BY <1>3 DEF StageOf, Succeeded, Failed

(* What is not a swapper.                                                    *)
LEMMA OutsideStore ==
  ASSUME LeftAlone, LeftAlone', TypeOK, StoreInv, NEW d \in Processes, d \notin Swappers,
         NEW to, Goto(d, to),
         src' = src \/ (Vacant(src) /\ Vacant(src)'), UNCHANGED <<up, old, placed, record>>
  PROVE  StoreInv' /\ StoreStep
<1>1. \A q \in Swappers : at'[q] = at[q]
  BY MovedFacts
<1>2. /\ \A q \in Swappers : /\ Holds(q)' <=> Holds(q)
                             /\ MayRevert(q)' <=> MayRevert(q)
                             /\ Overtaken(q)' <=> Overtaken(q)
      /\ Vacant(src)' <=> Vacant(src)
  BY <1>1 DEF Holds, MayRevert, Overtaken
<1>3. PlaceInv'
  <2>1. \A q \in Swappers : (HoldsNothing(q) /\ PlacedFits(q))'
    BY <1>1 DEF StoreInv, PlaceInv, HoldsNothing, PlacedFits
  <2>2. \A u \in Uploads : RecordFits(u)'
    BY <1>1, VersionFacts DEF StoreInv, PlaceInv, RecordFits
  <2>. QED
    BY <2>1, <2>2 DEF StoreInv, PlaceInv
<1>4. HolderInv'
  BY <1>1, <1>2 DEF StoreInv, HolderInv, GivesUp
<1>5. RevertInv'
  BY <1>2 DEF StoreInv, RevertInv
<1>6. LoneInv'
  <2>1. \A p \in Swappers : src = {p} => src' = src
    BY VersionFacts
  <2>. QED
    BY <1>1, <1>2, <2>1, VersionFacts DEF StoreInv, LoneInv
<1>7. InPlace' = InPlace
  BY <1>2, SameVersion DEF SameFiles
<1>8. stages' = stages
  <2>1. \A q \in Swappers : StageOf(q)' = StageOf(q)
    BY <1>1 DEF StageOf, Succeeded, Failed
  <2>. QED
    BY <2>1 DEF stages
<1>. QED
  BY <1>3, <1>4, <1>5, <1>6, <1>7, <1>8, Stutters DEF StoreInv

(* The uploads' own steps.                                                   *)
LEMMA BeginStore ==
  ASSUME LeftAlone, LeftAlone', TypeOK, StoreInv, NEW u \in Uploads, UploadBegin(u)
  PROVE  StoreInv' /\ StoreStep
<1>1. /\ at[u] = "new" /\ LoopFree /\ u \in Swappers /\ u \in Processes
      /\ UNCHANGED <<up, src, old, placed>> /\ old[u] = Missing /\ record[u] = "none"
      /\ u \notin placed
  BY VersionFacts, PlaceFacts
     DEF UploadBegin, StoreInv, PlaceInv, HoldsNothing, PlacedFits, RecordFits
<1>2. ~Holds(u) /\ ~MayRevert(u) /\ StageOf(u) = "idle" /\ FewSwaps'
  BY <1>1 DEF Holds, MayRevert, StageOf, LeftAlone
<1>3. CASE Goto(u, "done") /\ UNCHANGED record
  <2>1. at'[u] = "done" /\ OtherPlaces(u)
    BY <1>1, <1>3, StepFacts
  <2>2. HoldsNothing(u)' /\ PlacedFits(u)' /\ RecordFits(u)'
    BY <1>1, <1>3, <2>1, PlaceFacts DEF HoldsNothing, PlacedFits, RecordFits
  <2>3. StoreInv' /\ SameFiles
    BY <1>1, <1>2, <2>1, <2>2, PlaceFacts, MoveStore
  <2>4. StageOf(u)' = "dropped"
    BY <1>1, <1>3, <2>1 DEF StageOf, Succeeded, Failed
  <2>. QED
    BY <1>1, <1>2, <2>1, <2>3, <2>4, SameVersion, Mapped
<1>4. CASE /\ Goto(u, "receive") /\ record' = [record EXCEPT ![u] = "processing"]
           /\ ~\E v \in Uploads : Processing(v)
  <2>1. at'[u] = "receive" /\ \A q \in Swappers : q # u => at'[q] = at[q]
    BY <1>1, <1>4, MovedFacts
  <2>2. record'[u] = "processing" /\ OtherPlaces(u)
    BY <1>1, <1>4, <2>1 DEF OtherPlaces, TypeOK
  <2>3. HoldsNothing(u)' /\ PlacedFits(u)' /\ RecordFits(u)'
    BY <1>1, <2>1, <2>2, PlaceFacts DEF HoldsNothing, PlacedFits, RecordFits
  <2>4. StoreInv' /\ SameFiles
    BY <1>1, <1>2, <2>1, <2>2, <2>3, PlaceFacts, MoveStore
  <2>5. StageOf(u)' = "open"
    BY <1>1, <2>1, <2>2 DEF StageOf, Succeeded, Failed
  <2>6. \A v \in Uploads : StageOf(v) \notin {"open", "placed"}
    <3>1. SUFFICES ASSUME NEW v \in Uploads PROVE StageOf(v) \notin {"open", "placed"}
      OBVIOUS
    <3>2. record[v] \in {"none", "completed", "failed"} /\ RecordFits(v)
      BY <1>4 DEF Processing, TypeOK, StoreInv, PlaceInv
    <3>. QED
      BY <3>2, PlaceFacts DEF RecordFits, StageOf, Succeeded, Failed
  <2>. QED
    BY <1>1, <1>2, <2>2, <2>4, <2>5, <2>6, SameVersion, Mapped
<1>. QED
  BY <1>3, <1>4 DEF UploadBegin

(* A step of an upload or a restore before its files are in place or, if     *)
(* they do not get there, up to where it fails: it stays open.               *)
LEMMA OpenStore ==
  ASSUME LeftAlone, LeftAlone', TypeOK, StoreInv, NEW p \in Swappers, NEW to, Goto(p, to),
         UNCHANGED <<up, src, old, placed, record>>,
         at[p] \in {"receive", "unpack", "look", "out", "in"},
         to \in {"unpack", "look", "out", "in", IF p \in Uploads THEN "fail" ELSE "except"},
         to \in Future => at[p] \in Future,
         at[p] = "in" /\ Vacant(src) => RenameMayFail,
         at[p] = "receive" => p \in Uploads /\ LoopFree
  PROVE  StoreInv' /\ StoreStep
<1>1. at'[p] = to /\ OtherPlaces(p) /\ (p \in Uploads => RecordFits(p)')
  BY StepFacts, PlaceFacts
<1>2. p \notin placed /\ FewSwaps'
  BY DEF StoreInv, PlaceInv, PlacedFits, Future, Early, LeftAlone
<1>3. HoldsNothing(p)' /\ PlacedFits(p)'
  BY <1>1, <1>2 DEF HoldsNothing, PlacedFits, StoreInv, PlaceInv
<1>4. ~MayRevert(p) /\ (Holds(p) => at[p] = "in")
  BY <1>2 DEF StoreInv, PlaceInv, HoldsNothing, Holds, MayRevert, Future, Early
<1>5. Holds(p) /\ GivesUp(p)' => ~Vacant(src)
  BY <1>1, <1>4 DEF GivesUp
<1>6. p \in Uploads => to \in Blocking /\ (at[p] \in Blocking \/ LoopFree)
  BY DEF Blocking
<1>7. to # "new" /\ (to \in Early => at[p] \in Future)
  BY PlaceFacts
<1>8. StoreInv' /\ SameFiles
  BY <1>1, <1>2, <1>3, <1>4, <1>5, <1>6, <1>7, MoveStore
<1>9. StageOf(p) = "open"
  BY <1>2, StageNow, PlaceFacts
<1>10. StageOf(p)' = "open"
  BY <1>1, <1>2, <1>8, StageThen, PlaceFacts
<1>. QED
  BY <1>1, <1>8, <1>9, <1>10, SameVersion, Mapped

(* The record's outcome is committed, with the new version in place or not;  *)
(* or the commit raises.                                                     *)
LEMMA CommitStore ==
  ASSUME LeftAlone, LeftAlone', TypeOK, StoreInv, NEW u \in Uploads, UploadCommit(u)
  PROVE  StoreInv' /\ StoreStep
<1>1. PICK to \in {"tidy", "fail"} :
        /\ Goto(u, to)
        /\ \/ at[u] = "commit" /\ to = "tidy" /\ record' = [record EXCEPT ![u] = "completed"]
           \/ at[u] = "commit" /\ to = "fail" /\ record' = record
           \/ at[u] = "fail" /\ to = "tidy" /\ record' = [record EXCEPT ![u] = "failed"]
  BY DEF UploadCommit
<1>2. u \in Swappers /\ u \in Processes /\ UNCHANGED <<up, src, old, placed>> /\ FewSwaps'
  BY VersionFacts DEF UploadCommit, LeftAlone
<1>3. at'[u] = to /\ \A q \in Swappers : q # u => at'[q] = at[q]
  BY <1>1, <1>2, MovedFacts
<1>4. /\ OtherPlaces(u)
      /\ record'[u] = IF to = "fail" THEN "processing"
                      ELSE IF at[u] = "commit" THEN "completed" ELSE "failed"
  BY <1>1, <1>2, <1>3, PlaceFacts DEF OtherPlaces, TypeOK, StoreInv, PlaceInv, RecordFits
<1>5. (at[u] = "commit" => u \in placed) /\ ~(at[u] = "commit" /\ (Holds(u) \/ MayRevert(u)))
  BY HolderPast, <1>2 DEF StoreInv, PlaceInv, PlacedFits
<1>6. HoldsNothing(u)' /\ PlacedFits(u)' /\ RecordFits(u)'
  BY <1>1, <1>2, <1>3, <1>4, <1>5, PlaceFacts
     DEF StoreInv, PlaceInv, HoldsNothing, PlacedFits, RecordFits
<1>7. Holds(u) /\ GivesUp(u)' => ~Vacant(src)
  BY <1>1, <1>2, <1>3 DEF GivesUp, StoreInv, HolderInv
<1>8. /\ at[u] \in Blocking /\ at'[u] \in Blocking \ {"undo"}
      /\ at'[u] \notin Early /\ at'[u] # "new"
  BY <1>1, <1>3, PlaceFacts
<1>9. StoreInv' /\ SameFiles
  BY <1>1, <1>2, <1>3, <1>4, <1>6, <1>7, <1>8, MoveStore
<1>10. StageOf(u) = IF u \in placed THEN "placed" ELSE "open"
  BY <1>1, <1>2, StageNow, PlaceFacts
<1>11. StageOf(u)' = IF to = "fail" THEN "placed"
                     ELSE IF at[u] = "commit" THEN "kept"
                     ELSE IF u \in placed THEN "disowned" ELSE "dropped"
  BY <1>1, <1>2, <1>3, <1>4, <1>5 DEF StageOf, Succeeded, Failed
<1>. QED
  BY <1>1, <1>2, <1>4, <1>5, <1>9, <1>10, <1>11, SameVersion, Mapped

(* The finally block.                                                        *)
LEMMA FinallyStore ==
  ASSUME LeftAlone, LeftAlone', TypeOK, SwapInv, StoreInv, NEW u \in Uploads,
         UploadTidy(u) \/ UploadJudge(u)
  PROVE  StoreInv' /\ StoreStep
<1>1. PICK to \in {"judge", "undo", "discard", "done"} :
        /\ Goto(u, to)
        /\ \/ at[u] = "tidy" /\ to = "judge"
           \/ /\ at[u] = "judge"
              /\ to = IF ~Present(old[u]) THEN "done"
                      ELSE IF Present(src) THEN "discard" ELSE "undo"
  BY DEF UploadTidy, UploadJudge
<1>2. /\ u \in Swappers /\ u \in Processes /\ UNCHANGED <<up, src, old, placed, record>>
      /\ FewSwaps'
  BY VersionFacts DEF UploadTidy, UploadJudge, LeftAlone
<1>3. at'[u] = to /\ OtherPlaces(u) /\ RecordFits(u)'
  BY <1>1, <1>2, StepFacts, PlaceFacts
<1>4. Holds(u) /\ GivesUp(u)' => ~Vacant(src)
  <2>1. CASE to = "discard" /\ RenameMayFail
    BY <1>1, <2>1, VacantIs
  <2>2. CASE ~RenameMayFail
    BY <1>1, <1>2, <2>2 DEF GivesUp, StoreInv, HolderInv
  <2>3. CASE to # "discard" /\ RenameMayFail
    BY <1>3, <2>3 DEF GivesUp
  <2>. QED
    BY <2>1, <2>2, <2>3 DEF TypeOK
<1>5. /\ at[u] \in Blocking /\ at'[u] \notin Future /\ at'[u] # "new" /\ at'[u] \notin Early
      /\ Holds(u) => at'[u] \in Blocking
      /\ MayRevert(u) /\ src = {u} => at'[u] \in Blocking \ {"undo"}
  BY <1>1, <1>2, <1>3, PlaceFacts, VersionFacts DEF Holds, MayRevert
<1>6. HoldsNothing(u)' /\ PlacedFits(u)'
  BY <1>1, <1>2, <1>3, PlaceFacts DEF StoreInv, PlaceInv, HoldsNothing, PlacedFits
<1>7. StoreInv' /\ SameFiles
  BY <1>1, <1>2, <1>3, <1>4, <1>5, <1>6, MoveStore
<1>8. StageOf(u)' = StageOf(u)
  BY <1>1, <1>2, <1>3, StageStays
<1>. QED
  BY <1>2, <1>3, <1>7, <1>8, SameVersion, Mapped

LEMMA DiscardStore ==
  ASSUME LeftAlone, LeftAlone', TypeOK, SwapInv, StoreInv, NEW u \in Uploads, UploadDiscard(u)
  PROVE  StoreInv' /\ StoreStep
<1>1. /\ u \in Swappers /\ at[u] = "discard" /\ Goto(u, "done")
      /\ old' = [old EXCEPT ![u] = Missing] /\ UNCHANGED <<up, src, placed, record>>
  BY VersionFacts DEF UploadDiscard
<1>2. StoreInv' /\ InPlace' = InPlace
  BY <1>1, RemoveOldStore
<1>3. at'[u] = "done" /\ OtherPlaces(u)
  BY <1>1, StepFacts
<1>4. StageOf(u)' = StageOf(u)
  BY <1>1, <1>3, StageStays
<1>. QED
  BY <1>1, <1>2, <1>3, <1>4, Mapped

-----------------------------------------------------------------------------
(* The restores' own steps.                                                  *)
LEMMA RestoreBeginStore ==
  ASSUME LeftAlone, LeftAlone', TypeOK, StoreInv, NEW r \in Restores, RestoreBegin(r)
  PROVE  StoreInv' /\ StoreStep
<1>1. PICK to \in {"unpack", "done"} : Goto(r, to)
  BY DEF RestoreBegin
<1>2. /\ at[r] = "new" /\ r \in Swappers /\ r \notin Uploads
      /\ UNCHANGED <<up, src, old, placed, record>> /\ old[r] = Missing /\ r \notin placed
      /\ FewSwaps'
  BY VersionFacts, PlaceFacts DEF RestoreBegin, StoreInv, PlaceInv, HoldsNothing, PlacedFits, LeftAlone
<1>3. at'[r] = to /\ OtherPlaces(r)
  BY <1>1, <1>2, StepFacts
<1>4. ~Holds(r) /\ ~MayRevert(r) /\ HoldsNothing(r)' /\ PlacedFits(r)'
  BY <1>1, <1>2, <1>3 DEF Holds, MayRevert, HoldsNothing, PlacedFits
<1>5. StoreInv' /\ SameFiles
  BY <1>1, <1>2, <1>3, <1>4, PlaceFacts, MoveStore
<1>6. StageOf(r) = "idle" /\ StageOf(r)' = IF to = "unpack" THEN "open" ELSE "dropped"
  BY <1>1, <1>2, <1>3 DEF StageOf, Succeeded, Failed
<1>. QED
  BY <1>2, <1>3, <1>5, <1>6, SameVersion, Mapped

LEMMA ExceptStore ==
  ASSUME LeftAlone, LeftAlone', TypeOK, StoreInv, NEW r \in Restores, RestoreExcept(r)
  PROVE  StoreInv' /\ StoreStep
<1>1. PICK to \in {"undo", "done"} : Goto(r, to)
  BY DEF RestoreExcept
<1>2. /\ at[r] = "except" /\ r \in Swappers /\ r \notin Uploads
      /\ UNCHANGED <<up, src, old, placed, record>> /\ FewSwaps'
  BY VersionFacts DEF RestoreExcept, LeftAlone
<1>3. at'[r] = to /\ OtherPlaces(r)
  BY <1>1, <1>2, StepFacts
<1>4. HoldsNothing(r)' /\ PlacedFits(r)' /\ to \notin Early /\ to # "new"
  BY <1>1, <1>2, <1>3, PlaceFacts DEF HoldsNothing, PlacedFits
<1>5. Holds(r) /\ GivesUp(r)' => ~Vacant(src)
  BY <1>1, <1>2, <1>3 DEF GivesUp, StoreInv, HolderInv
<1>6. StoreInv' /\ SameFiles
  BY <1>1, <1>2, <1>3, <1>4, <1>5, MoveStore
<1>7. /\ StageOf(r) = IF r \in placed THEN "placed" ELSE "open"
      /\ StageOf(r)' = IF to = "undo" THEN StageOf(r)
                       ELSE IF r \in placed THEN "disowned" ELSE "dropped"
  BY <1>1, <1>2, <1>3 DEF StageOf, Succeeded, Failed
<1>. QED
  BY <1>1, <1>2, <1>3, <1>6, <1>7, SameVersion, Mapped

-----------------------------------------------------------------------------
(* The steps both have.                                                      *)
Broken(p) == IF p \in Uploads THEN "fail" ELSE "except"

LEMMA SwapOutStep ==
  ASSUME LeftAlone, LeftAlone', TypeOK, StoreInv, NEW p \in Swappers, SwapOut(p, Broken(p))
  PROVE  StoreInv' /\ StoreStep
<1>1. CASE Present(src)
  <2>1. /\ at[p] = "out" /\ Goto(p, "in") /\ old' = [old EXCEPT ![p] = src]
        /\ src' = Missing /\ UNCHANGED <<up, placed, record>>
    BY <1>1 DEF SwapOut
  <2>2. StoreInv' /\ InPlace' = InPlace
    BY <1>1, <2>1, SwapOutStore
  <2>3. at'[p] = "in" /\ OtherPlaces(p)
    BY <2>1, StepFacts
  <2>4. p \notin placed
    BY <2>1 DEF StoreInv, PlaceInv, PlacedFits, Future, Early
  <2>5. StageOf(p) = "open" /\ StageOf(p)' = "open"
    BY <2>1, <2>2, <2>3, <2>4, StageNow, StageThen, PlaceFacts
  <2>. QED
    BY <2>2, <2>3, <2>5, Mapped
<1>2. CASE ~Present(src)
  BY <1>2, OpenStore, PlaceFacts DEF SwapOut, Broken
<1>. QED
  BY <1>1, <1>2

LEMMA SwapInStep ==
  ASSUME LeftAlone, LeftAlone', TypeOK, SwapInv, StoreInv, NEW p \in Swappers,
         SwapIn(p, Broken(p))
  PROVE  StoreInv' /\ StoreStep
<1>1. CASE /\ Vacant(src) /\ src' = staging[p] /\ Goto(p, "drop")
           /\ placed' = placed \cup {p}
  <2>1. /\ at[p] = "in" /\ UNCHANGED <<up, old, record>> /\ FewSwaps
        /\ p \notin placed
    BY DEF SwapIn, LeftAlone, StoreInv, PlaceInv, PlacedFits
  <2>2. StoreInv' /\ InPlace' = {p}
    BY <1>1, <2>1, SwapInStore
  <2>3. at'[p] = "drop" /\ OtherPlaces(p)
    <3>1. at'[p] = "drop" /\ \A q \in Swappers : q # p => at'[q] = at[q]
      BY <1>1, MovedFacts, VersionFacts
    <3>. QED
      BY <1>1, <2>1, <3>1 DEF OtherPlaces
  <2>4. StageOf(p) = "open" /\ StageOf(p)' = "placed"
    BY <1>1, <2>1, <2>2, <2>3, StageNow, StageThen, PlaceFacts
  <2>. QED
    BY <2>2, <2>3, <2>4, Mapped
<1>2. CASE (~Vacant(src) \/ RenameMayFail) /\ Goto(p, Broken(p)) /\ UNCHANGED <<src, placed>>
  BY <1>2, OpenStore, PlaceFacts DEF SwapIn, Broken
<1>. QED
  BY <1>1, <1>2 DEF SwapIn

LEMMA DropOldStep ==
  ASSUME LeftAlone, LeftAlone', TypeOK, SwapInv, StoreInv, NEW p \in Swappers, NEW next,
         next = IF p \in Uploads THEN "commit" ELSE "restored", DropOld(p, next, Broken(p))
  PROVE  StoreInv' /\ StoreStep
<1>1. at[p] = "drop" /\ UNCHANGED <<up, src, placed, record>> /\ p \in placed /\ FewSwaps'
  BY DEF DropOld, StoreInv, PlaceInv, PlacedFits, LeftAlone
<1>2. StageOf(p) = "placed"
  BY <1>1, StageNow, PlaceFacts
<1>3. CASE Goto(p, next) /\ old' = [old EXCEPT ![p] = Missing]
  <2>1. StoreInv' /\ InPlace' = InPlace
    BY <1>1, <1>3, RemoveOldStore
  <2>2. at'[p] = next /\ OtherPlaces(p)
    BY <1>1, <1>3, StepFacts
  <2>3. StageOf(p)' = IF p \in Uploads THEN "placed" ELSE "kept"
    BY <1>1, <2>1, <2>2, StageThen, PlaceFacts
  <2>. QED
    BY <1>2, <2>1, <2>2, <2>3, Mapped
(* The removal raises: p still has what it set aside, or some of it.         *)
<1>4. CASE /\ Goto(p, Broken(p)) /\ ~Vacant(old[p])
           /\ \E left \in {old[p], {Scraps}} : old' = [old EXCEPT ![p] = left]
  <2>1. MayRevert(p) /\ ~Holds(p)
    BY <1>1, <1>4 DEF MayRevert, Holds
  <2>2. ~Vacant(old'[p]) /\ \A q \in Swappers : q # p => old'[q] = old[q]
    BY <1>4, VersionFacts DEF TypeOK
  <2>3. at'[p] = Broken(p) /\ OtherPlaces(p) /\ (p \in Uploads => RecordFits(p)')
    BY <1>1, <1>4, StepFacts, PlaceFacts DEF Broken
  <2>4. /\ HoldsNothing(p)' /\ PlacedFits(p)' /\ at'[p] # "new" /\ at'[p] \notin Early
        /\ p \in Uploads => at[p] \in Blocking /\ at'[p] \in Blocking \ {"undo"}
    BY <1>1, <2>3, PlaceFacts
       DEF StoreInv, PlaceInv, RecordFits, HoldsNothing, PlacedFits, Broken
  <2>5. StoreInv' /\ SameFiles
    BY <1>1, <2>1, <2>2, <2>3, <2>4, MoveStore
  <2>6. StageOf(p)' = "placed"
    BY <1>1, <2>3, <2>5, StageThen, PlaceFacts DEF Broken
  <2>. QED
    BY <1>2, <2>3, <2>5, <2>6, SameVersion, Mapped
<1>. QED
  BY <1>3, <1>4 DEF DropOld

LEMMA PutBackStep ==
  ASSUME LeftAlone, LeftAlone', TypeOK, SwapInv, OnlyPlaced, StoreInv, NEW p \in Swappers, PutBack(p)
  PROVE  StoreInv' /\ StoreStep
<1>1. /\ at[p] = "undo" /\ Goto(p, "done") /\ UNCHANGED <<up, placed, record>>
      /\ FewSwaps /\ FewSwaps'
  BY DEF PutBack, LeftAlone
<1>2. at'[p] = "done" /\ OtherPlaces(p) /\ (p \in Uploads => RecordFits(p)')
  BY <1>1, StepFacts, PlaceFacts
<1>3. /\ StoreInv'
      /\ \/ InPlace' = InPlace
         \/ /\ MayRevert(p) /\ InPlace = {p}
            /\ \E v \in Versions \cup {Scraps} : InPlace' = {v} /\ (v \in Swappers => v \in placed)
  <2>1. CASE Vacant(src)
    <3>1. src' = old[p] /\ old' = [old EXCEPT ![p] = Missing]
      BY <2>1 DEF PutBack
    <3>. QED
      BY <1>1, <2>1, <3>1, PutBackStore
  <2>2. CASE ~Vacant(src)
    <3>1. src' = src /\ old' = old
      BY <2>2 DEF PutBack
    <3>2. HoldsNothing(p)' /\ PlacedFits(p)' /\ "done" \notin Early /\ "done" \notin Blocking
      BY <1>1, <1>2, <3>1, PlaceFacts DEF StoreInv, PlaceInv, HoldsNothing, PlacedFits
    <3>3. StoreInv' /\ SameFiles
      BY <1>1, <1>2, <2>2, <3>1, <3>2, MoveStore
    <3>. QED
      BY <3>3, SameVersion
  <2>. QED
    BY <2>1, <2>2
<1>3a. \A v \in placed : StageOf(v) \in {"placed", "kept", "disowned"}
  BY PlaceFacts DEF StoreInv, PlaceInv, PlacedFits, StageOf, TypeOK
<1>4. CASE p \in Uploads
  <2>1. StageOf(p)' = StageOf(p) /\ (p \in placed => StageOf(p) \in {"kept", "disowned"})
    BY <1>1, <1>2, <1>4, StageStays
  <2>2. CASE InPlace' = InPlace
    BY <1>2, <1>3, <2>1, <2>2, Mapped
  <2>3. CASE InPlace' # InPlace
    <3>1. MayRevert(p) /\ InPlace = {p}
      BY <1>3, <2>3
    <3>2. record[p] # "completed"
      BY <1>4, <3>1 DEF MayRevert, StoreInv, PlaceInv, HoldsNothing
    <3>3. StageOf(p) = "disowned"
      BY <1>4, <2>1, <3>1, <3>2 DEF StageOf, Succeeded, MayRevert
    <3>. QED
      BY <1>2, <1>3, <1>3a, <2>1, <2>3, <3>1, <3>3, Mapped
  <2>. QED
    BY <2>2, <2>3
<1>5. CASE p \notin Uploads
  <2>1. /\ StageOf(p) = IF p \in placed THEN "placed" ELSE "open"
        /\ StageOf(p)' = IF p \in placed THEN "disowned" ELSE "dropped"
    BY <1>1, <1>2, <1>3, <1>5, StageNow, StageThen
  <2>2. MayRevert(p) => p \in placed
    BY DEF MayRevert
  <2>. QED
    BY <1>2, <1>3, <1>3a, <2>1, <2>2, Mapped
<1>. QED
  BY <1>4, <1>5

LEMMA UnpackStep ==
  ASSUME LeftAlone, LeftAlone', TypeOK, StoreInv, NEW p \in Swappers,
         Unpack(p, Broken(p)) \/ LookForSource(p)
  PROVE  StoreInv' /\ StoreStep
<1>1. PICK to \in {"look", "out", "in", Broken(p)} :
        Goto(p, to) /\ (to = "look" => at[p] = "unpack")
  BY DEF Unpack, LookForSource
<1>2. UNCHANGED <<up, src, old, placed, record>> /\ at[p] \in {"unpack", "look"}
  BY DEF Unpack, LookForSource
<1>. QED
  BY <1>1, <1>2, OpenStore, PlaceFacts DEF Broken, Future, Early

-----------------------------------------------------------------------------
LEMMA StepStore ==
  ASSUME LeftAlone', TypeOK, Unwritten => SwapInv /\ OnlyPlaced, LeftAlone => StoreInv, [Next]_vars
  PROVE  StoreInv' /\ StoreStep
<1>0. /\ LeftAlone /\ ~Crash /\ SwapInv /\ OnlyPlaced /\ StoreInv
      /\ \A p \in Processes : at'[p] = "new" => at[p] = "new"
  BY Begun DEF LeftAlone, Undisturbed
<1>. USE <1>0
<1>1. CASE UNCHANGED vars
  <2>1. StoreInv'
    BY <1>1 DEF vars, StoreInv, PlaceInv, HolderInv, RevertInv, LoneInv, HoldsNothing, PlacedFits,
                RecordFits, GivesUp, Holds, MayRevert, Overtaken
  <2>2. InPlace' = InPlace /\ stages' = stages
    BY <1>1 DEF vars, InPlace, stages, StageOf, Succeeded, Failed
  <2>. QED
    BY <2>1, <2>2, Stutters
<1>2. ASSUME NEW u \in Uploads, UploadBegin(u) \/ UploadStep(u)
      PROVE  StoreInv' /\ StoreStep
  <2>1. u \in Swappers /\ Broken(u) = "fail"
    BY VersionFacts DEF Broken
  <2>2. CASE UploadReceive(u)
    BY <2>1, <2>2, OpenStore, PlaceFacts DEF UploadReceive, Future, Early
  <2>3. CASE UploadBegin(u) \/ UploadCommit(u) \/ UploadTidy(u) \/ UploadJudge(u) \/ UploadDiscard(u)
    BY <2>3, BeginStore, CommitStore, FinallyStore, DiscardStore
  <2>4. CASE \/ Unpack(u, "fail") \/ LookForSource(u) \/ SwapOut(u, "fail") \/ SwapIn(u, "fail")
             \/ DropOld(u, "commit", "fail") \/ PutBack(u)
    BY <2>1, <2>4, UnpackStep, SwapOutStep, SwapInStep, DropOldStep, PutBackStep
  <2>. QED
    BY <1>2, <2>2, <2>3, <2>4 DEF UploadStep
<1>3. ASSUME NEW r \in Restores, RestoreBegin(r) \/ RestoreStep(r)
      PROVE  StoreInv' /\ StoreStep
  <2>1. r \in Swappers /\ r \notin Uploads /\ Broken(r) = "except"
    BY VersionFacts DEF Broken
  <2>2. CASE RestoreBegin(r) \/ RestoreExcept(r)
    BY <2>2, RestoreBeginStore, ExceptStore
  <2>3. CASE \/ Unpack(r, "except") \/ LookForSource(r) \/ SwapOut(r, "except")
             \/ SwapIn(r, "except") \/ DropOld(r, "restored", "except") \/ PutBack(r)
    BY <2>1, <2>3, UnpackStep, SwapOutStep, SwapInStep, DropOldStep, PutBackStep
  <2>. QED
    BY <1>3, <2>2, <2>3 DEF RestoreStep
<1>4. ASSUME NEW d \in Deploys, DeployMkdir(d) PROVE StoreInv' /\ StoreStep
  <2>1. d \in Processes /\ d \notin Swappers
    BY DisjointAssumption DEF Processes
  <2>2. /\ \E to : Goto(d, to)
        /\ UNCHANGED <<up, old, placed, record>>
        /\ src' = src \/ (Vacant(src) /\ Vacant(src)')
    BY <1>4 DEF DeployMkdir
  <2>. QED
    BY <2>1, <2>2, OutsideStore
<1>5. ASSUME NEW b \in Archives, ArchiveLook(b) \/ ArchiveAdd(b) PROVE StoreInv' /\ StoreStep
  <2>1. b \in Processes /\ b \notin Swappers
    BY DisjointAssumption DEF Processes
  <2>2. UNCHANGED <<up, src, old, placed, record>> /\ \E to : Goto(b, to)
    BY <1>5 DEF ArchiveLook, ArchiveAdd
  <2>. QED
    BY <2>1, <2>2, OutsideStore
(* Who writes in place has begun.                                            *)
<1>6. ASSUME NEW w \in Saves, SaveMkdir(w) \/ SaveWrite(w) PROVE FALSE
  <2>1. w \in Processes /\ \E to \in {"write", "done"} : Goto(w, to)
    BY <1>6 DEF SaveMkdir, SaveWrite, Processes
  <2>2. at'[w] # "new"
    BY <2>1, MovedFacts
  <2>. QED
    BY <2>2 DEF LeftAlone, Undisturbed, Unwritten
<1>7. ASSUME NEW d \in Builds, DeployGenerate(d) PROVE FALSE
  BY <1>7 DEF DeployGenerate, LeftAlone, Undisturbed, Unwritten
<1>8. ~Restart
  BY DEF Restart, StoreInv, PlaceInv
<1>9. ASSUME NEW p \in Processes, Step(p) PROVE StoreInv' /\ StoreStep
  BY <1>2, <1>3, <1>5, <1>6, <1>7, <1>9 DEF Step
<1>. QED
  BY <1>1, <1>2, <1>3, <1>4, <1>5, <1>6, <1>8, <1>9 DEF Next

LEMMA Disturbed == ~LeftAlone' => StoreStep
BY DEF StoreStep, Store!Next

(* The invariant that carries the refinement.                                *)
SwapsInv ==
  /\ TypeOK
  /\ Unwritten => SwapInv /\ OnlyPlaced
  /\ LeftAlone => StoreInv

LEMMA InitSwaps == Init => SwapsInv /\ Store!Init
<1>. SUFFICES ASSUME Init PROVE SwapsInv /\ Store!Init
  OBVIOUS
<1>1. InPlace = {Original}
  BY VersionFacts DEF Init, InPlace
<1>2. \A p \in Swappers : StageOf(p) = "idle"
  BY VersionFacts DEF Init, StageOf
<1>3. \A p \in Processes : at[p] = "new"
  BY DEF Init
<1>4. LeftAlone
  BY <1>3, DisjointAssumption DEF Init, LeftAlone, Undisturbed, Unwritten, FewSwaps, Processes, Swappers
<1>5. OnlyPlaced
  BY VersionFacts, DisjointAssumption DEF Init, OnlyPlaced
<1>6. Store!Init
  BY <1>1, <1>2, <1>4 DEF Store!Init, Store!Swappers, Swappers
<1>. QED
  BY <1>5, <1>6, InitTypes, InitSwap, InitStore DEF SwapsInv

LEMMA StepSwaps == SwapsInv /\ [Next]_vars => SwapsInv' /\ StoreStep
<1>. SUFFICES ASSUME SwapsInv, [Next]_vars PROVE SwapsInv' /\ StoreStep
  OBVIOUS
<1>1. TypeOK'
  BY StepTypes DEF SwapsInv
<1>2. Unwritten' => SwapInv' /\ OnlyPlaced'
  BY StepSwap, StepPlaced, Begun DEF SwapsInv
<1>3. LeftAlone' => StoreInv' /\ StoreStep
  BY StepStore DEF SwapsInv
<1>. QED
  BY <1>1, <1>2, <1>3, Disturbed DEF SwapsInv

(* Uploads alone, or an upload and a restore, or two restores, replace the   *)
(* source as the store does, whichever of their steps raise: the version in  *)
(* place changes in one step, at the last rename; one upload is under way at *)
(* a time; and a version that was placed goes only for another that is       *)
(* placed, or because what followed its placing failed.  From the first      *)
(* write in place, crash or third process on nothing is promised.            *)
THEOREM SwapsImplementTheStore == Spec => StoreRefined
<1>1. SwapsInv /\ [Next]_vars => SwapsInv' /\ [Store!Next]_(Store!vars)
  BY StepSwaps DEF StoreStep
<1>. QED
  BY <1>1, InitSwaps, PTL DEF Spec, StoreRefined, Store!Spec

-----------------------------------------------------------------------------
(* What the store promises at every moment, and so the swaps.                *)
StoreOne ==
  LeftAlone =>
    /\ stages \in [Swappers -> {"idle", "open", "placed", "kept", "dropped", "disowned"}]
    /\ \E v \in Versions \cup {Scraps} : InPlace = {v}
    /\ InPlace = {Scraps} => \E p \in Swappers : StageOf(p) = "disowned"
    /\ \A p \in Swappers : InPlace = {p} => StageOf(p) \in {"placed", "kept", "disowned"}

LEMMA InitOne == Store!Init => StoreOne
<1>. SUFFICES ASSUME Store!Init PROVE StoreOne
  OBVIOUS
<1>1. InPlace = {Original} /\ stages = [p \in Swappers |-> "idle"]
  BY DEF Store!Init, Store!Swappers, Swappers, stages
<1>. QED
  BY <1>1, DisjointAssumption DEF StoreOne, Versions

LEMMA StepOne == StoreOne /\ StoreStep => StoreOne'
<1>. SUFFICES ASSUME StoreOne, StoreStep, LeftAlone' PROVE StoreOne'
  BY DEF StoreOne
<1>1. /\ \A q \in Swappers : stages[q] = StageOf(q)
      /\ \A q \in Swappers : stages'[q] = StageOf(q)'
  BY DEF stages
<1>2. /\ Swappers \subseteq Versions /\ Original \in Versions /\ Scraps \notin Versions
      /\ Original \notin Swappers
  BY VersionFacts, DisjointAssumption
<1>3. CASE LeftAlone /\ InPlace' = InPlace /\ stages' = stages
  BY <1>1, <1>3 DEF StoreOne
<1>4. ASSUME LeftAlone, NEW p \in Swappers, NEW to \in {"open", "dropped", "kept", "disowned"},
             InPlace' = InPlace, stages' = [stages EXCEPT ![p] = to],
             stages[p] \in IF to \in {"kept", "disowned"} THEN {"placed"} ELSE {"idle", "open"}
      PROVE  StoreOne'
  BY <1>1, <1>4 DEF StoreOne
<1>5. ASSUME LeftAlone, NEW p \in Swappers, InPlace' = {p}, stages' = [stages EXCEPT ![p] = "placed"]
      PROVE  StoreOne'
  BY <1>1, <1>2, <1>5 DEF StoreOne
<1>6. ASSUME LeftAlone, NEW p \in Swappers, NEW v \in Versions \cup {Scraps}, InPlace' = {v},
             v \in Swappers => stages[v] \in {"placed", "kept", "disowned"},
             stages' = [stages EXCEPT ![p] = "disowned"]
      PROVE  StoreOne'
  BY <1>1, <1>2, <1>6 DEF StoreOne
<1>7. Store!Swappers = Swappers
  BY DEF Store!Swappers, Swappers
<1>8. ASSUME LeftAlone, NEW p \in Swappers,
             Store!Open(p) \/ Store!Refuse(p) \/ Store!Keep(p) \/ Store!Drop(p) \/ Store!Disown(p)
      PROVE  StoreOne'
  BY <1>4, <1>8 DEF Store!Open, Store!Refuse, Store!Keep, Store!Drop, Store!Disown, stages
<1>9. ASSUME LeftAlone, NEW p \in Swappers, Store!Place(p) PROVE StoreOne'
  BY <1>5, <1>9 DEF Store!Place, stages
<1>10. ASSUME LeftAlone, NEW p \in Swappers, Store!Revert(p) PROVE StoreOne'
  BY <1>2, <1>6, <1>7, <1>10 DEF Store!Revert, Store!Laid, stages, Versions
<1>11. CASE LeftAlone /\ \E p \in Store!Swappers : Store!Swap(p)
  BY <1>7, <1>8, <1>9, <1>10, <1>11 DEF Store!Swap
<1>12. CASE UNCHANGED (Store!vars)
  <2>1. /\ InPlace' = InPlace /\ stages' = stages
        /\ LeftAlone' = LeftAlone
    BY <1>12 DEF Store!vars, stages
  <2>. QED
    BY <1>3, <2>1
<1>. QED
  BY <1>11, <1>12 DEF StoreStep, Store!Next

(* The version in place is one whole version also while swaps are under way: *)
(* there is no moment at which it is lost or mixed with another.  Only after *)
(* a swap that failed past its last rename may it be what a failed removal   *)
(* has left of one.                                                          *)
THEOREM OneVersionInPlace ==
  Spec => [](LeftAlone =>
               \/ \E v \in Versions : InPlace = {v}
               \/ InPlace = {Scraps} /\ \E p \in Swappers : StageOf(p) = "disowned")
<1>1. StoreOne => (LeftAlone =>
                     \/ \E v \in Versions : InPlace = {v}
                     \/ InPlace = {Scraps} /\ \E p \in Swappers : StageOf(p) = "disowned")
  BY DEF StoreOne
<1>2. StoreOne /\ [Store!Next]_(Store!vars) => StoreOne'
  BY StepOne DEF StoreStep
<1>. QED
  BY <1>1, <1>2, InitOne, SwapsImplementTheStore, PTL DEF StoreRefined, Store!Spec

(* What was uploaded or restored is never in place before its last rename,   *)
(* nor ever if it fails before that.                                         *)
THEOREM DroppedAreNeverInPlace ==
  Spec => [](LeftAlone =>
               \A p \in Swappers : InPlace = {p} => StageOf(p) \in {"placed", "kept", "disowned"})
<1>1. StoreOne =>
        (LeftAlone =>
           \A p \in Swappers : InPlace = {p} => StageOf(p) \in {"placed", "kept", "disowned"})
  BY DEF StoreOne
<1>2. StoreOne /\ [Store!Next]_(Store!vars) => StoreOne'
  BY StepOne DEF StoreStep
<1>. QED
  BY <1>1, <1>2, InitOne, SwapsImplementTheStore, PTL DEF StoreRefined, Store!Spec

(* A version whose upload or restore has succeeded stays in place until the  *)
(* last rename of another: no failure of another brings an earlier one back. *)
KeptStays ==
  \A p \in Swappers :
    LeftAlone' /\ InPlace = {p} /\ StageOf(p) = "kept"
      => InPlace' = {p} \/ \E q \in Swappers : InPlace' = {q} /\ StageOf(q) = "open"
THEOREM KeptAreNeverUndone == Spec => [][KeptStays]_vars
<1>1. SwapsInv /\ StoreStep => KeptStays
  <2>. SUFFICES ASSUME StoreStep, NEW p \in Swappers, LeftAlone', InPlace = {p}, StageOf(p) = "kept"
                PROVE  InPlace' = {p} \/ \E q \in Swappers : InPlace' = {q} /\ StageOf(q) = "open"
    BY DEF KeptStays
  <2>1. \A q \in Swappers : stages[q] = StageOf(q)
    BY DEF stages
  <2>2. Store!Swappers = Swappers
    BY DEF Store!Swappers, Swappers
  <2>3. CASE UNCHANGED (Store!vars)
    BY <2>3 DEF Store!vars
  <2>4. CASE \E q \in Store!Swappers : Store!Swap(q)
    BY <2>1, <2>2, <2>4
       DEF Store!Swap, Store!Open, Store!Refuse, Store!Keep, Store!Drop, Store!Disown, Store!Place,
           Store!Revert, stages
  <2>. QED
    BY <2>3, <2>4 DEF StoreStep, Store!Next
<1>2. SwapsInv /\ [Next]_vars => SwapsInv' /\ KeptStays
  BY <1>1, StepSwaps
<1>. QED
  BY <1>2, InitSwaps, PTL DEF Spec
=============================================================================
