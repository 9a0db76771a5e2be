---------------------------- MODULE BackupsProofs ----------------------------
(***************************************************************************)
(* Proofs about Backups, for any number of manual and scheduled backups,    *)
(* deletes, retentions and crashes.  The types and the owners of the         *)
(* archives are proved whatever the clock does; what completed backups and   *)
(* retention promise, for backups that begin in seconds of their own.        *)
(***************************************************************************)
EXTENDS Backups, FiniteSetTheorems, WellFoundedInduction, TLAPS

-----------------------------------------------------------------------------
(* Types.                                                                    *)

Statuses == {"none", "creating", "completed", "failed", "deleted"}
Errors == {"none", "dump", "archive", "size", "telegram"}
Places == Resting \cup Steps

RowTypes ==
  /\ made \in 0 .. MaxRows
  /\ status \in [Ids -> Statuses]
  /\ error \in [Ids -> Errors]
  /\ path \in [Ids -> Ids]
FileTypes ==
  /\ disk \in [Ids -> Creators \cup {None}]
  /\ content \in [Creators -> SUBSET Creators]
  /\ file \in [Creators -> Creators \cup {None}]
PlaceTypes == at \in [Processes -> Places] /\ mine \in [Processes -> 0 .. MaxRows]
OutcomeTypes == outcome \in [Creators -> {"creating", "completed", "failed"} \X Errors]
RetentionTypes == doomed \in [Runs -> SUBSET Ids] /\ left \in [Runs -> SUBSET Ids]
PanelTypes == up \in BOOLEAN /\ crashes \in 0 .. MaxCrashes

(* A process that has begun has a row.                                       *)
Begun == \A p \in Processes : at[p] # "new" => mine[p] \in Ids

TypeInv ==
  /\ PanelTypes
  /\ RowTypes
  /\ FileTypes
  /\ PlaceTypes
  /\ OutcomeTypes
  /\ RetentionTypes
  /\ Begun

LEMMA TypeInvImplies == TypeInv => TypeOK
BY Zenon DEF TypeInv, TypeOK, PanelTypes, RowTypes, FileTypes, PlaceTypes, OutcomeTypes, RetentionTypes,
   Statuses, Errors, Places

LEMMA ProcessFacts ==
  /\ Creators \subseteq Processes /\ Runs \subseteq Creators /\ Deletes \subseteq Processes
  /\ Creators \cap Deletes = {} /\ None \notin Creators
  /\ MaxRows \in Nat /\ MaxCrashes \in Nat /\ 0 \notin Ids /\ Ids \subseteq 0 .. MaxRows
  /\ Ids \subseteq Nat /\ IsFiniteSet(Ids)
  /\ \A p \in Runs : Keep[p] \in Nat \ {0}
<1>1. IsFiniteSet(Ids)
  BY BoundsAssumption, FS_Interval DEF Ids
<1>. QED
  BY <1>1, ProcessAssumption, BoundsAssumption, RetentionAssumption DEF Processes, Creators, Ids

(* A process moves; all moves keep what it has.                              *)
LEMMA GotoTypes ==
  ASSUME TypeInv, NEW p \in Processes, at[p] # "new", NEW to \in Places, Goto(p, to), UNCHANGED mine
  PROVE  PlaceTypes' /\ Begun'
BY DEF Goto, TypeInv, PlaceTypes, Begun

LEMMA UnlinkTypes ==
  ASSUME TypeInv, NEW t, Unlink(t), UNCHANGED <<content, file>>
  PROVE  FileTypes'
BY DEF Unlink, TypeInv, FileTypes

LEMMA RaiseTypes ==
  ASSUME TypeInv, NEW p \in Creators, NEW reason \in Errors, Raise(p, reason),
         at[p] # "new", UNCHANGED mine
  PROVE  PlaceTypes' /\ Begun' /\ OutcomeTypes'
<1>1. PlaceTypes' /\ Begun'
  BY GotoTypes, ProcessFacts DEF Raise, Places, Steps
<1>2. OutcomeTypes'
  BY DEF Raise, TypeInv, OutcomeTypes
<1>. QED
  BY <1>1, <1>2

LEMMA CompleteTypes ==
  ASSUME TypeInv, NEW p \in Creators, Complete(p), at[p] # "new", UNCHANGED mine
  PROVE  PlaceTypes' /\ Begun' /\ OutcomeTypes'
<1>1. PlaceTypes' /\ Begun'
  BY GotoTypes, ProcessFacts DEF Complete, Places, Steps
<1>2. OutcomeTypes'
  BY DEF Complete, TypeInv, OutcomeTypes, Errors
<1>. QED
  BY <1>1, <1>2

LEMMA InitTypes == Init => TypeInv
<1>. SUFFICES ASSUME Init PROVE TypeInv
  OBVIOUS
<1>1. up \in BOOLEAN
  BY Zenon DEF Init
<1>. QED
  BY <1>1, ProcessFacts DEF Init, TypeInv, PanelTypes, RowTypes, FileTypes, PlaceTypes, OutcomeTypes,
     RetentionTypes, Begun, Statuses, Errors, Places, Resting

LEMMA InsertTypes ==
  ASSUME TypeInv, NEW p \in Creators, Insert(p)
  PROVE  TypeInv'
<1>1. p \in Processes /\ made + 1 \in Ids /\ made + 1 \in 0 .. MaxRows
  BY ProcessFacts DEF Insert, TypeInv, RowTypes, Ids
<1>2. PICK t \in Paths(made + 1) : path' = [path EXCEPT ![made + 1] = t]
  BY DEF Insert
<1>3. t \in Ids
  <2>1. made + 1 > 1 => path[(made + 1) - 1] \in Ids
    BY <1>1, ProcessFacts DEF TypeInv, RowTypes, Ids
  <2>. QED
    BY <1>1, <1>2, <2>1 DEF Paths
<1>4. RowTypes'
  BY <1>1, <1>2, <1>3 DEF Insert, TypeInv, RowTypes, Statuses
<1>5. PlaceTypes' /\ Begun'
  BY <1>1 DEF Insert, Move, Goto, TypeInv, PlaceTypes, Begun, Places, Steps
<1>. QED
  BY <1>4, <1>5 DEF Insert, TypeInv, PanelTypes, FileTypes, OutcomeTypes, RetentionTypes, files, retention

LEMMA CreateTypes ==
  ASSUME TypeInv, NEW p \in Creators, CreateStep(p)
  PROVE  TypeInv'
<1>0. p \in Processes /\ at[p] \in {"open", "write", "stat", "send", "except", "commit"} /\ mine[p] \in Ids
  BY ProcessFacts DEF CreateStep, Open, Write, Stat, Send, Except, Commit, Move, TypeInv, Begun
<1>. USE DEF table, files, retention
<1>1. CASE Open(p)
  <2>. DEFINE f == IF disk[PathOf(p)] = None THEN p ELSE disk[PathOf(p)]
  <2>1. f \in Creators
    BY <1>0 DEF PathOf, TypeInv, RowTypes, FileTypes
  <2>2. CASE /\ disk' = [disk EXCEPT ![PathOf(p)] = f] /\ content' = [content EXCEPT ![f] = {}]
             /\ file' = [file EXCEPT ![p] = f] /\ Goto(p, "write") /\ UNCHANGED outcome
    <3>. HIDE DEF f
    <3>1. FileTypes'
      BY <2>1, <2>2 DEF TypeInv, FileTypes
    <3>2. PlaceTypes' /\ Begun'
      BY <1>0, <1>1, <2>2, GotoTypes DEF Open, Places, Steps
    <3>. QED
      BY <1>1, <2>2, <3>1, <3>2 DEF Open, TypeInv, PanelTypes, RowTypes, OutcomeTypes, RetentionTypes
  <2>3. CASE Raise(p, "dump") /\ UNCHANGED files
    BY <1>0, <1>1, <2>3, RaiseTypes DEF Open, TypeInv, PanelTypes, RowTypes, FileTypes, RetentionTypes, Errors
  <2>. QED
    BY <1>1, <2>2, <2>3 DEF Open
<1>2. CASE Write(p)
  <2>1. CASE /\ content' = [content EXCEPT ![file[p]] = @ \cup {p}]
             /\ Goto(p, "stat") /\ UNCHANGED outcome
    <3>1. FileTypes'
      BY <1>2, <2>1 DEF Write, TypeInv, FileTypes
    <3>2. PlaceTypes' /\ Begun'
      BY <1>0, <1>2, <2>1, GotoTypes DEF Write, Places, Steps
    <3>. QED
      BY <1>2, <2>1, <3>1, <3>2 DEF Write, TypeInv, PanelTypes, RowTypes, OutcomeTypes, RetentionTypes
  <2>2. CASE Raise(p, "archive") /\ UNCHANGED content
    BY <1>0, <1>2, <2>2, RaiseTypes DEF Write, TypeInv, PanelTypes, RowTypes, FileTypes, RetentionTypes, Errors
  <2>. QED
    BY <1>2, <2>1, <2>2 DEF Write
<1>3. CASE Stat(p) \/ Send(p)
  <2>1. PlaceTypes' /\ Begun' /\ OutcomeTypes'
    <3>1. CASE \E reason \in Errors : Raise(p, reason)
      BY <1>0, <1>3, <3>1, RaiseTypes DEF Stat, Send
    <3>2. CASE Complete(p)
      BY <1>0, <1>3, <3>2, CompleteTypes DEF Stat, Send
    <3>3. CASE Goto(p, "send") /\ UNCHANGED outcome
      BY <1>0, <1>3, <3>3, GotoTypes DEF Stat, Send, TypeInv, OutcomeTypes, Places, Steps
    <3>. QED
      BY <1>3, <3>1, <3>2, <3>3 DEF Stat, Send, Errors
  <2>. QED
    BY <1>3, <2>1 DEF Stat, Send, TypeInv, PanelTypes, RowTypes, FileTypes, RetentionTypes
<1>4. CASE Except(p)
  <2>1. PlaceTypes' /\ Begun' /\ FileTypes'
    BY <1>0, <1>4, GotoTypes, UnlinkTypes DEF Except, Move, Places, Steps
  <2>. QED
    BY <1>4, <2>1 DEF Except, TypeInv, PanelTypes, RowTypes, OutcomeTypes, RetentionTypes
<1>5. CASE Commit(p)
  <2>1. outcome[p][1] \in Statuses /\ outcome[p][2] \in Errors
    BY DEF TypeInv, OutcomeTypes, Statuses, Errors
  <2>2. RowTypes'
    BY <1>5, <2>1 DEF Commit, TypeInv, RowTypes
  <2>3. PlaceTypes' /\ Begun'
    BY <1>0, <1>5, GotoTypes DEF Commit, Places, Steps, Resting
  <2>. QED
    BY <1>5, <2>2, <2>3 DEF Commit, TypeInv, PanelTypes, FileTypes, OutcomeTypes, RetentionTypes
<1>. QED
  BY <1>1, <1>2, <1>3, <1>4, <1>5 DEF CreateStep

LEMMA RetentionStepTypes ==
  ASSUME TypeInv, NEW p \in Runs, RetentionStep(p)
  PROVE  TypeInv'
<1>0. p \in Processes /\ at[p] \in {"list", "prune"}
  BY ProcessFacts DEF RetentionStep, List, Prune, Purge, Move
<1>. USE DEF table, files, retention
<1>1. CASE List(p)
  <2>1. PlaceTypes' /\ Begun'
    BY <1>0, <1>1, GotoTypes DEF List, Move, Places, Steps, Resting
  <2>2. RetentionTypes'
    BY <1>1 DEF List, TypeInv, RetentionTypes, Beyond, Completed
  <2>. QED
    BY <1>1, <2>1, <2>2 DEF List, TypeInv, PanelTypes, RowTypes, FileTypes, OutcomeTypes
<1>2. CASE Prune(p)
  <2>1. FileTypes' /\ RetentionTypes'
    BY <1>2, UnlinkTypes DEF Prune, TypeInv, RetentionTypes
  <2>. QED
    BY <1>2, <2>1 DEF Prune, TypeInv, PanelTypes, RowTypes, PlaceTypes, Begun, OutcomeTypes
<1>3. CASE Purge(p)
  <2>1. RowTypes'
    BY <1>3 DEF Purge, TypeInv, RowTypes, Statuses
  <2>2. PlaceTypes' /\ Begun'
    BY <1>0, <1>3, GotoTypes DEF Purge, Move, Places, Resting
  <2>. QED
    BY <1>3, <2>1, <2>2 DEF Purge, TypeInv, PanelTypes, FileTypes, OutcomeTypes, RetentionTypes
<1>. QED
  BY <1>1, <1>2, <1>3 DEF RetentionStep

LEMMA DeleteTypes ==
  ASSUME TypeInv, NEW x \in Deletes, DeleteLook(x) \/ DeleteStep(x)
  PROVE  TypeInv'
<1>0. x \in Processes
  BY ProcessFacts
<1>. USE DEF table, files, retention
<1>1. CASE DeleteLook(x)
  <2>1. PICK d \in Ids : mine' = [mine EXCEPT ![x] = d]
    BY <1>1 DEF DeleteLook
  <2>2. PlaceTypes' /\ Begun'
    BY <1>0, <1>1, <2>1, ProcessFacts DEF DeleteLook, Move, Goto, TypeInv, PlaceTypes, Begun, Places, Steps
  <2>. QED
    BY <1>1, <2>2 DEF DeleteLook, TypeInv, PanelTypes, RowTypes, FileTypes, OutcomeTypes, RetentionTypes
<1>2. CASE DeleteUnlink(x)
  <2>1. PlaceTypes' /\ Begun' /\ FileTypes'
    BY <1>0, <1>2, GotoTypes, UnlinkTypes DEF DeleteUnlink, Move, Places, Steps
  <2>. QED
    BY <1>2, <2>1 DEF DeleteUnlink, TypeInv, PanelTypes, RowTypes, OutcomeTypes, RetentionTypes
<1>3. CASE DeleteCommit(x)
  <2>1. PlaceTypes' /\ Begun' /\ RowTypes'
    BY <1>0, <1>3, GotoTypes DEF DeleteCommit, Move, Places, Resting, TypeInv, RowTypes, Statuses
  <2>. QED
    BY <1>3, <2>1 DEF DeleteCommit, TypeInv, PanelTypes, FileTypes, OutcomeTypes, RetentionTypes
<1>. QED
  BY <1>1, <1>2, <1>3 DEF DeleteStep

LEMMA StepTypes == TypeInv /\ [Next]_vars => TypeInv'
<1>. SUFFICES ASSUME TypeInv, [Next]_vars PROVE TypeInv'
  OBVIOUS
<1>. USE DEF table, files, retention
<1>1. CASE UNCHANGED vars
  BY <1>1 DEF vars, TypeInv, PanelTypes, RowTypes, FileTypes, PlaceTypes, OutcomeTypes, RetentionTypes, Begun
<1>2. CASE Crash
  <2>1. PlaceTypes' /\ Begun'
    BY <1>2 DEF Crash, TypeInv, PlaceTypes, Begun, Places, Resting
  <2>2. up' \in BOOLEAN
    BY <1>2, Zenon DEF Crash
  <2>3. crashes' \in 0 .. MaxCrashes
    BY <1>2, ProcessFacts DEF Crash, TypeInv, PanelTypes
  <2>. QED
    BY <1>2, <2>1, <2>2, <2>3 DEF Crash, TypeInv, PanelTypes, RowTypes, FileTypes, OutcomeTypes, RetentionTypes
<1>3. CASE Restart
  <2>1. up' \in BOOLEAN
    BY <1>3, Zenon DEF Restart
  <2>. QED
    BY <1>3, <2>1 DEF Restart, TypeInv, PanelTypes, RowTypes, FileTypes, PlaceTypes, OutcomeTypes,
       RetentionTypes, Begun
<1>. QED
  BY <1>1, <1>2, <1>3, InsertTypes, CreateTypes, RetentionStepTypes, DeleteTypes DEF Next

LEMMA TypesHold == Spec => []TypeInv
<1>. QED
  BY InitTypes, StepTypes, PTL DEF Spec

(* Rows, archives, processes and retentions keep their types.                *)
THEOREM TypeCorrect == Spec => []TypeOK
<1>. QED
  BY TypesHold, TypeInvImplies, PTL

-----------------------------------------------------------------------------
(* Rows and their creators.                                                  *)

OwnSeconds == ~SameSecond

Creating == {"open", "write", "stat", "send", "except", "commit"}

PathIsOwn == OwnSeconds => \A d \in Ids : path[d] = d
RowsMade == \A d \in Ids : status[d] = "none" <=> d > made
HasRow == \A p \in Processes : at[p] # "new" => mine[p] <= made
OwnRows ==
  \A p, q \in Creators : (at[p] # "new" /\ at[q] # "new" /\ mine[p] = mine[q]) => p = q
Unfinished == \A p \in Creators : at[p] \in Creating => status[mine[p]] \in {"creating", "deleted"}
OutcomeKnown ==
  \A p \in Creators :
    /\ at[p] = "except" => outcome[p][1] = "failed"
    /\ at[p] = "commit" => outcome[p][1] \in {"completed", "failed"}

RowInv == PathIsOwn /\ RowsMade /\ HasRow /\ OwnRows /\ Unfinished /\ OutcomeKnown

LEMMA InitRows == Init => RowInv
<1>. SUFFICES ASSUME Init PROVE RowInv
  OBVIOUS
<1>. QED
  BY ProcessFacts DEF Init, RowInv, PathIsOwn, RowsMade, HasRow, OwnRows, Unfinished, OutcomeKnown,
     Creating, Ids

LEMMA InsertRows ==
  ASSUME TypeInv, RowInv, NEW p \in Creators, Insert(p)
  PROVE  RowInv'
<1>. USE DEF RowInv, TypeInv
<1>1. p \in Processes /\ made \in Nat /\ made + 1 \in Ids
  BY ProcessFacts DEF Insert, RowTypes, Ids
<1>2. OwnSeconds => path' = [path EXCEPT ![made + 1] = made + 1]
  BY DEF Insert, Paths, OwnSeconds
<1>3. PathIsOwn'
  BY <1>2 DEF PathIsOwn, RowTypes
<1>4. RowsMade'
  BY <1>1 DEF Insert, RowsMade, RowTypes, Ids
<1>5. HasRow'
  BY <1>1, ProcessFacts DEF Insert, Move, Goto, HasRow, PlaceTypes
<1>6. OwnRows'
  BY <1>1, ProcessFacts DEF Insert, Move, Goto, HasRow, OwnRows, PlaceTypes
<1>7. Unfinished'
  BY <1>1, ProcessFacts DEF Insert, Move, Goto, HasRow, Unfinished, PlaceTypes, RowTypes, Begun, Creating
<1>8. OutcomeKnown'
  BY <1>1 DEF Insert, Move, Goto, OutcomeKnown, PlaceTypes
<1>. QED
  BY <1>3, <1>4, <1>5, <1>6, <1>7, <1>8

(* Steps of a process that has begun which leave the table alone.            *)
LEMMA MoveRows ==
  ASSUME TypeInv, RowInv, NEW p \in Processes, at[p] # "new", NEW to \in Places, to # "new",
         Goto(p, to), UNCHANGED <<made, status, path, mine>>,
         to \in Creating => (p \notin Creators \/ at[p] \in Creating),
         \A q \in Creators : q # p => outcome'[q] = outcome[q],
         p \in Creators => /\ to = "except" => outcome'[p][1] = "failed"
                           /\ to = "commit" => outcome'[p][1] \in {"completed", "failed"}
  PROVE  RowInv'
<1>. USE DEF RowInv, TypeInv
<1>1. PathIsOwn' /\ RowsMade'
  BY DEF PathIsOwn, RowsMade
<1>2. HasRow' /\ OwnRows'
  BY ProcessFacts DEF Goto, HasRow, OwnRows, PlaceTypes
<1>3. Unfinished'
  BY ProcessFacts DEF Goto, Unfinished, PlaceTypes
<1>4. OutcomeKnown'
  BY ProcessFacts DEF Goto, OutcomeKnown, PlaceTypes
<1>. QED
  BY <1>1, <1>2, <1>3, <1>4

LEMMA CreateRows ==
  ASSUME TypeInv, RowInv, NEW p \in Creators, CreateStep(p)
  PROVE  RowInv'
<1>. USE DEF table, files, retention
<1>0. p \in Processes /\ at[p] \in Creating
  BY ProcessFacts DEF CreateStep, Open, Write, Stat, Send, Except, Commit, Move, Creating
<1>1. CASE \E reason \in Errors : Raise(p, reason) /\ UNCHANGED <<made, status, path, mine>>
  BY <1>0, <1>1, MoveRows DEF Raise, TypeInv, OutcomeTypes, Places, Steps, Creating
<1>2. CASE Complete(p) /\ UNCHANGED <<made, status, path, mine>>
  BY <1>0, <1>2, MoveRows DEF Complete, TypeInv, OutcomeTypes, Places, Steps, Creating
<1>3. CASE \E to \in {"write", "stat", "send"} :
             Goto(p, to) /\ UNCHANGED <<made, status, path, mine, outcome>>
  BY <1>0, <1>3, MoveRows DEF Places, Steps, Creating
<1>4. CASE Except(p)
  BY <1>0, <1>4, MoveRows DEF Except, Move, Places, Steps, Creating, RowInv, OutcomeKnown
<1>5. CASE Commit(p)
  <2>1. CASE Live(mine[p])
    <3>. USE DEF RowInv, TypeInv
    <3>1. PathIsOwn' /\ HasRow' /\ OwnRows'
      BY <1>0, <1>5, <2>1, ProcessFacts DEF Commit, Goto, PathIsOwn, HasRow, OwnRows, PlaceTypes, Creating
    <3>2. outcome[p][1] \in {"completed", "failed"} /\ mine[p] \in Ids
      BY <1>0, <1>5 DEF Commit, OutcomeKnown, Begun, Creating
    <3>3. RowsMade'
      BY <1>5, <2>1, <3>2 DEF Commit, RowsMade, Live, RowTypes
    <3>4. OutcomeKnown'
      BY <1>0, <1>5, <2>1, ProcessFacts DEF Commit, Goto, OutcomeKnown, PlaceTypes
    <3>5. Unfinished'
      <4>. SUFFICES ASSUME NEW q \in Creators, at'[q] \in Creating
                    PROVE  status'[mine[q]] \in {"creating", "deleted"}
        BY <1>5 DEF Commit, Unfinished
      <4>1. q # p /\ at[q] \in Creating /\ at[q] # "new"
        BY <1>0, <1>5, <2>1, ProcessFacts DEF Commit, Goto, PlaceTypes, Creating
      <4>2. mine[q] # mine[p] /\ mine[q] \in Ids
        BY <1>0, <4>1, ProcessFacts DEF OwnRows, Begun, Creating
      <4>. QED
        BY <1>5, <2>1, <3>2, <4>1, <4>2 DEF Commit, Unfinished, RowTypes
    <3>. QED
      BY <3>1, <3>3, <3>4, <3>5
  <2>2. CASE ~Live(mine[p])
    BY <1>0, <1>5, <2>2, MoveRows DEF Commit, Places, Resting, Creating
  <2>. QED
    BY <2>1, <2>2
<1>. QED
  BY <1>1, <1>2, <1>3, <1>4, <1>5 DEF CreateStep, Open, Write, Stat, Send, Errors

(* Rows are deleted.                                                         *)
LEMMA DeletedRows ==
  ASSUME TypeInv, RowInv, NEW gone \in SUBSET Ids, \A d \in gone : d <= made,
         status' = [d \in Ids |-> IF d \in gone THEN "deleted" ELSE status[d]],
         NEW p \in Processes, at[p] \notin Creating \cup {"new"}, Goto(p, "done"),
         UNCHANGED <<made, path, mine, outcome>>
  PROVE  RowInv'
<1>. USE DEF RowInv, TypeInv
<1>1. PathIsOwn' /\ HasRow' /\ OwnRows' /\ OutcomeKnown'
  BY ProcessFacts DEF Goto, PathIsOwn, HasRow, OwnRows, OutcomeKnown, PlaceTypes
<1>2. RowsMade'
  BY DEF RowsMade, RowTypes, Ids
<1>3. Unfinished'
  BY ProcessFacts DEF Goto, Unfinished, PlaceTypes, Begun, Creating
<1>. QED
  BY <1>1, <1>2, <1>3

-----------------------------------------------------------------------------
(* What a run's retention removes.                                           *)

(* Nobody makes the archive of d any more.                                   *)
Settled(d) ==
  /\ status[d] \in {"completed", "deleted"}
  /\ \A p \in Creators : at[p] \in Creating => mine[p] # d

DoomInv ==
  \A r \in Runs : at[r] = "prune" =>
    /\ left[r] \subseteq doomed[r]
    /\ \A d \in doomed[r] : Settled(d) /\ ((OwnSeconds /\ d \notin left[r]) => disk[d] = None)

LEMMA SettledInsert ==
  ASSUME TypeInv, RowInv, NEW p \in Creators, Insert(p), NEW d \in Ids, Settled(d)
  PROVE  Settled(d)' /\ disk'[d] = disk[d]
<1>1. d # made + 1 /\ p \in Processes
  BY ProcessFacts DEF Settled, RowInv, RowsMade, Ids, TypeInv, RowTypes
<1>. QED
  BY <1>1, ProcessFacts
  DEF Insert, files, Move, Goto, Settled, TypeInv, RowTypes, PlaceTypes, Creating

LEMMA SettledCreate ==
  ASSUME TypeInv, RowInv, NEW p \in Creators, CreateStep(p), NEW d \in Ids, Settled(d)
  PROVE  Settled(d)' /\ (OwnSeconds => disk'[d] \in {disk[d], None})
<1>1. /\ p \in Processes /\ at[p] \in Creating /\ mine[p] \in Ids /\ mine[p] # d
      /\ OwnSeconds => PathOf(p) = mine[p]
  BY ProcessFacts
  DEF CreateStep, Open, Write, Stat, Send, Except, Commit, Move, Creating, Settled, TypeInv, Begun, PathOf,
      RowInv, PathIsOwn
<1>2. status'[d] = status[d] /\ (OwnSeconds => disk'[d] \in {disk[d], None})
  BY <1>1 DEF CreateStep, Open, Write, Stat, Send, Except, Commit, Raise, Unlink, table, files,
     TypeInv, RowTypes, FileTypes
<1>3. mine' = mine /\ \A q \in Processes : at'[q] = at[q] \/ q = p
  BY <1>1 DEF CreateStep, Open, Write, Stat, Send, Except, Commit, Raise, Complete, Move, Goto,
     TypeInv, PlaceTypes
<1>. QED
  BY <1>1, <1>2, <1>3, ProcessFacts DEF Settled

(* Steps of processes that are not creating anything.                        *)
LEMMA SettledOther ==
  ASSUME TypeInv, NEW d \in Ids, Settled(d), NEW p \in Processes, p \notin Creators \/ at[p] \notin Creating,
         NEW to \in Places \ Creating, Goto(p, to), \A q \in Creators : mine'[q] = mine[q],
         status'[d] \in {status[d], "deleted"}
  PROVE  Settled(d)'
BY ProcessFacts DEF Settled, Goto, TypeInv, PlaceTypes

LEMMA DoomKept ==
  ASSUME TypeInv, DoomInv, UNCHANGED retention, \A r \in Runs : at'[r] = "prune" => at[r] = "prune",
         \A d \in Ids : Settled(d) => Settled(d)' /\ (OwnSeconds => disk'[d] \in {disk[d], None})
  PROVE  DoomInv'
BY DEF DoomInv, retention, TypeInv, RetentionTypes

LEMMA RetentionDoom ==
  ASSUME TypeInv, RowInv, DoomInv, NEW p \in Runs, RetentionStep(p)
  PROVE  DoomInv'
<1>. USE DEF table, files, retention
<1>0. p \in Processes /\ p \in Creators /\ at[p] \in {"list", "prune"}
  BY ProcessFacts DEF RetentionStep, List, Prune, Purge, Move
<1>1. CASE List(p)
  <2>1. ASSUME NEW d \in Ids, Settled(d) PROVE Settled(d)' /\ disk'[d] = disk[d]
    BY <1>0, <1>1, <2>1, SettledOther DEF List, Move, Places, Steps, Resting, Creating
  <2>2. CASE /\ Move(p, "list", "prune") /\ doomed' = [doomed EXCEPT ![p] = Beyond(Keep[p])]
             /\ left' = [left EXCEPT ![p] = Beyond(Keep[p])]
    <3>1. \A d \in Beyond(Keep[p]) : d \in Ids /\ Settled(d)
      BY DEF Beyond, Completed, Settled, RowInv, Unfinished
    <3>2. doomed'[p] = Beyond(Keep[p]) /\ left'[p] = Beyond(Keep[p])
      BY <2>2 DEF TypeInv, RetentionTypes
    <3>3. \A r \in Runs : r # p => at'[r] = at[r] /\ doomed'[r] = doomed[r] /\ left'[r] = left[r]
      BY <1>0, <2>2, ProcessFacts DEF Move, Goto, TypeInv, PlaceTypes, RetentionTypes
    <3>4. \A r \in Runs : doomed[r] \in SUBSET Ids
      BY DEF TypeInv, RetentionTypes
    <3>. QED
      BY <2>1, <3>1, <3>2, <3>3, <3>4 DEF DoomInv
  <2>3. CASE Move(p, "list", "done") /\ UNCHANGED retention
    BY <1>0, <2>1, <2>3, DoomKept, ProcessFacts DEF Move, Goto, TypeInv, PlaceTypes
  <2>. QED
    BY <1>1, <2>2, <2>3 DEF List
<1>2. CASE Prune(p)
  <2>1. PICK d \in left[p] : Unlink(path[d]) /\ left' = [left EXCEPT ![p] = @ \ {d}]
    BY <1>2 DEF Prune
  <2>2. d \in Ids /\ (OwnSeconds => path[d] = d)
    BY <2>1 DEF TypeInv, RetentionTypes, RowInv, PathIsOwn
  <2>3. OwnSeconds => \A e \in Ids : disk'[e] = IF e = d THEN None ELSE disk[e]
    BY <2>1, <2>2 DEF Unlink, TypeInv, FileTypes
  <2>4. \A e \in Ids : Settled(e) => Settled(e)'
    BY <1>2 DEF Prune, Settled
  <2>5. \A r \in Runs : doomed'[r] = doomed[r] /\ at'[r] = at[r] /\ doomed[r] \subseteq Ids
                         /\ left'[r] = IF r = p THEN left[r] \ {d} ELSE left[r]
    BY <1>2, <2>1 DEF Prune, TypeInv, RetentionTypes
  <2>. QED
    BY <2>3, <2>4, <2>5 DEF DoomInv
<1>3. CASE Purge(p)
  <2>1. ASSUME NEW d \in Ids, Settled(d) PROVE Settled(d)' /\ disk'[d] = disk[d]
    BY <1>0, <1>3, <2>1, SettledOther DEF Purge, Move, Places, Steps, Resting, Creating
  <2>. QED
    BY <1>0, <1>3, <2>1, DoomKept, ProcessFacts DEF Purge, Move, Goto, TypeInv, PlaceTypes
<1>. QED
  BY <1>1, <1>2, <1>3 DEF RetentionStep

LEMMA RetentionRows ==
  ASSUME TypeInv, RowInv, DoomInv, NEW p \in Runs, RetentionStep(p)
  PROVE  RowInv'
<1>. USE DEF table, files, retention
<1>0. p \in Processes /\ at[p] \in {"list", "prune"}
  BY ProcessFacts DEF RetentionStep, List, Prune, Purge, Move
<1>1. CASE List(p)
  BY <1>0, <1>1, MoveRows DEF List, Move, Places, Steps, Resting, Creating
<1>2. CASE Prune(p)
  BY <1>2 DEF Prune, RowInv, PathIsOwn, RowsMade, HasRow, OwnRows, Unfinished, OutcomeKnown
<1>3. CASE Purge(p)
  <2>1. \A d \in doomed[p] : d \in Ids /\ d <= made
    BY <1>0, <1>3, ProcessFacts DEF Purge, Move, DoomInv, Settled, RowInv, RowsMade, TypeInv, RetentionTypes, RowTypes
  <2>. QED
    BY <1>0, <1>3, <2>1, DeletedRows DEF Purge, Move, Creating
<1>. QED
  BY <1>1, <1>2, <1>3 DEF RetentionStep

LEMMA DeleteRows ==
  ASSUME TypeInv, RowInv, NEW x \in Deletes, DeleteLook(x) \/ DeleteStep(x)
  PROVE  RowInv'
<1>. USE DEF table, files, retention
<1>0. x \in Processes /\ x \notin Creators
  BY ProcessFacts
<1>1. CASE DeleteLook(x)
  <2>1. PICK d \in Ids : Live(d) /\ mine' = [mine EXCEPT ![x] = d]
    BY <1>1 DEF DeleteLook
  <2>2. d <= made
    BY <2>1, ProcessFacts DEF Live, RowInv, RowsMade, TypeInv, RowTypes
  <2>3. \A q \in Processes : q # x => at'[q] = at[q] /\ mine'[q] = mine[q]
    BY <1>0, <1>1, <2>1 DEF DeleteLook, Move, Goto, TypeInv, PlaceTypes
  <2>4. mine'[x] = d
    BY <1>0, <2>1 DEF TypeInv, PlaceTypes
  <2>. QED
    BY <1>0, <1>1, <2>2, <2>3, <2>4, ProcessFacts
    DEF DeleteLook, RowInv, PathIsOwn, RowsMade, HasRow, OwnRows, Unfinished, OutcomeKnown
<1>2. CASE DeleteUnlink(x)
  BY <1>0, <1>2, MoveRows DEF DeleteUnlink, Move, Places, Steps, Creating
<1>3. CASE DeleteCommit(x)
  <2>1. mine[x] \in Ids /\ mine[x] <= made
    BY <1>0, <1>3 DEF DeleteCommit, Move, RowInv, HasRow, TypeInv, Begun
  <2>2. status' = [d \in Ids |-> IF d \in {mine[x]} THEN "deleted" ELSE status[d]]
    BY <1>3, <2>1 DEF DeleteCommit, TypeInv, RowTypes
  <2>3. \A d \in {mine[x]} : d <= made
    BY <2>1
  <2>4. {mine[x]} \in SUBSET Ids
    BY <2>1
  <2>. QED
    BY <1>0, <1>3, <2>2, <2>3, <2>4, DeletedRows DEF DeleteCommit, Move, Creating
<1>. QED
  BY <1>1, <1>2, <1>3 DEF DeleteStep

LEMMA DeleteDoom ==
  ASSUME TypeInv, RowInv, DoomInv, NEW x \in Deletes, DeleteLook(x) \/ DeleteStep(x)
  PROVE  DoomInv'
<1>. USE DEF table, files, retention
<1>0. x \in Processes /\ x \notin Creators
  BY ProcessFacts
<1>1. \E to \in Places \ Creating : Goto(x, to)
  BY DEF DeleteLook, DeleteStep, DeleteUnlink, DeleteCommit, Move, Places, Steps, Resting, Creating
<1>2. \A q \in Creators : mine'[q] = mine[q] /\ at'[q] = at[q]
  BY <1>0, ProcessFacts DEF DeleteLook, DeleteStep, DeleteUnlink, DeleteCommit, Move, Goto, TypeInv, PlaceTypes
<1>3. ASSUME NEW d \in Ids, Settled(d)
      PROVE  Settled(d)' /\ disk'[d] \in {disk[d], None}
  <2>1. status'[d] \in {status[d], "deleted"} /\ disk'[d] \in {disk[d], None}
    BY DEF DeleteLook, DeleteStep, DeleteUnlink, DeleteCommit, Unlink, TypeInv, RowTypes, FileTypes
  <2>. QED
    BY <1>0, <1>1, <1>2, <1>3, <2>1, SettledOther
<1>. QED
  BY <1>2, <1>3, DoomKept, ProcessFacts DEF DeleteLook, DeleteStep, DeleteUnlink, DeleteCommit

(* A crash ends every process.                                               *)
LEMMA Ended ==
  ASSUME TypeInv, Crash, NEW p \in Processes
  PROVE  at'[p] \in Resting /\ (at'[p] = "new" <=> at[p] = "new")
BY DEF Crash, Resting

LEMMA CrashRows ==
  ASSUME TypeInv, RowInv, Crash
  PROVE  RowInv' /\ DoomInv'
<1>1. \A p \in Processes : at'[p] \in Resting /\ (at'[p] = "new" <=> at[p] = "new")
  BY Ended
<1>. QED
  BY <1>1, ProcessFacts DEF Crash, table, files, RowInv, PathIsOwn, RowsMade, HasRow, OwnRows, Unfinished,
     OutcomeKnown, DoomInv, Creating, Resting

LEMMA StepRows == TypeInv /\ RowInv /\ DoomInv /\ [Next]_vars => RowInv' /\ DoomInv'
<1>. SUFFICES ASSUME TypeInv, RowInv, DoomInv, [Next]_vars PROVE RowInv' /\ DoomInv'
  OBVIOUS
<1>1. ASSUME NEW p \in Creators, Insert(p) PROVE RowInv' /\ DoomInv'
  <2>1. \A r \in Runs : at'[r] = "prune" => at[r] = "prune"
    BY <1>1, ProcessFacts DEF Insert, Move, Goto, TypeInv, PlaceTypes
  <2>2. DoomInv'
    BY <1>1, <2>1, SettledInsert, DoomKept DEF Insert
  <2>. QED
    BY <1>1, <2>2, InsertRows
<1>2. ASSUME NEW p \in Creators, CreateStep(p) PROVE RowInv' /\ DoomInv'
  <2>1. \A r \in Runs : at'[r] = "prune" => at[r] = "prune"
    BY <1>2, ProcessFacts DEF CreateStep, Open, Write, Stat, Send, Except, Commit, Raise, Complete, Move, Goto,
       TypeInv, PlaceTypes
  <2>2. DoomInv'
    BY <1>2, <2>1, SettledCreate, DoomKept DEF CreateStep, Open, Write, Stat, Send, Except, Commit
  <2>. QED
    BY <1>2, <2>2, CreateRows
<1>3. CASE UNCHANGED vars \/ Restart
  BY <1>3 DEF vars, table, files, retention, Restart, RowInv, PathIsOwn, RowsMade, HasRow, OwnRows, Unfinished,
     OutcomeKnown, DoomInv, Settled
<1>. QED
  BY <1>1, <1>2, <1>3, RetentionRows, RetentionDoom, DeleteRows, DeleteDoom, CrashRows DEF Next

-----------------------------------------------------------------------------
(* Rows being created, as long as nobody deletes one.                        *)

StillCreating == \A p \in Creators : at[p] \in Creating => status[mine[p]] = "creating"
CreatingInv == NoDeletes => StillCreating

LEMMA StepCreating == TypeInv /\ RowInv /\ DoomInv /\ CreatingInv /\ [Next]_vars => CreatingInv'
<1>. SUFFICES ASSUME TypeInv, RowInv, DoomInv, CreatingInv, [Next]_vars, NoDeletes'
              PROVE  StillCreating'
  BY DEF CreatingInv
<1>1. CASE UNCHANGED vars \/ Restart
  BY <1>1 DEF vars, table, Restart, CreatingInv, NoDeletes, StillCreating
<1>2. CASE Crash
  BY <1>2, Ended, ProcessFacts DEF StillCreating, Creating, Resting
<1>3. ASSUME NEW x \in Deletes, DeleteLook(x) \/ DeleteStep(x) PROVE StillCreating'
  BY <1>3, ProcessFacts DEF DeleteLook, DeleteStep, DeleteUnlink, DeleteCommit, Move, Goto, TypeInv, PlaceTypes,
     NoDeletes
<1>4. ASSUME NEW p \in Creators, Insert(p) PROVE StillCreating'
  <2>1. p \in Processes /\ p \notin Deletes /\ made + 1 \in Ids
    BY <1>4, ProcessFacts DEF Insert, TypeInv, RowTypes, Ids
  <2>2. mine'[p] = made + 1 /\ \A q \in Processes : q # p => at'[q] = at[q] /\ mine'[q] = mine[q]
    BY <1>4, <2>1 DEF Insert, Move, Goto, TypeInv, PlaceTypes
  <2>3. status'[made + 1] = "creating" /\ \A d \in Ids : d # made + 1 => status'[d] = status[d]
    BY <1>4, <2>1 DEF Insert, TypeInv, RowTypes
  <2>4. StillCreating
    BY <2>1, <2>2, ProcessFacts DEF CreatingInv, NoDeletes
  <2>5. \A q \in Creators : at[q] \in Creating => mine[q] \in Ids /\ mine[q] # made + 1
    BY <2>1, ProcessFacts DEF RowInv, HasRow, TypeInv, Begun, RowTypes, Creating
  <2>6. ASSUME NEW q \in Creators, at'[q] \in Creating PROVE status'[mine'[q]] = "creating"
    BY <2>2, <2>3, <2>4, <2>5, <2>6, ProcessFacts DEF StillCreating
  <2>. QED
    BY <2>6 DEF StillCreating
<1>5. ASSUME NEW p \in Creators, CreateStep(p) PROVE StillCreating'
  <2>1. p \in Processes /\ p \notin Deletes /\ at[p] \in Creating /\ mine' = mine
    BY <1>5, ProcessFacts DEF CreateStep, Open, Write, Stat, Send, Except, Commit, Move, Creating
  <2>2. \A q \in Processes : q # p => at'[q] = at[q]
    BY <1>5, <2>1 DEF CreateStep, Open, Write, Stat, Send, Except, Commit, Raise, Complete, Move, Goto,
       TypeInv, PlaceTypes
  <2>3. StillCreating
    BY <2>1, <2>2, ProcessFacts DEF CreatingInv, NoDeletes
  <2>4. \A d \in Ids : d # mine[p] => status'[d] = status[d]
    BY <1>5 DEF CreateStep, Open, Write, Stat, Send, Except, Commit, table, TypeInv, RowTypes
  <2>5. at'[p] \in Creating => status' = status
    BY <1>5, <2>1 DEF CreateStep, Open, Write, Stat, Send, Except, Commit, Goto, Creating, table, TypeInv, PlaceTypes
  <2>6. \A q \in Creators : (q # p /\ at[q] \in Creating) => mine[q] \in Ids /\ mine[q] # mine[p]
    BY <2>1, ProcessFacts DEF RowInv, OwnRows, TypeInv, Begun, Creating
  <2>7. ASSUME NEW q \in Creators, at'[q] \in Creating PROVE status'[mine[q]] = "creating"
    BY <2>1, <2>2, <2>3, <2>4, <2>5, <2>6, <2>7, ProcessFacts DEF StillCreating
  <2>. QED
    BY <2>1, <2>7 DEF StillCreating
<1>6. ASSUME NEW p \in Runs, RetentionStep(p) PROVE StillCreating'
  <2>1. p \in Processes /\ p \notin Deletes /\ at[p] \in {"list", "prune"} /\ mine' = mine
    BY <1>6, ProcessFacts DEF RetentionStep, List, Prune, Purge, Move, table
  <2>2. at'[p] \in {"list", "prune", "done"} /\ \A q \in Processes : q # p => at'[q] = at[q]
    BY <1>6, <2>1 DEF RetentionStep, List, Prune, Purge, Move, Goto, TypeInv, PlaceTypes
  <2>3. StillCreating
    BY <2>1, <2>2, ProcessFacts DEF CreatingInv, NoDeletes
  <2>4. \A d \in Ids : status'[d] = status[d] \/ Settled(d)
    BY <1>6, <2>1 DEF RetentionStep, List, Prune, Purge, Move, table, DoomInv, TypeInv, RowTypes
  <2>5. ASSUME NEW q \in Creators, at'[q] \in Creating PROVE status'[mine[q]] = "creating"
    <3>1. at[q] \in Creating /\ mine[q] \in Ids
      BY <2>2, <2>5, ProcessFacts DEF Creating, TypeInv, Begun
    <3>. QED
      BY <2>3, <2>4, <3>1 DEF StillCreating, Settled
  <2>. QED
    BY <2>1, <2>5 DEF StillCreating
<1>. QED
  BY <1>1, <1>2, <1>3, <1>4, <1>5, <1>6 DEF Next

RowsInv == TypeInv /\ RowInv /\ DoomInv /\ CreatingInv

LEMMA RowsHold == Spec => []RowsInv
<1>1. Init => RowsInv
  BY InitTypes, InitRows, ProcessFacts DEF Init, RowsInv, DoomInv, CreatingInv, StillCreating, Creating
<1>2. RowsInv /\ [Next]_vars => RowsInv'
  BY StepTypes, StepRows, StepCreating DEF RowsInv
<1>. QED
  BY <1>1, <1>2, PTL DEF Spec

-----------------------------------------------------------------------------
(* Archives, when every backup has a second of its own.                      *)

Succeeded(p) == at[p] = "commit" /\ outcome[p][1] = "completed"
Filled(p) ==
  \/ at[p] \in {"stat", "send"} \/ Succeeded(p)
  \/ at[p] # "new" /\ status[mine[p]] = "completed"

DiskOwned ==
  \A t \in Ids : disk[t] # None => mine[disk[t]] = t /\ at[disk[t]] \notin {"new", "open"}
OpenIsOwn == \A p \in Creators : at[p] \in {"write", "stat", "send"} => file[p] = p
StartsEmpty == \A p \in Creators : at[p] = "write" => content[p] = {}
Whole == \A p \in Creators : Filled(p) => content[p] = {p}
FailedGone ==
  \A p \in Creators : (at[p] = "commit" /\ outcome[p][1] = "failed") => disk[mine[p]] = None

ArchiveInv == DiskOwned /\ OpenIsOwn /\ StartsEmpty /\ Whole /\ FailedGone

LEMMA InitArchives == Init => ArchiveInv
<1>. SUFFICES ASSUME Init PROVE ArchiveInv
  OBVIOUS
<1>. QED
  BY ProcessFacts DEF Init, ArchiveInv, DiskOwned, OpenIsOwn, StartsEmpty, Whole, FailedGone, Filled,
     Succeeded

LEMMA InsertArchives ==
  ASSUME TypeInv, RowInv, ArchiveInv, NEW p \in Creators, Insert(p)
  PROVE  ArchiveInv'
<1>0. p \in Processes /\ at[p] = "new" /\ made + 1 \in Ids
  BY ProcessFacts DEF Insert, Move, TypeInv, RowTypes, Ids
<1>1. \A q \in Creators : q # p => at'[q] = at[q] /\ mine'[q] = mine[q]
  BY <1>0, ProcessFacts DEF Insert, Move, Goto, TypeInv, PlaceTypes
<1>2. at'[p] = "open" /\ mine'[p] = made + 1
  BY <1>0 DEF Insert, Move, Goto, TypeInv, PlaceTypes
<1>3. status'[made + 1] = "creating" /\ \A d \in Ids : d # made + 1 => status'[d] = status[d]
  BY <1>0 DEF Insert, TypeInv, RowTypes
<1>4. \A q \in Creators : at[q] # "new" => mine[q] # made + 1 /\ mine[q] \in Ids
  BY <1>0, ProcessFacts DEF RowInv, HasRow, TypeInv, Begun, RowTypes
<1>5. \A t \in Ids : disk[t] \in Creators \cup {None}
  BY DEF TypeInv, FileTypes
<1>6. DiskOwned' /\ OpenIsOwn' /\ StartsEmpty' /\ FailedGone'
  BY <1>0, <1>1, <1>2, <1>5 DEF Insert, files, ArchiveInv, DiskOwned, OpenIsOwn, StartsEmpty, FailedGone
<1>7. Whole'
  BY <1>1, <1>2, <1>3, <1>4 DEF Insert, files, ArchiveInv, Whole, Filled, Succeeded
<1>. QED
  BY <1>6, <1>7 DEF ArchiveInv

LEMMA CreateArchives ==
  ASSUME OwnSeconds, TypeInv, RowInv, ArchiveInv, NEW p \in Creators, CreateStep(p)
  PROVE  ArchiveInv'
<1>. USE DEF table, files, retention
<1>0. p \in Processes /\ at[p] \in Creating /\ mine[p] \in Ids /\ PathOf(p) = mine[p]
  BY ProcessFacts DEF CreateStep, Open, Write, Stat, Send, Except, Commit, Move, Creating, TypeInv, Begun,
     PathOf, RowInv, PathIsOwn
<1>1. mine' = mine
  BY DEF CreateStep, Open, Write, Stat, Send, Except, Commit
<1>2. \A q \in Creators : q # p =>
        /\ at'[q] = at[q] /\ outcome'[q] = outcome[q]
        /\ at[q] # "new" => mine[q] # mine[p] /\ mine[q] \in Ids
  <2>1. \A q \in Creators : q # p => at'[q] = at[q] /\ outcome'[q] = outcome[q]
    BY <1>0, ProcessFacts DEF CreateStep, Open, Write, Stat, Send, Except, Commit, Raise, Complete, Move, Goto,
       TypeInv, PlaceTypes, OutcomeTypes
  <2>2. \A q \in Creators : (q # p /\ at[q] # "new") => mine[q] # mine[p] /\ mine[q] \in Ids
    BY <1>0, ProcessFacts DEF RowInv, OwnRows, Creating, TypeInv, Begun
  <2>. QED
    BY <2>1, <2>2
<1>3. status[mine[p]] # "completed"
  BY <1>0 DEF RowInv, Unfinished
<1>4. \A t \in Ids : disk[t] # None =>
        /\ disk[t] \in Creators /\ mine[disk[t]] = t /\ at[disk[t]] \notin {"new", "open"}
        /\ t # mine[p] => disk[t] # p
        /\ t = mine[p] => disk[t] = p
  BY <1>0, <1>2 DEF ArchiveInv, DiskOwned, TypeInv, FileTypes
<1>. HIDE DEF table, files, retention
<1>5. CASE \E reason \in Errors : Raise(p, reason) /\ UNCHANGED <<status, disk, content, file>>
  <2>1. at'[p] = "except"
    BY <1>0, <1>5 DEF Raise, Goto, TypeInv, PlaceTypes
  <2>2. UNCHANGED <<status, disk, content, file>>
    BY <1>5
  <2>3. DiskOwned' /\ OpenIsOwn' /\ StartsEmpty' /\ FailedGone'
    BY <1>1, <1>2, <1>4, <2>1, <2>2 DEF ArchiveInv, DiskOwned, OpenIsOwn, StartsEmpty, FailedGone
  <2>4. Whole'
    BY <1>1, <1>2, <1>3, <2>1, <2>2 DEF ArchiveInv, Whole, Filled, Succeeded
  <2>. QED
    BY <2>3, <2>4 DEF ArchiveInv
<1>6. CASE Open(p) /\ Goto(p, "write")
  <2>1. disk[mine[p]] = None
    BY <1>0, <1>4, <1>6 DEF Open
  <2>2. /\ disk' = [disk EXCEPT ![mine[p]] = p] /\ content' = [content EXCEPT ![p] = {}]
        /\ file' = [file EXCEPT ![p] = p] /\ at'[p] = "write" /\ status' = status
    <3>1. at'[p] = "write"
      BY <1>0, <1>6 DEF Goto, TypeInv, PlaceTypes
    <3>2. ~ Raise(p, "dump")
      BY <1>0, <3>1 DEF Raise, Goto, TypeInv, PlaceTypes
    <3>. QED
      BY <1>0, <1>6, <2>1, <3>1, <3>2 DEF Open, table
  <2>3. DiskOwned' /\ FailedGone'
    BY <1>0, <1>1, <1>2, <1>4, <2>2, ProcessFacts DEF ArchiveInv, DiskOwned, FailedGone, TypeInv, FileTypes
  <2>4. OpenIsOwn' /\ StartsEmpty'
    BY <1>2, <2>2 DEF ArchiveInv, OpenIsOwn, StartsEmpty, TypeInv, FileTypes
  <2>5. Whole'
    BY <1>1, <1>2, <1>3, <2>2 DEF ArchiveInv, Whole, Filled, Succeeded, TypeInv, FileTypes
  <2>. QED
    BY <2>3, <2>4, <2>5 DEF ArchiveInv
<1>7. CASE Write(p) /\ Goto(p, "stat")
  <2>1. at'[p] = "stat" /\ file[p] = p /\ content[p] = {}
    BY <1>0, <1>7 DEF Write, Goto, TypeInv, PlaceTypes, ArchiveInv, OpenIsOwn, StartsEmpty
  <2>2. content' = [content EXCEPT ![p] = {p}] /\ UNCHANGED <<status, disk, file>>
    <3>1. ~ Raise(p, "archive")
      BY <1>0, <2>1 DEF Raise, Goto, TypeInv, PlaceTypes
    <3>2. content' = [content EXCEPT ![p] = @ \cup {p}]
      BY <1>7, <2>1, <3>1 DEF Write
    <3>. QED
      BY <1>7, <2>1, <3>2 DEF Write, table
  <2>3. DiskOwned' /\ OpenIsOwn' /\ StartsEmpty' /\ FailedGone'
    BY <1>1, <1>2, <1>4, <2>1, <2>2
    DEF ArchiveInv, DiskOwned, OpenIsOwn, StartsEmpty, FailedGone, TypeInv, FileTypes
  <2>4. Whole'
    BY <1>1, <1>2, <1>3, <2>1, <2>2 DEF ArchiveInv, Whole, Filled, Succeeded, TypeInv, FileTypes
  <2>. QED
    BY <2>3, <2>4 DEF ArchiveInv
<1>8. CASE /\ at[p] \in {"stat", "send"} /\ UNCHANGED <<status, disk, content, file>>
           /\ Complete(p) \/ (Goto(p, "send") /\ UNCHANGED outcome)
  <2>1. (at'[p] = "commit" /\ outcome'[p][1] = "completed") \/ at'[p] = "send"
    BY <1>0, <1>8 DEF Complete, Goto, TypeInv, PlaceTypes, OutcomeTypes
  <2>2. file[p] = p /\ content[p] = {p}
    BY <1>8 DEF ArchiveInv, OpenIsOwn, Whole, Filled
  <2>3. DiskOwned' /\ OpenIsOwn' /\ StartsEmpty' /\ FailedGone'
    BY <1>1, <1>2, <1>4, <1>8, <2>1, <2>2 DEF ArchiveInv, DiskOwned, OpenIsOwn, StartsEmpty, FailedGone
  <2>4. Whole'
    BY <1>1, <1>2, <1>8, <2>2 DEF ArchiveInv, Whole, Filled, Succeeded
  <2>. QED
    BY <2>3, <2>4 DEF ArchiveInv
<1>9. CASE Except(p)
  <2>1. /\ at'[p] = "commit" /\ outcome' = outcome /\ outcome[p][1] = "failed"
        /\ disk' = [disk EXCEPT ![mine[p]] = None] /\ UNCHANGED <<status, content, file>>
    BY <1>0, <1>9 DEF Except, Move, Goto, Unlink, table, TypeInv, PlaceTypes, RowInv, OutcomeKnown
  <2>2. DiskOwned' /\ OpenIsOwn' /\ StartsEmpty' /\ FailedGone'
    BY <1>0, <1>1, <1>2, <1>4, <2>1
    DEF ArchiveInv, DiskOwned, OpenIsOwn, StartsEmpty, FailedGone, TypeInv, FileTypes
  <2>3. Whole'
    BY <1>1, <1>2, <1>3, <2>1 DEF ArchiveInv, Whole, Filled, Succeeded
  <2>. QED
    BY <2>2, <2>3 DEF ArchiveInv
<1>10. CASE Commit(p)
  <2>1. /\ at'[p] \in {"list", "done"} /\ at[p] = "commit" /\ outcome' = outcome
        /\ UNCHANGED <<disk, content, file>>
    BY <1>0, <1>10 DEF Commit, Goto, files, TypeInv, PlaceTypes
  <2>2. /\ \A d \in Ids : d # mine[p] => status'[d] = status[d]
        /\ status'[mine[p]] \in {status[mine[p]], outcome[p][1]}
    BY <1>0, <1>10 DEF Commit, TypeInv, RowTypes
  <2>3. DiskOwned' /\ OpenIsOwn' /\ StartsEmpty' /\ FailedGone'
    BY <1>1, <1>2, <1>4, <2>1 DEF ArchiveInv, DiskOwned, OpenIsOwn, StartsEmpty, FailedGone
  <2>4. Whole'
    BY <1>1, <1>2, <1>3, <2>1, <2>2 DEF ArchiveInv, Whole, Filled, Succeeded
  <2>. QED
    BY <2>3, <2>4 DEF ArchiveInv
<1>. QED
  BY <1>5, <1>6, <1>7, <1>8, <1>9, <1>10
  DEF CreateStep, Open, Write, Stat, Send, table, files, Errors

LEMMA RetentionArchives ==
  ASSUME TypeInv, RowInv, ArchiveInv, NEW p \in Runs, RetentionStep(p)
  PROVE  ArchiveInv'
<1>. USE DEF table, files, retention
<1>0. p \in Processes /\ at[p] \in {"list", "prune"}
  BY ProcessFacts DEF RetentionStep, List, Prune, Purge, Move
<1>1. /\ mine' = mine /\ outcome' = outcome /\ content' = content /\ file' = file
      /\ at'[p] \in {"list", "prune", "done"} /\ \A q \in Processes : q # p => at'[q] = at[q]
  BY <1>0 DEF RetentionStep, List, Prune, Purge, Move, Goto, TypeInv, PlaceTypes
<1>2. \A t \in Ids : disk'[t] \in {disk[t], None} /\ status'[t] \in {status[t], "deleted"}
  BY DEF RetentionStep, List, Prune, Purge, Unlink, TypeInv, FileTypes, RowTypes
<1>3. \A q \in Processes : at[q] # "new" => mine[q] \in Ids
  BY DEF TypeInv, Begun
<1>4. \A t \in Ids : disk[t] \in Creators \cup {None}
  BY DEF TypeInv, FileTypes
<1>5. DiskOwned' /\ FailedGone'
  <2>1. DiskOwned'
    BY <1>0, <1>1, <1>2, <1>4, ProcessFacts DEF ArchiveInv, DiskOwned
  <2>2. ASSUME NEW q \in Creators, at'[q] = "commit", outcome'[q][1] = "failed"
        PROVE  disk'[mine'[q]] = None
    <3>1. q # p /\ at[q] = "commit" /\ mine[q] \in Ids
      BY <1>1, <1>3, <2>2, ProcessFacts
    <3>. QED
      BY <1>1, <1>2, <2>2, <3>1 DEF ArchiveInv, FailedGone
  <2>. QED
    BY <2>1, <2>2 DEF FailedGone
<1>6. OpenIsOwn' /\ StartsEmpty'
  BY <1>1, ProcessFacts DEF ArchiveInv, OpenIsOwn, StartsEmpty
<1>7. Whole'
  BY <1>0, <1>1, <1>2, <1>3, ProcessFacts DEF ArchiveInv, Whole, Filled, Succeeded
<1>. QED
  BY <1>5, <1>6, <1>7 DEF ArchiveInv

LEMMA DeleteArchives ==
  ASSUME TypeInv, RowInv, ArchiveInv, NEW x \in Deletes, DeleteLook(x) \/ DeleteStep(x)
  PROVE  ArchiveInv'
<1>. USE DEF table, files, retention
<1>0. x \in Processes /\ x \notin Creators
  BY ProcessFacts
<1>1. /\ outcome' = outcome /\ content' = content /\ file' = file
      /\ \A q \in Creators : at'[q] = at[q] /\ mine'[q] = mine[q]
  BY <1>0, ProcessFacts DEF DeleteLook, DeleteStep, DeleteUnlink, DeleteCommit, Move, Goto, TypeInv, PlaceTypes
<1>2. \A t \in Ids : disk'[t] \in {disk[t], None} /\ status'[t] \in {status[t], "deleted"}
  BY DEF DeleteLook, DeleteStep, DeleteUnlink, DeleteCommit, Unlink, TypeInv, FileTypes, RowTypes
<1>3. \A q \in Creators : at[q] # "new" => mine[q] \in Ids
  BY ProcessFacts DEF TypeInv, Begun
<1>4. \A t \in Ids : disk[t] \in Creators \cup {None}
  BY DEF TypeInv, FileTypes
<1>5. DiskOwned' /\ FailedGone'
  BY <1>1, <1>2, <1>3, <1>4 DEF ArchiveInv, DiskOwned, FailedGone
<1>6. OpenIsOwn' /\ StartsEmpty'
  BY <1>1 DEF ArchiveInv, OpenIsOwn, StartsEmpty
<1>7. Whole'
  BY <1>1, <1>2, <1>3 DEF ArchiveInv, Whole, Filled, Succeeded
<1>. QED
  BY <1>5, <1>6, <1>7 DEF ArchiveInv

LEMMA StepArchives == OwnSeconds /\ TypeInv /\ RowInv /\ ArchiveInv /\ [Next]_vars => ArchiveInv'
<1>. SUFFICES ASSUME OwnSeconds, TypeInv, RowInv, ArchiveInv, [Next]_vars PROVE ArchiveInv'
  OBVIOUS
<1>1. CASE UNCHANGED vars \/ Restart
  BY <1>1 DEF vars, table, files, Restart, ArchiveInv, DiskOwned, OpenIsOwn, StartsEmpty, Whole, FailedGone,
     Filled, Succeeded
<1>2. CASE Crash
  <2>1. \A p \in Processes : at'[p] \in Resting /\ (at'[p] = "new" <=> at[p] = "new")
    BY <1>2, Ended
  <2>2. \A t \in Ids : disk[t] \in Creators \cup {None}
    BY DEF TypeInv, FileTypes
  <2>. QED
    BY <1>2, <2>1, <2>2, ProcessFacts
    DEF Crash, table, files, Resting, ArchiveInv, DiskOwned, OpenIsOwn, StartsEmpty, Whole, FailedGone, Filled,
        Succeeded
<1>. QED
  BY <1>1, <1>2, InsertArchives, CreateArchives, RetentionArchives, DeleteArchives DEF Next

ArchivesInv == OwnSeconds /\ TypeInv /\ RowInv /\ DoomInv /\ CreatingInv /\ ArchiveInv

LEMMA ArchivesHold == ASSUME OwnSeconds PROVE Spec => []ArchivesInv
<1>1. Init => ArchiveInv
  BY InitArchives
<1>2. RowsInv /\ ArchiveInv /\ [Next]_vars => ArchiveInv'
  BY StepArchives DEF RowsInv
<1>3. RowsInv /\ ArchiveInv => ArchivesInv
  BY DEF RowsInv, ArchivesInv
<1>4. Spec => []RowsInv
  BY RowsHold
<1>. QED
  BY <1>1, <1>2, <1>3, <1>4, PTL DEF Spec

(* A completed backup whose archive is there can be restored.                *)
LEMMA RestorableWhen ==
  ASSUME ArchivesInv, NEW d \in Ids, status[d] = "completed", disk[d] # None
  PROVE  Restorable(d)
BY DEF ArchivesInv, ArchiveInv, DiskOwned, Whole, Filled, Restorable, RowInv, PathIsOwn, TypeInv, FileTypes

-----------------------------------------------------------------------------
(* Completed backups, as long as nothing has crashed.                        *)

Finished(d) ==
  \/ status[d] = "completed"
  \/ status[d] = "creating" /\ \E p \in Creators : mine[p] = d /\ Succeeded(p)

KeptInv == crashes = 0 => \A d \in Ids : Finished(d) => disk[d] # None \/ BeingRemoved(d)

(* What a creator's step can do to a backup that has ended.                  *)
LEMMA FinishedCreate ==
  ASSUME ArchivesInv, NEW p \in Creators, CreateStep(p), NEW d \in Ids, Finished(d)'
  PROVE  \/ Finished(d) /\ (disk'[d] = disk[d] \/ disk'[d] # None)
         \/ disk'[d] # None
<1>. USE DEF table, files, retention
<1>0. /\ p \in Processes /\ at[p] \in Creating /\ mine[p] \in Ids /\ PathOf(p) = mine[p]
      /\ status[mine[p]] # "completed" /\ mine' = mine
  BY ProcessFacts DEF CreateStep, Open, Write, Stat, Send, Except, Commit, Move, Creating, ArchivesInv, TypeInv,
     Begun, PathOf, RowInv, PathIsOwn, Unfinished
<1>1. \A q \in Creators : q # p => (Succeeded(q)' <=> Succeeded(q))
  BY <1>0, ProcessFacts DEF CreateStep, Open, Write, Stat, Send, Except, Commit, Raise, Complete, Move, Goto,
     Succeeded, ArchivesInv, TypeInv, PlaceTypes, OutcomeTypes
<1>2. \A q \in Creators : (q # p /\ Succeeded(q)) => mine[q] # mine[p]
  BY <1>0 DEF Succeeded, ArchivesInv, RowInv, OwnRows, Creating
<1>3. CASE d # mine[p]
  <2>1. status'[d] = status[d] /\ disk'[d] = disk[d]
    BY <1>0, <1>3 DEF CreateStep, Open, Write, Stat, Send, Except, Commit, Raise, Unlink,
       ArchivesInv, TypeInv, RowTypes, FileTypes
  <2>. QED
    BY <1>0, <1>1, <1>3, <2>1 DEF Finished
<1>4. CASE d = mine[p] /\ Commit(p)
  <2>1. status'[d] = "completed" => Succeeded(p) /\ status[d] = "creating"
    BY <1>0, <1>4 DEF Commit, Live, Succeeded, ArchivesInv, TypeInv, RowTypes, RowInv, Unfinished
  <2>2. ~Succeeded(p)'
    BY <1>0, <1>4 DEF Commit, Goto, Succeeded, ArchivesInv, TypeInv, PlaceTypes
  <2>3. disk'[d] = disk[d]
    BY <1>4 DEF Commit
  <2>4. status'[d] = "completed"
    BY <1>0, <1>1, <1>2, <1>4, <2>2 DEF Finished
  <2>. QED
    BY <1>4, <2>1, <2>3, <2>4 DEF Finished
<1>5. CASE d = mine[p] /\ ~Commit(p)
  <2>1. status'[d] = status[d]
    BY <1>5 DEF CreateStep, Open, Write, Stat, Send, Except
  <2>2. Succeeded(p)'
    BY <1>0, <1>1, <1>2, <1>5, <2>1 DEF Finished
  <2>3. CASE Stat(p) \/ Send(p)
    BY <1>0, <1>5, <2>2, <2>3
    DEF Stat, Send, Raise, Goto, Succeeded, ArchivesInv, TypeInv, PlaceTypes, OutcomeTypes
  <2>4. CASE Open(p) \/ Write(p)
    BY <1>0, <2>2, <2>4 DEF Open, Write, Raise, Goto, Succeeded, ArchivesInv, TypeInv, PlaceTypes
  <2>5. CASE Except(p)
    BY <1>0, <2>2, <2>5
    DEF Except, Move, Goto, Succeeded, ArchivesInv, TypeInv, PlaceTypes, RowInv, OutcomeKnown
  <2>. QED
    BY <1>5, <2>3, <2>4, <2>5 DEF CreateStep
<1>. QED
  BY <1>3, <1>4, <1>5

(* Every other step leaves what has ended and what is being created.         *)
LEMMA FinishedOther ==
  ASSUME ArchivesInv, NEW d \in Ids, Finished(d)',
         status'[d] \in {status[d], "deleted"},
         \A q \in Creators : Succeeded(q)' => Succeeded(q) /\ mine'[q] = mine[q]
  PROVE  Finished(d) /\ status[d] # "deleted"
BY DEF Finished

LEMMA InsertKept ==
  ASSUME ArchivesInv, KeptInv, NEW p \in Creators, Insert(p)
  PROVE  KeptInv'
<1>. SUFFICES ASSUME crashes' = 0, NEW d \in Ids, Finished(d)'
              PROVE  disk'[d] # None \/ BeingRemoved(d)'
  BY DEF KeptInv
<1>0. p \in Processes /\ made + 1 \in Ids /\ crashes = 0 /\ disk' = disk /\ doomed' = doomed
  BY ProcessFacts DEF Insert, files, retention, ArchivesInv, TypeInv, RowTypes, Ids
<1>1. /\ at[p] = "new" /\ at'[p] = "open" /\ mine'[p] = made + 1
      /\ \A q \in Processes : q # p => at'[q] = at[q] /\ mine'[q] = mine[q]
  BY <1>0 DEF Insert, Move, Goto, ArchivesInv, TypeInv, PlaceTypes
<1>2. \A q \in Creators : Succeeded(q)' => Succeeded(q) /\ q # p /\ mine'[q] = mine[q] /\ mine[q] <= made
  BY <1>1, ProcessFacts DEF Insert, Succeeded, ArchivesInv, RowInv, HasRow
<1>3. d # made + 1 /\ status'[d] = status[d]
  BY <1>0, <1>2 DEF Insert, Finished, ArchivesInv, TypeInv, RowTypes
<1>4. Finished(d)
  BY <1>2, <1>3 DEF Finished
<1>5. BeingRemoved(d) => BeingRemoved(d)'
  BY <1>0, <1>1, ProcessFacts DEF BeingRemoved
<1>. QED
  BY <1>0, <1>4, <1>5 DEF KeptInv

LEMMA CreateKept ==
  ASSUME ArchivesInv, KeptInv, NEW p \in Creators, CreateStep(p)
  PROVE  KeptInv'
<1>. SUFFICES ASSUME crashes' = 0, NEW d \in Ids, Finished(d)'
              PROVE  disk'[d] # None \/ BeingRemoved(d)'
  BY DEF KeptInv
<1>1. p \in Processes /\ at[p] \in Creating /\ crashes = 0 /\ mine' = mine /\ doomed' = doomed
  BY ProcessFacts DEF CreateStep, Open, Write, Stat, Send, Except, Commit, Move, Creating, retention
<1>2. \A q \in Processes : q # p => at'[q] = at[q]
  BY <1>1 DEF CreateStep, Open, Write, Stat, Send, Except, Commit, Raise, Complete, Move, Goto,
     ArchivesInv, TypeInv, PlaceTypes
<1>3. BeingRemoved(d) => BeingRemoved(d)'
  BY <1>1, <1>2, ProcessFacts DEF BeingRemoved, Creating
<1>4. \/ Finished(d) /\ (disk'[d] = disk[d] \/ disk'[d] # None)
      \/ disk'[d] # None
  BY FinishedCreate
<1>. QED
  BY <1>1, <1>3, <1>4 DEF KeptInv

LEMMA RetentionKept ==
  ASSUME ArchivesInv, KeptInv, NEW p \in Runs, RetentionStep(p)
  PROVE  KeptInv'
<1>. USE DEF table, files, retention
<1>. SUFFICES ASSUME crashes' = 0, NEW d \in Ids, Finished(d)'
              PROVE  disk'[d] # None \/ BeingRemoved(d)'
  BY DEF KeptInv
<1>1. /\ p \in Processes /\ p \in Creators /\ p \notin Deletes /\ at[p] \in {"list", "prune"}
      /\ crashes = 0 /\ mine' = mine /\ outcome' = outcome
  BY ProcessFacts DEF RetentionStep, List, Prune, Purge, Move
<1>2. at'[p] \in {"prune", "done"} /\ \A q \in Processes : q # p => at'[q] = at[q]
  BY <1>1 DEF RetentionStep, List, Prune, Purge, Move, Goto, ArchivesInv, TypeInv, PlaceTypes
<1>3. status'[d] \in {status[d], "deleted"}
  BY DEF RetentionStep, List, Prune, Purge, ArchivesInv, TypeInv, RowTypes
<1>4. \A q \in Creators : Succeeded(q)' => Succeeded(q) /\ mine'[q] = mine[q]
  BY <1>1, <1>2, ProcessFacts DEF Succeeded
<1>5. Finished(d) /\ status'[d] = status[d]
  BY <1>3, <1>4, FinishedOther DEF Finished
<1>6. CASE List(p)
  <2>1. BeingRemoved(d) => BeingRemoved(d)'
    BY <1>1, <1>2, <1>6, ProcessFacts DEF List, Move, BeingRemoved, ArchivesInv, TypeInv, RetentionTypes
  <2>. QED
    BY <1>1, <1>5, <1>6, <2>1 DEF List, KeptInv
<1>7. CASE Prune(p)
  <2>1. BeingRemoved(d) => BeingRemoved(d)'
    BY <1>7 DEF Prune, BeingRemoved
  <2>2. disk'[d] = disk[d] \/ d \in doomed[p]
    BY <1>7 DEF Prune, Unlink, ArchivesInv, TypeInv, FileTypes, RetentionTypes, RowInv, PathIsOwn, DoomInv
  <2>3. d \in doomed[p] => BeingRemoved(d)'
    BY <1>7 DEF Prune, BeingRemoved
  <2>. QED
    BY <1>1, <1>5, <2>1, <2>2, <2>3 DEF KeptInv
<1>8. CASE Purge(p)
  <2>1. d \notin doomed[p]
    BY <1>5, <1>8 DEF Purge, Finished
  <2>2. BeingRemoved(d) => BeingRemoved(d)'
    BY <1>1, <1>2, <1>8, <2>1, ProcessFacts DEF Purge, BeingRemoved
  <2>. QED
    BY <1>1, <1>5, <1>8, <2>2 DEF Purge, KeptInv
<1>. QED
  BY <1>6, <1>7, <1>8 DEF RetentionStep

LEMMA DeleteKept ==
  ASSUME ArchivesInv, KeptInv, NEW x \in Deletes, DeleteLook(x) \/ DeleteStep(x)
  PROVE  KeptInv'
<1>. USE DEF table, files, retention
<1>. SUFFICES ASSUME crashes' = 0, NEW d \in Ids, Finished(d)'
              PROVE  disk'[d] # None \/ BeingRemoved(d)'
  BY DEF KeptInv
<1>1. /\ x \in Processes /\ x \notin Creators /\ crashes = 0 /\ outcome' = outcome /\ doomed' = doomed
      /\ \A q \in Processes : q # x => at'[q] = at[q] /\ mine'[q] = mine[q]
  BY ProcessFacts DEF DeleteLook, DeleteStep, DeleteUnlink, DeleteCommit, Move, Goto,
     ArchivesInv, TypeInv, PlaceTypes
<1>2. status'[d] \in {status[d], "deleted"}
  BY DEF DeleteLook, DeleteStep, DeleteUnlink, DeleteCommit, ArchivesInv, TypeInv, RowTypes
<1>3. \A q \in Creators : Succeeded(q)' => Succeeded(q) /\ mine'[q] = mine[q]
  BY <1>1, ProcessFacts DEF Succeeded
<1>4. Finished(d) /\ status'[d] = status[d]
  BY <1>2, <1>3, FinishedOther DEF Finished
<1>5. CASE DeleteLook(x)
  <2>1. at[x] = "new"
    BY <1>5 DEF DeleteLook, Move
  <2>2. BeingRemoved(d) => BeingRemoved(d)'
    BY <1>1, <2>1, ProcessFacts DEF BeingRemoved
  <2>. QED
    BY <1>1, <1>4, <1>5, <2>2 DEF DeleteLook, KeptInv
<1>6. CASE DeleteUnlink(x)
  <2>1. at'[x] = "delete" /\ mine' = mine /\ at[x] = "unlink"
    BY <1>1, <1>6 DEF DeleteUnlink, Move, Goto, ArchivesInv, TypeInv, PlaceTypes
  <2>2. BeingRemoved(d) => BeingRemoved(d)'
    BY <1>1, <2>1, ProcessFacts DEF BeingRemoved
  <2>3. disk'[d] = disk[d] \/ d = mine[x]
    BY <1>1, <1>6, <2>1 DEF DeleteUnlink, Unlink, PathOf, ArchivesInv, TypeInv, Begun, FileTypes, RowInv, PathIsOwn
  <2>4. d = mine[x] => BeingRemoved(d)'
    BY <2>1 DEF BeingRemoved
  <2>. QED
    BY <1>1, <1>4, <2>2, <2>3, <2>4 DEF KeptInv
<1>7. CASE DeleteCommit(x)
  <2>1. d # mine[x]
    BY <1>4, <1>7 DEF DeleteCommit, Finished, ArchivesInv, TypeInv, RowTypes
  <2>2. BeingRemoved(d) => BeingRemoved(d)'
    BY <1>1, <1>7, <2>1, ProcessFacts DEF DeleteCommit, BeingRemoved
  <2>. QED
    BY <1>1, <1>4, <1>7, <2>2 DEF DeleteCommit, KeptInv
<1>. QED
  BY <1>5, <1>6, <1>7 DEF DeleteStep

LEMMA StepKept == ArchivesInv /\ KeptInv /\ [Next]_vars => KeptInv'
<1>. SUFFICES ASSUME ArchivesInv, KeptInv, [Next]_vars PROVE KeptInv'
  OBVIOUS
<1>1. CASE UNCHANGED vars \/ Restart
  BY <1>1 DEF vars, table, files, retention, Restart, KeptInv, Finished, Succeeded, BeingRemoved
<1>2. CASE Crash
  BY <1>2 DEF Crash, KeptInv, ArchivesInv, TypeInv, PanelTypes
<1>. QED
  BY <1>1, <1>2, InsertKept, CreateKept, RetentionKept, DeleteKept DEF Next

(* A backup shown as completed can be downloaded and restored unless it is   *)
(* being removed, for any number of backups, retentions and deletes that     *)
(* overlap, when no two backups begin in one second and nothing has crashed. *)
THEOREM CompletedAreRestorable == OwnSeconds => (Spec => []CompletedRestorable)
<1>. SUFFICES ASSUME OwnSeconds PROVE Spec => []CompletedRestorable
  OBVIOUS
<1>1. Init => KeptInv
  BY DEF Init, KeptInv, Finished, Succeeded
<1>2. ArchivesInv /\ KeptInv => CompletedRestorable
  BY RestorableWhen DEF KeptInv, Finished, CompletedRestorable, Completed
<1>3. Spec => []ArchivesInv
  BY ArchivesHold
<1>. QED
  BY <1>1, <1>2, <1>3, StepKept, PTL DEF Spec

-----------------------------------------------------------------------------
(* Retention.                                                                *)

(* A set of numbers up to n has a greatest one.                              *)
LEMMA Greatest ==
  ASSUME NEW n \in Nat, NEW S \in SUBSET (1 .. n), S # {}
  PROVE  \E e \in S : \A d \in S : d <= e
<1>. DEFINE T == {n - e : e \in S}
<1>0. \A e \in S : e \in 1 .. n /\ n - e \in Nat
  OBVIOUS
<1>1. T \subseteq Nat /\ T # {}
  BY <1>0
<1>2. PICK x \in T : \A y \in T : ~ (<<y, x>> \in OpToRel(<, Nat))
  BY <1>1, NatLessThanWellFounded, WFMin, Zenon
<1>3. \A y \in T : ~ (y < x)
  BY <1>1, <1>2 DEF OpToRel
<1>4. PICK e \in S : x = n - e
  OBVIOUS
<1>5. \A d \in S : ~ (n - d < n - e)
  BY <1>3, <1>4
<1>6. \A d \in S : d <= e
  BY <1>0, <1>5
<1>. QED
  BY <1>6

(* d has as many newer completed backups as some schedule keeps.             *)
Enough(d) == \E p \in Runs : Cardinality(Newer(d)) >= Keep[p]

GivenUp == \A d \in Ids : status[d] = "deleted" => Enough(d)
Doomed == \A r \in Runs : at[r] = "prune" => \A d \in doomed[r] : Enough(d)
KeptOrEnough == \A d \in Ids : Finished(d) => disk[d] # None \/ Enough(d)

RetentionInv == NoDeletes => GivenUp /\ Doomed /\ KeptOrEnough

(* More completed backups are enough where fewer were.                       *)
LEMMA EnoughGrows ==
  ASSUME NEW d \in Ids, NEW e \in Ids, Enough(d), Newer(d) \subseteq Newer(e)'
  PROVE  Enough(e)'
<1>1. PICK p \in Runs : Cardinality(Newer(d)) >= Keep[p]
  BY DEF Enough
<1>2. IsFiniteSet(Newer(e)')
  <2>1. Newer(e)' \subseteq Ids
    BY DEF Newer, Completed
  <2>. QED
    BY <2>1, ProcessFacts, FS_Subset
<1>3. /\ Cardinality(Newer(d)) <= Cardinality(Newer(e)')
      /\ Cardinality(Newer(d)) \in Nat /\ Cardinality(Newer(e)') \in Nat
  BY <1>2, FS_Subset, FS_CardinalityType
<1>4. Cardinality(Newer(e)') >= Keep[p]
  BY <1>1, <1>3, ProcessFacts
<1>. QED
  BY <1>4 DEF Enough

(* Deleting the rows a run has doomed takes from nobody what was enough: the *)
(* newest of those deleted keeps all that is newer than it.                  *)
LEMMA EnoughStays ==
  ASSUME ArchivesInv, Doomed, NEW r \in Runs, at[r] = "prune",
         status' = [d \in Ids |-> IF d \in doomed[r] THEN "deleted" ELSE status[d]],
         NEW d \in Ids, Enough(d)
  PROVE  Enough(d)'
<1>1. \A e \in Ids : e \in Completed' <=> e \in Completed /\ e \notin doomed[r]
  BY DEF Completed, ArchivesInv, TypeInv, RowTypes
<1>2. CASE Newer(d) \cap doomed[r] = {}
  <2>1. Newer(d) \subseteq Newer(d)'
    BY <1>1, <1>2 DEF Newer, Completed
  <2>. QED
    BY <2>1, EnoughGrows
<1>3. CASE Newer(d) \cap doomed[r] # {}
  <2>1. Newer(d) \cap doomed[r] \in SUBSET (1 .. MaxRows)
    BY DEF Newer, Completed, Ids
  <2>2. PICK e \in Newer(d) \cap doomed[r] : \A f \in Newer(d) \cap doomed[r] : f <= e
    BY <1>3, <2>1, Greatest, ProcessFacts
  <2>3. e \in Ids /\ e > d /\ Enough(e)
    BY <2>2 DEF Newer, Completed, Doomed
  <2>4. Newer(e) \subseteq Newer(d)'
    <3>. SUFFICES ASSUME NEW f \in Newer(e) PROVE f \in Newer(d)'
      OBVIOUS
    <3>1. f \in Completed /\ f \in Ids /\ f > e /\ f > d
      BY <2>3, ProcessFacts DEF Newer, Completed
    <3>2. f \notin doomed[r]
      BY <2>2, <2>3, <3>1, ProcessFacts DEF Newer
    <3>. QED
      BY <1>1, <3>1, <3>2 DEF Newer
  <2>. QED
    BY <2>3, <2>4, EnoughGrows
<1>. QED
  BY <1>2, <1>3

LEMMA EnoughKept ==
  ASSUME NEW d \in Ids, Enough(d), \A e \in Ids : status[e] = "completed" => status'[e] = "completed"
  PROVE  Enough(d)'
<1>1. Newer(d) \subseteq Newer(d)'
  BY DEF Newer, Completed
<1>. QED
  BY <1>1, EnoughGrows

LEMMA InsertRetention ==
  ASSUME ArchivesInv, RetentionInv, NEW p \in Creators, Insert(p)
  PROVE  RetentionInv'
<1>0. p \in Processes /\ p \notin Deletes /\ made + 1 \in Ids /\ disk' = disk /\ doomed' = doomed
  BY ProcessFacts DEF Insert, files, retention, ArchivesInv, TypeInv, RowTypes, Ids
<1>1. /\ at'[p] = "open" /\ mine'[p] = made + 1
      /\ \A q \in Processes : q # p => at'[q] = at[q] /\ mine'[q] = mine[q]
  BY <1>0 DEF Insert, Move, Goto, ArchivesInv, TypeInv, PlaceTypes
<1>. SUFFICES ASSUME NoDeletes, GivenUp, Doomed, KeptOrEnough
              PROVE  RetentionInv'
  BY <1>0, <1>1, ProcessFacts DEF RetentionInv, NoDeletes
<1>2. /\ status'[made + 1] = "creating" /\ status[made + 1] = "none"
      /\ \A d \in Ids : d # made + 1 => status'[d] = status[d]
  BY <1>0, ProcessFacts DEF Insert, ArchivesInv, TypeInv, RowTypes, RowInv, RowsMade
<1>3. \A q \in Creators : at[q] # "new" => mine[q] # made + 1 /\ mine[q] \in Ids
  BY <1>0, ProcessFacts DEF ArchivesInv, RowInv, HasRow, TypeInv, Begun, RowTypes
<1>4. \A d \in Ids : Enough(d) => Enough(d)'
  BY <1>2, EnoughKept
<1>5. GivenUp'
  BY <1>2, <1>4 DEF GivenUp
<1>6. Doomed'
  BY <1>0, <1>1, <1>4, ProcessFacts DEF Doomed, ArchivesInv, TypeInv, RetentionTypes
<1>7. KeptOrEnough'
  <2>1. ASSUME NEW d \in Ids, Finished(d)' PROVE Finished(d)
    <3>1. \A q \in Creators : Succeeded(q)' => Succeeded(q) /\ mine'[q] = mine[q] /\ mine[q] # made + 1
      BY <1>1, <1>3, ProcessFacts DEF Insert, Succeeded
    <3>. QED
      BY <1>2, <2>1, <3>1 DEF Finished
  <2>. QED
    BY <1>0, <1>4, <2>1 DEF KeptOrEnough
<1>. QED
  BY <1>5, <1>6, <1>7 DEF RetentionInv

LEMMA CreateRetention ==
  ASSUME ArchivesInv, RetentionInv, NEW p \in Creators, CreateStep(p)
  PROVE  RetentionInv'
<1>1. /\ p \in Processes /\ p \notin Deletes /\ at[p] \in Creating /\ mine[p] \in Ids
      /\ mine' = mine /\ doomed' = doomed
  BY ProcessFacts DEF CreateStep, Open, Write, Stat, Send, Except, Commit, Move, Creating, retention,
     ArchivesInv, TypeInv, Begun
<1>2. \A q \in Processes : q # p => at'[q] = at[q]
  BY <1>1 DEF CreateStep, Open, Write, Stat, Send, Except, Commit, Raise, Complete, Move, Goto,
     ArchivesInv, TypeInv, PlaceTypes
<1>. SUFFICES ASSUME NoDeletes, GivenUp, Doomed, KeptOrEnough
              PROVE  RetentionInv'
  BY <1>1, <1>2, ProcessFacts DEF RetentionInv, NoDeletes
<1>3. /\ \A d \in Ids : d # mine[p] => status'[d] = status[d]
      /\ status[mine[p]] = "creating"
      /\ status'[mine[p]] # "deleted"
      /\ Commit(p) \/ status' = status
  <2>1. status[mine[p]] = "creating"
    BY <1>1 DEF ArchivesInv, CreatingInv, StillCreating
  <2>2. CASE Commit(p)
    BY <1>1, <2>1, <2>2 DEF Commit, ArchivesInv, TypeInv, RowTypes, RowInv, OutcomeKnown
  <2>3. CASE ~Commit(p)
    BY <2>1, <2>3 DEF CreateStep, Open, Write, Stat, Send, Except, table
  <2>. QED
    BY <2>1, <2>2, <2>3
<1>4. \A d \in Ids : Enough(d) => Enough(d)'
  BY <1>3, EnoughKept
<1>5. GivenUp'
  BY <1>3, <1>4 DEF GivenUp
<1>6. Doomed'
  <2>1. \A r \in Runs : at'[r] = "prune" => at[r] = "prune"
    BY <1>1, <1>2, ProcessFacts DEF CreateStep, Open, Write, Stat, Send, Except, Commit, Raise, Complete, Move,
       Goto, ArchivesInv, TypeInv, PlaceTypes
  <2>. QED
    BY <1>1, <1>4, <2>1 DEF Doomed, ArchivesInv, TypeInv, RetentionTypes
<1>7. KeptOrEnough'
  BY <1>4, FinishedCreate DEF KeptOrEnough
<1>. QED
  BY <1>5, <1>6, <1>7 DEF RetentionInv

LEMMA RetentionRetention ==
  ASSUME ArchivesInv, RetentionInv, NEW p \in Runs, RetentionStep(p)
  PROVE  RetentionInv'
<1>. USE DEF table, files, retention
<1>1. /\ p \in Processes /\ p \in Creators /\ p \notin Deletes /\ at[p] \in {"list", "prune"}
      /\ mine' = mine /\ outcome' = outcome
  BY ProcessFacts DEF RetentionStep, List, Prune, Purge, Move
<1>2. at'[p] \in {"list", "prune", "done"} /\ \A q \in Processes : q # p => at'[q] = at[q]
  BY <1>1 DEF RetentionStep, List, Prune, Purge, Move, Goto, ArchivesInv, TypeInv, PlaceTypes
<1>. SUFFICES ASSUME NoDeletes, GivenUp, Doomed, KeptOrEnough
              PROVE  RetentionInv'
  BY <1>1, <1>2, ProcessFacts DEF RetentionInv, NoDeletes
<1>3. \A q \in Creators : Succeeded(q)' => Succeeded(q) /\ mine'[q] = mine[q]
  BY <1>1, <1>2, ProcessFacts DEF Succeeded
<1>5. CASE List(p)
  <2>1. \A d \in Ids : Enough(d) => Enough(d)'
    BY <1>5, EnoughKept DEF List
  <2>2. GivenUp'
    BY <1>5, <2>1 DEF List, GivenUp
  <2>3. KeptOrEnough'
    BY <1>3, <1>5, <2>1 DEF List, KeptOrEnough, Finished
  <2>4. Doomed'
    <3>. SUFFICES ASSUME NEW r \in Runs, at'[r] = "prune", NEW d \in doomed'[r] PROVE Enough(d) /\ d \in Ids
      BY <2>1 DEF Doomed
    <3>1. CASE r # p
      BY <1>1, <1>2, <1>5, <3>1, ProcessFacts DEF List, Doomed, ArchivesInv, TypeInv, RetentionTypes
    <3>2. CASE r = p
      <4>1. d \in Beyond(Keep[p])
        BY <1>1, <1>5, <3>2 DEF List, Move, Goto, ArchivesInv, TypeInv, RetentionTypes, PlaceTypes
      <4>. QED
        BY <4>1 DEF Beyond, Completed, Enough
    <3>. QED
      BY <3>1, <3>2
  <2>. QED
    BY <2>2, <2>3, <2>4 DEF RetentionInv
<1>6. CASE Prune(p)
  <2>1. \A d \in Ids : Enough(d) => Enough(d)'
    BY <1>6, EnoughKept DEF Prune
  <2>2. GivenUp'
    BY <1>6, <2>1 DEF Prune, GivenUp
  <2>3. Doomed'
    BY <1>6, <2>1 DEF Prune, Doomed, ArchivesInv, TypeInv, RetentionTypes
  <2>4. \A d \in Ids : disk'[d] = disk[d] \/ Enough(d)
    BY <1>6 DEF Prune, Unlink, ArchivesInv, TypeInv, FileTypes, RetentionTypes, RowInv, PathIsOwn, DoomInv,
       Doomed
  <2>5. KeptOrEnough'
    BY <1>3, <1>6, <2>1, <2>4 DEF Prune, KeptOrEnough, Finished
  <2>. QED
    BY <2>2, <2>3, <2>5 DEF RetentionInv
<1>7. CASE Purge(p)
  <2>0. at[p] = "prune" /\ doomed[p] \subseteq Ids
    BY <1>7 DEF Purge, Move, ArchivesInv, TypeInv, RetentionTypes
  <2>1. \A d \in Ids : Enough(d) => Enough(d)'
    BY <1>7, <2>0, EnoughStays DEF Purge
  <2>2. \A d \in Ids : status'[d] = IF d \in doomed[p] THEN "deleted" ELSE status[d]
    BY <1>7 DEF Purge
  <2>3. GivenUp'
    BY <2>0, <2>1, <2>2 DEF GivenUp, Doomed
  <2>4. Doomed'
    BY <1>1, <1>2, <1>7, <2>0, <2>1, ProcessFacts DEF Purge, Doomed, ArchivesInv, TypeInv, RetentionTypes
  <2>5. KeptOrEnough'
    BY <1>3, <1>7, <2>1, <2>2 DEF Purge, KeptOrEnough, Finished
  <2>. QED
    BY <2>3, <2>4, <2>5 DEF RetentionInv
<1>. QED
  BY <1>5, <1>6, <1>7 DEF RetentionStep

LEMMA StepRetention == ArchivesInv /\ RetentionInv /\ [Next]_vars => RetentionInv'
<1>. SUFFICES ASSUME ArchivesInv, RetentionInv, [Next]_vars PROVE RetentionInv'
  OBVIOUS
<1>1. CASE UNCHANGED vars \/ Restart
  BY <1>1 DEF vars, table, files, retention, Restart, RetentionInv, NoDeletes, GivenUp, Doomed, KeptOrEnough,
     Finished, Succeeded, Enough, Newer, Completed
<1>2. CASE Crash
  <2>1. \A p \in Processes : at'[p] \in Resting /\ (at'[p] = "new" <=> at[p] = "new")
    BY <1>2, Ended DEF ArchivesInv
  <2>2. NoDeletes' => NoDeletes
    BY <2>1, ProcessFacts DEF NoDeletes
  <2>3. \A d \in Ids : Enough(d) => Enough(d)'
    BY <1>2, EnoughKept DEF Crash, table
  <2>4. NoDeletes => GivenUp' /\ Doomed'
    BY <1>2, <2>1, <2>3, ProcessFacts
    DEF Crash, table, Resting, RetentionInv, GivenUp, Doomed
  <2>5. NoDeletes => KeptOrEnough'
    BY <1>2, <2>1, <2>3, ProcessFacts
    DEF Crash, table, files, Resting, RetentionInv, KeptOrEnough, Finished, Succeeded
  <2>. QED
    BY <2>2, <2>4, <2>5 DEF RetentionInv
<1>3. ASSUME NEW x \in Deletes, DeleteLook(x) \/ DeleteStep(x) PROVE RetentionInv'
  <2>1. at'[x] # "new"
    BY <1>3, ProcessFacts DEF DeleteLook, DeleteStep, DeleteUnlink, DeleteCommit, Move, Goto,
       ArchivesInv, TypeInv, PlaceTypes
  <2>. QED
    BY <2>1 DEF RetentionInv, NoDeletes
<1>. QED
  BY <1>1, <1>2, <1>3, InsertRetention, CreateRetention, RetentionRetention DEF Next

LEMMA RetentionHolds == ASSUME OwnSeconds PROVE Spec => [](ArchivesInv /\ RetentionInv)
<1>1. Init => RetentionInv
  BY ProcessFacts DEF Init, RetentionInv, GivenUp, Doomed, KeptOrEnough, Finished, Succeeded
<1>2. Spec => []ArchivesInv
  BY ArchivesHold
<1>. QED
  BY <1>1, <1>2, StepRetention, PTL DEF Spec

(* Whatever runs of schedules with whatever retentions overlap, and whatever *)
(* crashes, retention takes only backups that have enough newer ones.        *)
THEOREM RetentionKeepsEnough == OwnSeconds => (Spec => []RetentionKeeps)
<1>. SUFFICES ASSUME OwnSeconds PROVE Spec => []RetentionKeeps
  OBVIOUS
<1>1. ArchivesInv /\ RetentionInv => RetentionKeeps
  BY RestorableWhen
  DEF RetentionInv, GivenUp, KeptOrEnough, Finished, Enough, RetentionKeeps
<1>2. Spec => [](ArchivesInv /\ RetentionInv)
  BY RetentionHolds
<1>. QED
  BY <1>1, <1>2, PTL

-----------------------------------------------------------------------------
(* Archives and their owners, whatever the clock does.                       *)

(* The row d answers for what its path leads to: it is still there, and no   *)
(* retention that is about to remove it has passed its archive.              *)
Answers(d) ==
  /\ Live(d)
  /\ \A r \in Runs : (at[r] = "prune" /\ d \in doomed[r]) => d \in left[r]

OwnedInv ==
  NoDeletes => \A t \in Ids : disk[t] # None => \E d \in Ids : path[d] = t /\ Answers(d)

LEMMA InsertOwned ==
  ASSUME RowsInv, OwnedInv, NEW p \in Creators, Insert(p)
  PROVE  OwnedInv'
<1>1. p \in Processes /\ p \notin Deletes /\ made + 1 \in Ids /\ at[p] = "new" /\ at'[p] = "open"
  BY ProcessFacts DEF Insert, Move, Goto, RowsInv, TypeInv, RowTypes, PlaceTypes, Ids
<1>2. \A q \in Processes : q # p => at'[q] = at[q]
  BY <1>1 DEF Insert, Move, Goto, RowsInv, TypeInv, PlaceTypes
<1>3. status[made + 1] = "none"
  BY <1>1, ProcessFacts DEF RowsInv, RowInv, RowsMade, TypeInv, RowTypes
<1>4. \A d \in Ids : d # made + 1 => status'[d] = status[d] /\ path'[d] = path[d]
  BY <1>1 DEF Insert, RowsInv, TypeInv, RowTypes
<1>5. \A r \in Runs : at'[r] = "prune" => at[r] = "prune"
  BY <1>1, <1>2, ProcessFacts
<1>6. ASSUME NEW d \in Ids, Answers(d) PROVE Answers(d)' /\ path'[d] = path[d]
  BY <1>3, <1>4, <1>5, <1>6 DEF Insert, retention, Answers, Live
<1>7. NoDeletes' => NoDeletes
  BY <1>1, <1>2, ProcessFacts DEF NoDeletes
<1>. QED
  BY <1>6, <1>7 DEF Insert, files, OwnedInv

(* A backup being made answers for its path, and goes on doing so.           *)
LEMMA CreateOwned ==
  ASSUME RowsInv, OwnedInv, NEW p \in Creators, CreateStep(p)
  PROVE  OwnedInv'
<1>. USE DEF table, files, retention
<1>1. /\ p \in Processes /\ p \notin Deletes /\ at[p] \in Creating /\ mine[p] \in Ids /\ PathOf(p) = path[mine[p]]
      /\ path' = path /\ doomed' = doomed /\ left' = left
  BY ProcessFacts DEF CreateStep, Open, Write, Stat, Send, Except, Commit, Move, Creating, PathOf,
     RowsInv, TypeInv, Begun
<1>2. at'[p] # "prune" /\ \A q \in Processes : q # p => at'[q] = at[q]
  BY <1>1 DEF CreateStep, Open, Write, Stat, Send, Except, Commit, Raise, Complete, Move, Goto,
     RowsInv, TypeInv, PlaceTypes
<1>3. \A r \in Runs : at'[r] = "prune" => at[r] = "prune"
  BY <1>1, <1>2, ProcessFacts
<1>. SUFFICES ASSUME NoDeletes, NEW t \in Ids, disk'[t] # None
              PROVE  \E d \in Ids : path[d] = t /\ Answers(d)'
  BY <1>1, <1>2, ProcessFacts DEF OwnedInv, NoDeletes
<1>4. \A d \in Ids : Live(d) => Live(d)'
  BY <1>1 DEF CreateStep, Open, Write, Stat, Send, Except, Commit, Live, RowsInv, TypeInv, RowTypes,
     Statuses, OutcomeTypes
<1>5. \A d \in Ids : Answers(d) => Answers(d)'
  BY <1>1, <1>3, <1>4 DEF Answers
<1>6. CASE disk[t] # None
  BY <1>1, <1>5, <1>6 DEF OwnedInv
<1>7. CASE disk[t] = None
  <2>1. PathOf(p) = t
    BY <1>1, <1>7 DEF CreateStep, Open, Write, Stat, Send, Except, Commit, Unlink, RowsInv, TypeInv, FileTypes
  <2>2. status[mine[p]] = "creating"
    BY <1>1 DEF RowsInv, CreatingInv, StillCreating
  <2>3. \A r \in Runs : at[r] = "prune" => mine[p] \notin doomed[r]
    BY <1>1, <2>2 DEF RowsInv, DoomInv, Settled
  <2>4. Answers(mine[p])
    BY <2>2, <2>3 DEF Answers, Live
  <2>. QED
    BY <1>1, <1>5, <2>1, <2>4
<1>. QED
  BY <1>6, <1>7

LEMMA RetentionOwned ==
  ASSUME RowsInv, OwnedInv, NEW p \in Runs, RetentionStep(p)
  PROVE  OwnedInv'
<1>. USE DEF table, files, retention
<1>1. p \in Processes /\ p \notin Deletes /\ at[p] \in {"list", "prune"} /\ path' = path
  BY ProcessFacts DEF RetentionStep, List, Prune, Purge, Move
<1>2. \A q \in Processes : q # p => at'[q] = at[q]
  BY <1>1 DEF RetentionStep, List, Prune, Purge, Move, Goto, RowsInv, TypeInv, PlaceTypes
<1>. SUFFICES ASSUME NoDeletes, NEW t \in Ids, disk'[t] # None
              PROVE  \E d \in Ids : path[d] = t /\ Answers(d)'
  BY <1>1, <1>2, ProcessFacts DEF OwnedInv, NoDeletes
<1>3. disk[t] # None
  BY DEF RetentionStep, List, Prune, Purge, Unlink, RowsInv, TypeInv, FileTypes
<1>4. PICK d \in Ids : path[d] = t /\ Answers(d)
  BY <1>3 DEF OwnedInv
<1>5. CASE List(p)
  <2>1. \A r \in Runs : (at'[r] = "prune" /\ d \in doomed'[r]) => d \in left'[r]
    BY <1>1, <1>2, <1>4, <1>5, ProcessFacts
    DEF List, Move, Goto, Answers, RowsInv, TypeInv, PlaceTypes, RetentionTypes
  <2>. QED
    BY <1>4, <1>5, <2>1 DEF List, Answers, Live
<1>6. CASE Prune(p)
  <2>1. PICK e \in left[p] : Unlink(path[e]) /\ left' = [left EXCEPT ![p] = @ \ {e}]
    BY <1>6 DEF Prune
  <2>2. d # e
    BY <1>4, <2>1 DEF Unlink, RowsInv, TypeInv, FileTypes
  <2>3. \A r \in Runs : d \in left[r] => d \in left'[r]
    BY <2>1, <2>2 DEF RowsInv, TypeInv, RetentionTypes
  <2>. QED
    BY <1>4, <1>6, <2>3 DEF Prune, Answers, Live
<1>7. CASE Purge(p)
  <2>1. d \notin doomed[p] /\ status'[d] = status[d]
    BY <1>4, <1>7 DEF Purge, Move, Answers
  <2>2. \A r \in Runs : at'[r] = "prune" => at[r] = "prune"
    BY <1>1, <1>2, <1>7, ProcessFacts DEF Purge, Move, Goto, RowsInv, TypeInv, PlaceTypes
  <2>. QED
    BY <1>4, <1>7, <2>1, <2>2 DEF Purge, Answers, Live
<1>. QED
  BY <1>5, <1>6, <1>7 DEF RetentionStep

LEMMA StepOwned == RowsInv /\ OwnedInv /\ [Next]_vars => OwnedInv'
<1>. SUFFICES ASSUME RowsInv, OwnedInv, [Next]_vars PROVE OwnedInv'
  OBVIOUS
<1>1. CASE UNCHANGED vars \/ Restart
  BY <1>1 DEF vars, table, files, retention, Restart, OwnedInv, NoDeletes, Answers, Live
<1>2. CASE Crash
  <2>1. NoDeletes' => NoDeletes
    BY <1>2, ProcessFacts DEF Crash, NoDeletes
  <2>2. \A r \in Runs : at'[r] # "prune"
    BY <1>2, ProcessFacts DEF Crash
  <2>. QED
    BY <1>2, <2>1, <2>2 DEF Crash, table, files, retention, OwnedInv, Answers, Live
<1>3. ASSUME NEW x \in Deletes, DeleteLook(x) \/ DeleteStep(x) PROVE OwnedInv'
  <2>1. at'[x] # "new"
    BY <1>3, ProcessFacts DEF DeleteLook, DeleteStep, DeleteUnlink, DeleteCommit, Move, Goto,
       RowsInv, TypeInv, PlaceTypes
  <2>. QED
    BY <2>1 DEF OwnedInv, NoDeletes
<1>. QED
  BY <1>1, <1>2, <1>3, InsertOwned, CreateOwned, RetentionOwned DEF Next

(* Whatever failures, crashes and overlapping retentions there are, and      *)
(* however many backups begin in one second and share an archive, what is on *)
(* disk belongs to a row that is still listed, unless a user deleted a       *)
(* backup.                                                                   *)
THEOREM ArchivesAreOwned == Spec => []ArchivesOwned
<1>1. Init => OwnedInv
  BY DEF Init, OwnedInv
<1>2. RowsInv /\ OwnedInv => ArchivesOwned
  BY DEF OwnedInv, Answers, ArchivesOwned
<1>3. Spec => []RowsInv
  BY RowsHold
<1>. QED
  BY <1>1, <1>2, <1>3, StepOwned, PTL DEF Spec
=============================================================================
