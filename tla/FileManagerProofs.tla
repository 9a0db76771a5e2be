------------------------- MODULE FileManagerProofs -------------------------
(***************************************************************************)
(* Proofs about FileManager, for any tree of directories and any number of *)
(* listings, operations and visited directories.                            *)
(***************************************************************************)
EXTENDS FileManager, SequenceTheorems, FiniteSetTheorems, TLAPS

-----------------------------------------------------------------------------
(* The tree of the server.                                                   *)

LEMMA EntryIs ==
  /\ \A e \in Entries : Parent[e] \in Dirs
  /\ \A d \in Dirs : d # Root => d \in Entries
BY FileManagerAssumption DEF Entries

(* What is above an entry is a tree, the entry in it, and what is above the  *)
(* directory of an entry is above the entry.                                 *)
LEMMA AboveIs ==
  ASSUME NEW e \in Entries
  PROVE  /\ Above[e] \in Trees
         /\ e \in Above[e]
         /\ Parent[e] # Root => Above[Parent[e]] \subseteq Above[e]
<1>1. \A f \in Entries : \A x : x \in Above[f] <=> x \in Entries /\ \A T \in Trees : f \in T => x \in T
  BY DEF Above
<1>2. ASSUME NEW x \in Above[e] PROVE Parent[x] = Root \/ Parent[x] \in Above[e]
  <2>1. x \in Entries /\ \A T \in Trees : e \in T => x \in T
    BY <1>1
  <2>2. ASSUME NEW T \in Trees, e \in T PROVE Parent[x] = Root \/ Parent[x] \in T
    BY <2>1, <2>2 DEF Trees
  <2>. QED
    BY <1>1, <2>1, <2>2, EntryIs
<1>3. Above[e] \in Trees
  BY <1>1, <1>2 DEF Trees
<1>4. ASSUME Parent[e] # Root, NEW x \in Above[Parent[e]] PROVE x \in Above[e]
  <2>1. Parent[e] \in Entries
    BY <1>4, EntryIs
  <2>2. ASSUME NEW T \in Trees, e \in T PROVE x \in T
    <3>1. Parent[e] \in T
      BY <1>4, <2>2 DEF Trees
    <3>. QED
      BY <1>1, <1>4, <2>1, <3>1
  <2>. QED
    BY <1>1, <1>4, <2>1, <2>2
<1>. QED
  BY <1>1, <1>3, <1>4

LEMMA UnionIsTree ==
  ASSUME NEW S \in Trees, NEW T \in Trees
  PROVE  S \cup T \in Trees
BY DEF Trees

LEMMA WithParentsIsTree ==
  ASSUME NEW S \in SUBSET Entries
  PROVE  WithParents(S) \in Trees /\ S \subseteq WithParents(S)
<1>1. \A e \in S : Above[e] \in Trees /\ e \in Above[e]
  BY AboveIs
<1>. QED
  BY <1>1 DEF WithParents, Trees

LEMMA WithoutIsTree ==
  ASSUME tree \in Trees, NEW S
  PROVE  Without(S) \in Trees
<1>1. tree \subseteq Entries
  BY DEF Trees
<1>2. ASSUME NEW e \in Without(S) PROVE Parent[e] = Root \/ Parent[e] \in Without(S)
  <2>1. e \in tree /\ e \in Entries /\ Above[e] \cap S = {}
    BY <1>1 DEF Without
  <2>2. CASE Parent[e] # Root
    <3>1. Parent[e] \in tree
      BY <2>1, <2>2 DEF Trees
    <3>2. Above[Parent[e]] \cap S = {}
      BY <2>1, <2>2, AboveIs
    <3>. QED
      BY <3>1, <3>2 DEF Without
  <2>. QED
    BY <2>2
<1>. QED
  BY <1>1, <1>2 DEF Without, Trees

-----------------------------------------------------------------------------
(* Types.  What an answer found is in the directory that was asked for, a    *)
(* slot without an operation has no requests left, and the listings and the  *)
(* operations in flight are counted together: an operation that ends turns   *)
(* into a listing.                                                           *)

LoadRec ==
  {l \in [answered : BOOLEAN, stale : BOOLEAN, dir : Dirs, found : SUBSET Entries,
          visit : Seq(Dirs), to : 0 .. MaxHistory] :
     /\ l.found \subseteq Children(l.dir)
     /\ Len(l.visit) <= MaxHistory}

OpRec ==
  {q \in [kind : Kinds, stale : BOOLEAN, dir : Dirs, left : SUBSET Requests] : q.kind = "idle" => q.left = {}}

Busy == {o \in OpSlots : ops[o].kind # "idle"}

ScreenTypes ==
  /\ path \in Dirs
  /\ items \subseteq Children(path)
  /\ selected \subseteq items
  /\ visited \in Seq(Dirs) /\ Len(visited) \in 1 .. MaxHistory
  /\ index \in 1 .. MaxHistory
  /\ loading \in BOOLEAN

InFlight ==
  /\ loads \in Seq(LoadRec)
  /\ ops \in [OpSlots -> OpRec]
  /\ Len(loads) + Cardinality(Busy) <= MaxFlying

TypeInv ==
  /\ ScreenTypes
  /\ InFlight
  /\ tree \in Trees
  /\ doubt \in BOOLEAN
  /\ strayed \in BOOLEAN

LEMMA BusyIs ==
  /\ IsFiniteSet(Busy)
  /\ Cardinality(Busy) \in Nat
<1>1. IsFiniteSet(OpSlots)
  BY FileManagerAssumption, FS_Interval DEF OpSlots
<1>2. Busy \subseteq OpSlots
  BY DEF Busy
<1>. QED
  BY <1>1, <1>2, FS_Subset, FS_CardinalityType

LEMMA TypeInvImplies == TypeInv => TypeOK /\ SelectedListed /\ tree \in Trees
<1>. SUFFICES ASSUME TypeInv PROVE TypeOK /\ SelectedListed
  BY DEF TypeInv
<1>1. Len(loads) \in Nat /\ Len(loads) <= MaxFlying
  BY BusyIs, FileManagerAssumption DEF TypeInv, InFlight
<1>2. \A i \in DOMAIN loads : loads[i] \in LoadRec
  BY DEF TypeInv, InFlight
<1>3. \A i \in DOMAIN loads : loads[i].dir \in Dirs /\ loads[i].found \subseteq Entries
  BY <1>2 DEF LoadRec
<1>4. \A o \in OpSlots : ops[o] \in OpRec
  BY DEF TypeInv, InFlight
<1>5. \A o \in OpSlots : /\ ops[o].kind \in Kinds
                         /\ ops[o].dir \in Dirs
                         /\ ops[o].left \subseteq Requests
  BY <1>4 DEF OpRec
<1>6. /\ path \in Dirs
      /\ items \subseteq Entries
      /\ selected \subseteq Entries
      /\ visited \in Seq(Dirs) /\ Len(visited) \in 1 .. MaxHistory
      /\ index \in 1 .. MaxHistory
      /\ loading \in BOOLEAN
      /\ SelectedListed
  BY DEF TypeInv, ScreenTypes, Children, SelectedListed
<1>7. tree \subseteq Entries /\ doubt \in BOOLEAN /\ strayed \in BOOLEAN
  BY DEF TypeInv, Trees
<1>. QED
  BY <1>1, <1>3, <1>5, <1>6, <1>7 DEF TypeOK

(* What RemoveAt leaves of a sequence.                                       *)
LEMMA RemoveAtIs ==
  ASSUME NEW S, NEW s \in Seq(S), NEW i \in DOMAIN s
  PROVE  RemoveAt(s, i) \in Seq(S) /\ Len(RemoveAt(s, i)) = Len(s) - 1
<1>. DEFINE a == SubSeq(s, 1, i - 1)
            b == SubSeq(s, i + 1, Len(s))
<1>1. i \in 1 .. Len(s) /\ Len(s) \in Nat /\ \A j \in 1 .. Len(s) : s[j] \in S
  OBVIOUS
<1>2. a \in Seq(S) /\ Len(a) = i - 1
  <2>1. i - 1 \in Int /\ \A j \in 1 .. i - 1 : s[j] \in S
    BY <1>1
  <2>. QED
    BY <1>1, <2>1, SubSeqProperties
<1>3. b \in Seq(S) /\ Len(b) = Len(s) - i
  <2>1. i + 1 \in Int /\ \A j \in i + 1 .. Len(s) : s[j] \in S
    BY <1>1
  <2>2. b \in Seq(S) /\ Len(b) = IF i + 1 <= Len(s) THEN Len(s) - (i + 1) + 1 ELSE 0
    BY <1>1, <2>1, SubSeqProperties
  <2>. HIDE DEF b
  <2>. QED
    BY <1>1, <2>2
<1>4. RemoveAt(s, i) = a \o b
  BY DEF RemoveAt
<1>. HIDE DEF a, b
<1>5. a \o b \in Seq(S) /\ Len(a \o b) = Len(a) + Len(b)
  BY <1>2, <1>3, ConcatProperties
<1>. QED
  BY <1>1, <1>2, <1>3, <1>4, <1>5
LEMMA LoadIs ==
  ASSUME TypeInv, NEW i \in DOMAIN loads
  PROVE  /\ i \in 1 .. Len(loads) /\ Len(loads) \in Nat
         /\ loads[i] \in LoadRec
         /\ loads[i].dir \in Dirs
         /\ loads[i].found \subseteq Children(loads[i].dir)
         /\ loads[i].visit \in Seq(Dirs) /\ Len(loads[i].visit) <= MaxHistory
         /\ loads[i].to \in 0 .. MaxHistory /\ loads[i].stale \in BOOLEAN
<1>1. i \in 1 .. Len(loads) /\ Len(loads) \in Nat /\ loads[i] \in LoadRec
  BY DEF TypeInv, InFlight
<1>. QED
  BY <1>1 DEF LoadRec

LEMMA OpIs ==
  ASSUME TypeInv, NEW o \in OpSlots
  PROVE  /\ ops[o] \in OpRec
         /\ ops[o].kind \in Kinds
         /\ ops[o].dir \in Dirs
         /\ ops[o].left \subseteq Requests
         /\ ops[o].left # {} => ops[o].kind # "idle"
         /\ ops[o].stale \in BOOLEAN
<1>1. ops[o] \in OpRec
  BY DEF TypeInv, InFlight
<1>. QED
  BY <1>1 DEF OpRec

LEMMA NoOpType == NoOp \in OpRec
BY FileManagerAssumption DEF NoOp, OpRec, Kinds

-----------------------------------------------------------------------------
(* What is in flight.                                                        *)

LEMMA LoadType ==
  ASSUME NEW d \in Dirs, NEW v \in Seq(Dirs), Len(v) <= MaxHistory, NEW to \in 0 .. MaxHistory
  PROVE  Load(d, v, to) \in LoadRec /\ [Load(d, v, to) EXCEPT !.stale = TRUE] \in LoadRec
BY DEF Load, LoadRec

LEMMA ListingType ==
  ASSUME NEW d \in Dirs
  PROVE  Load(d, <<>>, 0) \in LoadRec /\ [Load(d, <<>>, 0) EXCEPT !.stale = TRUE] \in LoadRec
<1>1. 0 \in 0 .. MaxHistory /\ <<>> \in Seq(Dirs) /\ Len(<<>>) <= MaxHistory
  BY FileManagerAssumption
<1>. QED
  BY <1>1, LoadType, Zenon

LEMMA Sent ==
  ASSUME TypeInv, NEW l \in LoadRec, AskFor(l)
  PROVE  /\ loads' \in Seq(LoadRec) /\ Len(loads') = Len(loads) + 1
         /\ loads = <<>> => Len(loads') = 1 /\ loads'[1] = l
         /\ loading' \in BOOLEAN
<1>1. loads' = Append(loads, l) /\ loads \in Seq(LoadRec)
  BY DEF AskFor, TypeInv, InFlight
<1>2. loads' \in Seq(LoadRec) /\ Len(loads') = Len(loads) + 1 /\ loads'[Len(loads) + 1] = l
  BY <1>1, AppendProperties
<1>. QED
  BY <1>1, <1>2 DEF AskFor

LEMMA Asked ==
  ASSUME TypeInv, NEW d \in Dirs, NEW v \in Seq(Dirs), Len(v) <= MaxHistory,
         NEW to \in 0 .. MaxHistory, Ask(d, v, to)
  PROVE  /\ loads' \in Seq(LoadRec) /\ Len(loads') = Len(loads) + 1
         /\ loads = <<>> => Len(loads') = 1 /\ loads'[1] = Load(d, v, to)
         /\ loading' \in BOOLEAN
BY LoadType, Sent DEF Ask

LEMMA Ended ==
  ASSUME TypeInv, NEW i \in DOMAIN loads, loads' = RemoveAt(loads, i), UNCHANGED ops
  PROVE  InFlight' /\ (Len(loads) <= 1 => loads' = <<>>)
<1>1. loads' \in Seq(LoadRec) /\ Len(loads') = Len(loads) - 1
  BY RemoveAtIs DEF TypeInv, InFlight
<1>2. Busy' = Busy
  BY DEF Busy
<1>. QED
  BY <1>1, <1>2, LoadIs, BusyIs, FileManagerAssumption DEF TypeInv, InFlight

(* The slot that is taken is counted, and the slot that is left is not.      *)
LEMMA SlotTaken ==
  ASSUME TypeInv, NEW o \in OpSlots, NEW q \in OpRec, ops' = [ops EXCEPT ![o] = q]
  PROVE  /\ ops' \in [OpSlots -> OpRec]
         /\ ops'[o] = q /\ \A p \in OpSlots : p # o => ops'[p] = ops[p]
         /\ ops[o].kind = "idle" /\ q.kind # "idle" => Cardinality(Busy') = Cardinality(Busy) + 1
         /\ ops[o].kind # "idle" /\ q.kind = "idle" => Cardinality(Busy') = Cardinality(Busy) - 1
         /\ ops[o].kind # "idle" /\ q.kind # "idle" => Busy' = Busy
<1>1. /\ ops' \in [OpSlots -> OpRec]
      /\ ops'[o] = q /\ \A p \in OpSlots : p # o => ops'[p] = ops[p]
  BY DEF TypeInv, InFlight
<1>2. Busy' = {p \in OpSlots : ops'[p].kind # "idle"}
  BY DEF Busy
<1>3. ASSUME ops[o].kind = "idle", q.kind # "idle"
      PROVE  Cardinality(Busy') = Cardinality(Busy) + 1
  <2>1. Busy' = Busy \cup {o} /\ o \notin Busy
    BY <1>1, <1>2, <1>3 DEF Busy
  <2>. QED
    BY <2>1, BusyIs, FS_AddElement
<1>4. ASSUME ops[o].kind # "idle", q.kind = "idle"
      PROVE  Cardinality(Busy') = Cardinality(Busy) - 1
  <2>1. Busy' = Busy \ {o} /\ o \in Busy
    BY <1>1, <1>2, <1>4 DEF Busy
  <2>. QED
    BY <2>1, BusyIs, FS_RemoveElement
<1>5. ASSUME ops[o].kind # "idle", q.kind # "idle"
      PROVE  Busy' = Busy
  BY <1>1, <1>2, <1>5 DEF Busy
<1>. QED
  BY <1>1, <1>3, <1>4, <1>5

-----------------------------------------------------------------------------
(* Types are kept.                                                           *)

LEMMA InitTypes == Init => TypeInv
<1>. SUFFICES ASSUME Init PROVE TypeInv
  OBVIOUS
<1>1. ScreenTypes
  BY FileManagerAssumption DEF Init, ScreenTypes
<1>2. InFlight
  <2>1. Load(Root, <<>>, 0) \in LoadRec
    BY ListingType, FileManagerAssumption
  <2>2. loads \in Seq(LoadRec) /\ Len(loads) = 1
    BY <2>1 DEF Init
  <2>3. ops \in [OpSlots -> OpRec]
    BY NoOpType DEF Init
  <2>4. Busy = {}
    BY DEF Busy, Init, NoOp
  <2>. QED
    BY <2>2, <2>3, <2>4, FS_EmptySet, FileManagerAssumption DEF InFlight
<1>3. tree \in Trees
  BY EntryIs DEF Init, Trees
<1>. QED
  BY <1>1, <1>2, <1>3 DEF Init, TypeInv

LEMMA AnswerTypes ==
  ASSUME TypeInv, NEW i \in DOMAIN loads, Answer(i)
  PROVE  /\ TypeInv'
         /\ loads' = [loads EXCEPT ![i] = loads'[i]]
         /\ loads'[i].dir = loads[i].dir /\ loads'[i].visit = loads[i].visit
         /\ loads'[i].to = loads[i].to /\ ~loads'[i].stale
         /\ loads'[i].found = Children(loads[i].dir) \cap tree
<1>. DEFINE l == [loads[i] EXCEPT !.answered = TRUE, !.found = Children(loads[i].dir) \cap tree]
<1>1. loads' = [loads EXCEPT ![i] = l]
  BY DEF Answer
<1>2. /\ l \in LoadRec /\ l.dir = loads[i].dir /\ l.visit = loads[i].visit /\ l.to = loads[i].to
      /\ ~l.stale /\ l.found = Children(loads[i].dir) \cap tree
  BY LoadIs DEF Answer, LoadRec, Children
<1>. HIDE DEF l
<1>3. loads' \in Seq(LoadRec) /\ Len(loads') = Len(loads) /\ loads'[i] = l
  BY <1>1, <1>2 DEF TypeInv, InFlight
<1>4. Busy' = Busy
  BY DEF Busy, Answer
<1>5. InFlight'
  BY <1>3, <1>4 DEF Answer, TypeInv, InFlight
<1>6. ScreenTypes'
  BY DEF Answer, TypeInv, ScreenTypes, screen, Children
<1>. QED
  BY <1>1, <1>2, <1>3, <1>5, <1>6 DEF Answer, TypeInv

(* What follows a listing sets a history and an index that are in bounds.    *)
LEMMA ContinueTypes ==
  ASSUME TypeInv, NEW i \in DOMAIN loads, Continue(loads[i])
  PROVE  /\ visited' \in Seq(Dirs) /\ Len(visited') \in 1 .. MaxHistory
         /\ index' \in 1 .. MaxHistory
<1>1. visited' \in Seq(Dirs) /\ Len(visited') \in 1 .. MaxHistory
  <2>1. CASE loads[i].visit # <<>>
    BY <2>1, LoadIs, EmptySeq, FileManagerAssumption DEF Continue
  <2>2. CASE loads[i].visit = <<>>
    BY <2>2 DEF Continue, TypeInv, ScreenTypes
  <2>. QED
    BY <2>1, <2>2
<1>2. index' \in 1 .. MaxHistory
  BY LoadIs, FileManagerAssumption DEF Continue, TypeInv, ScreenTypes
<1>. QED
  BY <1>1, <1>2

LEMMA LoadStepTypes ==
  ASSUME TypeInv, NEW i \in DOMAIN loads, LoadStep(i)
  PROVE  TypeInv'
<1>1. CASE Answer(i)
  BY <1>1, AnswerTypes
<1>2. CASE Deliver(i)
  <2>1. InFlight'
    BY <1>2, Ended DEF Deliver
  <2>2. items' \subseteq Children(loads[i].dir)
    BY <1>2, LoadIs DEF Deliver, Finds
  <2>3. ScreenTypes'
    BY <1>2, <2>2, ContinueTypes, LoadIs DEF Deliver, ScreenTypes, SelectionReset, Children
  <2>. QED
    BY <1>2, <2>1, <2>3 DEF Deliver, TypeInv
<1>3. CASE Reject(i)
  <2>1. InFlight'
    BY <1>3, Ended DEF Reject
  <2>2. ScreenTypes'
    BY <1>3, ContinueTypes DEF Reject, ScreenTypes, Children, TypeInv
  <2>. QED
    BY <1>3, <2>1, <2>2 DEF Reject, TypeInv
<1>. QED
  BY <1>1, <1>2, <1>3 DEF LoadStep
(* Asking for a directory while there is room.                               *)
LEMMA AskTypes ==
  ASSUME TypeInv, NEW d \in Dirs, NEW v \in Seq(Dirs), Len(v) <= MaxHistory,
         NEW to \in 0 .. MaxHistory, Room, Ask(d, v, to),
         UNCHANGED <<path, items, selected, visited, index, ops, tree>>,
         doubt' \in BOOLEAN, strayed' \in BOOLEAN
  PROVE  TypeInv'
<1>1. loads' \in Seq(LoadRec) /\ Len(loads') = Len(loads) + 1 /\ loading' \in BOOLEAN
  BY Asked
<1>2. Busy' = Busy /\ Len(loads) + Cardinality(Busy) < MaxFlying
  BY DEF Busy, Room
<1>3. InFlight'
  BY <1>1, <1>2, BusyIs, LenProperties, FileManagerAssumption DEF TypeInv, InFlight
<1>4. ScreenTypes'
  BY <1>1 DEF TypeInv, ScreenTypes, Children
<1>. QED
  BY <1>3, <1>4 DEF TypeInv

(* The history a visit leaves, and where it ends.                            *)
LEMMA VisitIs ==
  ASSUME TypeInv, NEW d \in Dirs
  PROVE  /\ Visit(d).visit \in Seq(Dirs) /\ Visit(d).visit # <<>>
         /\ Visit(d).at = Len(Visit(d).visit) /\ Visit(d).at \in Nat \ {0}
         /\ Visit(d).visit[Visit(d).at] = d
<1>. DEFINE upTo == IF index < Len(visited) THEN index ELSE Len(visited)
            kept == SubSeq(visited, 1, upTo)
<1>1. upTo \in 1 .. Len(visited) /\ \A j \in 1 .. upTo : visited[j] \in Dirs
  BY FileManagerAssumption DEF TypeInv, ScreenTypes
<1>2. kept \in Seq(Dirs) /\ Len(kept) \in Nat
  <2>. HIDE DEF upTo
  <2>. QED
    BY <1>1, SubSeqProperties, LenProperties
<1>3. Visit(d).visit = Append(kept, d) /\ Visit(d).at = Len(Append(kept, d))
  BY Zenon DEF Visit
<1>. HIDE DEF kept
<1>. QED
  BY <1>2, <1>3, AppendProperties

LEMMA ReadingTypes ==
  ASSUME TypeInv,
         \/ \E e \in Entries : Toggle(e)
         \/ SelectAll
         \/ Refresh
         \/ \E d \in Dirs : NavigatePath(d)
         \/ \E to \in 1 .. MaxHistory : Travel(to)
  PROVE  TypeInv'
<1>0. path \in Dirs /\ doubt \in BOOLEAN /\ strayed \in BOOLEAN
  BY DEF TypeInv, ScreenTypes
<1>1. ASSUME UNCHANGED <<path, items, visited, index, loading, loads, ops, tree, doubt, strayed>>,
             selected' \subseteq items
      PROVE  TypeInv'
  BY <1>1 DEF TypeInv, ScreenTypes, InFlight, Busy, Children
<1>2. ASSUME NEW e \in Entries, Toggle(e) PROVE TypeInv'
  BY <1>1, <1>2 DEF Toggle, TypeInv, ScreenTypes
<1>3. CASE SelectAll
  BY <1>1, <1>3 DEF SelectAll
<1>4. CASE Refresh
  <2>1. doubt' \in BOOLEAN /\ strayed' \in BOOLEAN
    BY <1>4, Zenon DEF Refresh
  <2>2. 0 \in 0 .. MaxHistory /\ <<>> \in Seq(Dirs) /\ Len(<<>>) <= MaxHistory
    BY FileManagerAssumption
  <2>3. /\ Room /\ Ask(path, <<>>, 0)
        /\ UNCHANGED <<path, items, selected, visited, index, ops, tree>>
    BY <1>4, Zenon DEF Refresh
  <2>. QED
    BY <1>0, <2>1, <2>2, <2>3, AskTypes
<1>5. ASSUME NEW d \in Dirs, NavigatePath(d) PROVE TypeInv'
  <2>1. doubt' \in BOOLEAN /\ strayed' \in BOOLEAN
    BY <1>5, Zenon DEF NavigatePath
  <2>2. /\ Visit(d).visit \in Seq(Dirs) /\ Len(Visit(d).visit) <= MaxHistory
        /\ Visit(d).at \in 0 .. MaxHistory
    BY <1>5, VisitIs, FileManagerAssumption DEF NavigatePath
  <2>. QED
    BY <1>5, <2>1, <2>2, AskTypes DEF NavigatePath
<1>6. ASSUME NEW to \in 1 .. MaxHistory, Travel(to) PROVE TypeInv'
  <2>1. doubt' \in BOOLEAN /\ strayed' \in BOOLEAN
    BY <1>6, Zenon DEF Travel
  <2>2. to \in 1 .. Len(visited) /\ visited[to] \in Dirs
    BY <1>6 DEF Travel, TypeInv, ScreenTypes
  <2>3. to \in 0 .. MaxHistory /\ <<>> \in Seq(Dirs) /\ Len(<<>>) <= MaxHistory
    BY FileManagerAssumption
  <2>4. /\ Room /\ Ask(visited[to], <<>>, to)
        /\ UNCHANGED <<path, items, selected, visited, index, ops, tree>>
    BY <1>6, Zenon DEF Travel
  <2>. QED
    BY <2>1, <2>2, <2>3, <2>4, AskTypes
<1>. QED
  BY <1>2, <1>3, <1>4, <1>5, <1>6

(* An operation takes a slot: only one.                                      *)
LEMMA BeginIs ==
  ASSUME TypeInv, NEW kind \in {"plain", "extract"}, NEW requests \in SUBSET Requests,
         Begin(kind, requests)
  PROVE  /\ TypeInv'
         /\ \E o \in OpSlots : /\ ops[o].kind = "idle" /\ ops'[o].kind # "idle" /\ ~ops'[o].stale
                              /\ \A p \in OpSlots : p # o => ops'[p] = ops[p]
<1>1. PICK o \in OpSlots :
        /\ ops[o].kind = "idle"
        /\ ops' = [ops EXCEPT ![o] = [kind |-> kind, stale |-> FALSE, dir |-> path, left |-> requests]]
  BY DEF Begin
<1>. DEFINE q == [kind |-> kind, stale |-> FALSE, dir |-> path, left |-> requests]
<1>2. q \in OpRec /\ q.kind # "idle" /\ ~q.stale
  BY DEF TypeInv, ScreenTypes, OpRec, Kinds
<1>. HIDE DEF q
<1>3. /\ ops' \in [OpSlots -> OpRec] /\ ops'[o] = q /\ Cardinality(Busy') = Cardinality(Busy) + 1
      /\ \A p \in OpSlots : p # o => ops'[p] = ops[p]
  BY <1>1, <1>2, SlotTaken DEF q
<1>4. Len(loads) + Cardinality(Busy) < MaxFlying
  BY DEF Begin, Room, Busy
<1>5. InFlight'
  BY <1>3, <1>4, BusyIs, LenProperties, FileManagerAssumption DEF Begin, TypeInv, InFlight
<1>6. ScreenTypes'
  BY DEF Begin, TypeInv, ScreenTypes, screen, Children
<1>7. doubt' \in BOOLEAN /\ strayed' \in BOOLEAN /\ tree' = tree
  BY Zenon DEF Begin
<1>. QED
  BY <1>1, <1>2, <1>3, <1>5, <1>6, <1>7 DEF TypeInv

Asking ==
  \/ RemoveSelected
  \/ Upload
  \/ Create
  \/ \E copy \in BOOLEAN : RenameOrMove(copy)
  \/ Compress
  \/ Extract

LEMMA AskingIsBegin ==
  ASSUME TypeInv, Asking
  PROVE  \E kind \in {"plain", "extract"}, requests \in SUBSET Requests : Begin(kind, requests)
<1>0. /\ selected \subseteq Entries /\ {path} \ {Root} \subseteq Entries
      /\ Children(path) \subseteq Entries /\ Zips \subseteq Entries
  BY EntryIs, FileManagerAssumption DEF TypeInv, ScreenTypes, Children, Entries
<1>1. ASSUME NEW needs \in SUBSET Entries, NEW drops \in SUBSET Entries, NEW makes \in SUBSET Entries
      PROVE  Req(needs, drops, makes) \in Requests
  BY DEF Req, Requests
<1>2. CASE RemoveSelected
  <2>1. \A e \in selected : Req({e}, {e}, {}) \in Requests
    BY <1>0, <1>1
  <2>2. {Req({e}, {e}, {}) : e \in selected} \in SUBSET Requests
    BY <2>1, Zenon
  <2>. QED
    BY <1>2, <2>2 DEF RemoveSelected
<1>3. CASE Upload
  <2>1. PICK new \in SUBSET (Children(path) \cap Files) :
          Begin("plain", {Req({path} \ {Root}, {}, {e}) : e \in new})
    BY <1>3 DEF Upload
  <2>2. \A e \in new : Req({path} \ {Root}, {}, {e}) \in Requests
    BY <1>0, <1>1
  <2>3. {Req({path} \ {Root}, {}, {e}) : e \in new} \in SUBSET Requests
    BY <2>2, Zenon
  <2>. QED
    BY <2>1, <2>3
<1>4. CASE Create
  BY <1>0, <1>1, <1>4 DEF Create
<1>5. ASSUME NEW copy \in BOOLEAN, RenameOrMove(copy)
      PROVE  \E kind \in {"plain", "extract"}, requests \in SUBSET Requests : Begin(kind, requests)
  <2>1. PICK e \in selected, to \in Entries :
          \/ Begin("plain", {Req({e}, {}, {to})})
          \/ Begin("plain", {Req({e}, {e}, {to})})
    BY <1>5, Zenon DEF RenameOrMove
  <2>2. {Req({e}, {}, {to})} \in SUBSET Requests /\ {Req({e}, {e}, {to})} \in SUBSET Requests
    BY <1>0, <1>1
  <2>. QED
    BY <2>1, <2>2
<1>6. CASE Compress
  BY <1>0, <1>1, <1>6 DEF Compress
<1>7. CASE Extract
  <2>1. PICK z \in selected \cap Zips, found \in SUBSET Children(path) :
          Begin("extract", {Req({z}, {}, found \cup ({path} \ {Root}))})
    BY <1>7 DEF Extract
  <2>2. {Req({z}, {}, found \cup ({path} \ {Root}))} \in SUBSET Requests
    BY <1>0, <1>1
  <2>. QED
    BY <2>1, <2>2
<1>. QED
  BY <1>2, <1>3, <1>4, <1>5, <1>6, <1>7 DEF Asking
LEMMA ServeTypes ==
  ASSUME TypeInv, NEW o \in OpSlots, Serve(o)
  PROVE  /\ TypeInv'
         /\ ops[o].kind # "idle" /\ ops'[o].kind # "idle" /\ ops'[o].stale = ops[o].stale
         /\ \A p \in OpSlots : p # o => ops'[p] = ops[p]
<1>1. PICK r \in ops[o].left :
        /\ tree' = tree \/ tree' = Without(r.drops) \cup WithParents(r.makes)
        /\ ops' = [ops EXCEPT ![o].left = @ \ {r}, ![o].kind = "plain"]
  BY DEF Serve, Taken
<1>2. r \in Requests /\ r.makes \in SUBSET Entries
  BY <1>1, OpIs DEF Requests
<1>3. tree' \in Trees
  BY <1>1, <1>2, WithoutIsTree, WithParentsIsTree, UnionIsTree DEF TypeInv
<1>. DEFINE q == [kind |-> "plain", stale |-> ops[o].stale, dir |-> ops[o].dir, left |-> ops[o].left \ {r}]
<1>4. q \in OpRec /\ q.kind # "idle" /\ q.stale = ops[o].stale
  BY OpIs DEF OpRec, Kinds
<1>5. ops' = [ops EXCEPT ![o] = q]
  <2>1. ops[o] \in [kind : Kinds, stale : BOOLEAN, dir : Dirs, left : SUBSET Requests] /\ ops \in [OpSlots -> OpRec]
    BY OpIs DEF OpRec, TypeInv, InFlight
  <2>2. ops'[o] = q /\ \A p \in OpSlots : p # o => ops'[p] = ops[p]
    BY <1>1, <2>1
  <2>3. ops' = [p \in OpSlots |-> ops'[p]]
    BY <1>1, <2>1
  <2>. HIDE DEF q
  <2>. QED
    BY <2>1, <2>2, <2>3, Zenon
<1>. HIDE DEF q
<1>6. ops[o].kind # "idle"
  BY <1>1, OpIs
<1>7. /\ ops' \in [OpSlots -> OpRec] /\ ops'[o] = q /\ Busy' = Busy
      /\ \A p \in OpSlots : p # o => ops'[p] = ops[p]
  BY <1>4, <1>5, <1>6, SlotTaken
<1>8. InFlight'
  BY <1>7 DEF Serve, TypeInv, InFlight
<1>9. ScreenTypes'
  BY DEF Serve, TypeInv, ScreenTypes, screen, Children
<1>. QED
  BY <1>3, <1>4, <1>6, <1>7, <1>8, <1>9 DEF Serve, TypeInv

LEMMA RefuseTypes ==
  ASSUME TypeInv, NEW o \in OpSlots, Refuse(o)
  PROVE  /\ TypeInv'
         /\ ops[o].kind # "idle" /\ ops'[o].kind = "idle"
         /\ \A p \in OpSlots : p # o => ops'[p] = ops[p]
<1>1. PICK r \in ops[o].left, S \in Trees : tree' = tree \/ tree' = tree \cup S
  BY DEF Refuse
<1>2. tree' \in Trees
  BY <1>1, UnionIsTree DEF TypeInv
<1>3. ops[o].kind # "idle"
  BY <1>1, OpIs
<1>4. NoOp \in OpRec /\ NoOp.kind = "idle" /\ ops' = [ops EXCEPT ![o] = NoOp]
  BY NoOpType DEF NoOp, Refuse
<1>5. /\ ops' \in [OpSlots -> OpRec] /\ ops'[o] = NoOp
      /\ Cardinality(Busy') = Cardinality(Busy) - 1
      /\ \A p \in OpSlots : p # o => ops'[p] = ops[p]
  BY <1>3, <1>4, SlotTaken
<1>6. InFlight'
  BY <1>5, BusyIs, LenProperties, FileManagerAssumption DEF Refuse, TypeInv, InFlight
<1>7. ScreenTypes'
  BY DEF Refuse, TypeInv, ScreenTypes, screen, Children
<1>. QED
  BY <1>2, <1>3, <1>4, <1>5, <1>6, <1>7 DEF Refuse, TypeInv

LEMMA EndAndLoadTypes ==
  ASSUME TypeInv, NEW o \in OpSlots, EndAndLoad(o)
  PROVE  /\ TypeInv'
         /\ ops'[o].kind = "idle" /\ \A p \in OpSlots : p # o => ops'[p] = ops[p]
         /\ loads = <<>> => Len(loads') = 1 /\ loads'[1] = Again(ops[o])
<1>1. ops[o].kind # "idle" /\ ops' = [ops EXCEPT ![o] = NoOp] /\ AskFor(Again(ops[o]))
  BY DEF EndAndLoad
<1>2. NoOp \in OpRec /\ NoOp.kind = "idle"
  BY NoOpType DEF NoOp
<1>3. /\ ops' \in [OpSlots -> OpRec] /\ ops'[o] = NoOp
      /\ Cardinality(Busy') = Cardinality(Busy) - 1
      /\ \A p \in OpSlots : p # o => ops'[p] = ops[p]
  BY <1>1, <1>2, SlotTaken
<1>4. Again(ops[o]) \in LoadRec
  <2>1. Again(ops[o]) \in {Load(ops[o].dir, <<>>, 0),
                            [Load(ops[o].dir, <<>>, 0) EXCEPT !.stale = TRUE]}
    BY DEF Again, Stale, Load
  <2>. QED
    BY <2>1, OpIs, ListingType, Zenon
<1>5. /\ loads' \in Seq(LoadRec) /\ Len(loads') = Len(loads) + 1 /\ loading' \in BOOLEAN
      /\ loads = <<>> => Len(loads') = 1 /\ loads'[1] = Again(ops[o])
  BY <1>1, <1>4, Sent
<1>6. InFlight'
  BY <1>3, <1>5, BusyIs, LenProperties, FileManagerAssumption DEF TypeInv, InFlight
<1>7. ScreenTypes'
  BY <1>5 DEF EndAndLoad, TypeInv, ScreenTypes, Children
<1>8. doubt' \in BOOLEAN /\ strayed' \in BOOLEAN /\ tree' = tree
  BY Zenon DEF EndAndLoad, Together
<1>. QED
  BY <1>2, <1>3, <1>5, <1>6, <1>7, <1>8 DEF TypeInv

LEMMA ChangeElsewhereTypes ==
  ASSUME TypeInv, ChangeElsewhere
  PROVE  TypeInv'
<1>1. tree' \in Trees
  BY WithoutIsTree, WithParentsIsTree, UnionIsTree DEF ChangeElsewhere, TypeInv
<1>. QED
  BY <1>1 DEF ChangeElsewhere, TypeInv, ScreenTypes, InFlight, Busy, screen, Children

(* What is in flight when the app changes is stale; the listing of the new    *)
(* app's root joins it.                                                      *)
LEMMA SwitchTypes ==
  ASSUME TypeInv, SwitchApp
  PROVE  /\ TypeInv'
         /\ \A o \in OpSlots : ops'[o].kind = ops[o].kind
         /\ loads = <<>> => Len(loads') = 1 /\ loads'[1] = Load(Root, <<>>, 0)
<1>. DEFINE before == [i \in DOMAIN loads |-> Stale(loads[i])]
<1>1. /\ loads \in Seq(LoadRec) /\ DOMAIN loads = 1 .. Len(loads) /\ Len(loads) \in Nat
      /\ \A i \in 1 .. Len(loads) : loads[i] \in LoadRec
  BY DEF TypeInv, InFlight
<1>2. \A i \in 1 .. Len(loads) : Stale(loads[i]) \in LoadRec
  BY <1>1, LoadIs, LoadType DEF Stale
<1>3. before \in Seq(LoadRec) /\ Len(before) = Len(loads)
  BY <1>1, <1>2
<1>4. Load(Root, <<>>, 0) \in LoadRec
  BY ListingType, FileManagerAssumption
<1>5. loads' = Append(before, Load(Root, <<>>, 0))
  BY DEF SwitchApp
<1>. HIDE DEF before
<1>6. /\ loads' \in Seq(LoadRec) /\ Len(loads') = Len(loads) + 1
      /\ loads'[Len(loads) + 1] = Load(Root, <<>>, 0)
  BY <1>3, <1>4, <1>5, AppendProperties
<1>7. \A o \in OpSlots : ops[o] \in OpRec
  BY DEF TypeInv, InFlight
<1>8. \A o \in OpSlots : /\ [ops[o] EXCEPT !.stale = ops[o].kind # "idle"] \in OpRec
                          /\ [ops[o] EXCEPT !.stale = ops[o].kind # "idle"].kind = ops[o].kind
  BY <1>7 DEF OpRec
<1>9. ops' \in [OpSlots -> OpRec] /\ \A o \in OpSlots : ops'[o].kind = ops[o].kind
  BY <1>8 DEF SwitchApp
<1>10. Busy' = Busy /\ Len(loads) + Cardinality(Busy) < MaxFlying
  BY <1>9 DEF Busy, SwitchApp, Room
<1>11. InFlight'
  BY <1>6, <1>9, <1>10, BusyIs, LenProperties, FileManagerAssumption DEF InFlight
<1>12. ScreenTypes'
  BY DEF SwitchApp, TypeInv, ScreenTypes, Children
<1>13. tree' \in Trees /\ doubt' \in BOOLEAN /\ strayed' \in BOOLEAN
  BY Zenon DEF SwitchApp
<1>. QED
  BY <1>1, <1>6, <1>9, <1>11, <1>12, <1>13 DEF TypeInv

LEMMA StepTypes == TypeInv /\ [Next]_vars => TypeInv'
<1>. SUFFICES ASSUME TypeInv, [Next]_vars PROVE TypeInv'
  OBVIOUS
<1>1. ASSUME NEW i \in DOMAIN loads, LoadStep(i) PROVE TypeInv'
  BY <1>1, LoadStepTypes
<1>2. ASSUME NEW o \in OpSlots, OpStep(o) PROVE TypeInv'
  BY <1>2, ServeTypes, RefuseTypes, EndAndLoadTypes DEF OpStep
<1>3. CASE \/ \E e \in Entries : Toggle(e)
           \/ SelectAll
           \/ Refresh
           \/ \E d \in Dirs : NavigatePath(d)
           \/ \E to \in 1 .. MaxHistory : Travel(to)
  BY <1>3, ReadingTypes
<1>4. CASE Asking
  BY <1>4, AskingIsBegin, BeginIs
<1>5. CASE ChangeElsewhere
  BY <1>5, ChangeElsewhereTypes
<1>6. CASE SwitchApp
  BY <1>6, SwitchTypes
<1>7. CASE UNCHANGED vars
  BY <1>7 DEF vars, screen, TypeInv, ScreenTypes, InFlight, Busy, Children
<1>. QED
  BY <1>1, <1>2, <1>3, <1>4, <1>5, <1>6, <1>7 DEF Next, Asking

LEMMA TypesHold == Spec => []TypeInv
BY InitTypes, StepTypes, PTL DEF Spec

(* The state has its types; a listing that arrives is of a directory there   *)
(* is, and the operations in flight never outnumber their bound.             *)
THEOREM TypeCorrect == Spec => []TypeOK
BY TypesHold, TypeInvImplies, PTL

(* What is ticked is always in the listing on the screen, and the listing is *)
(* of the directory the screen names, in whatever order listings arrive.     *)
THEOREM SelectionIsListed == Spec => []SelectedListed
BY TypesHold, TypeInvImplies, PTL

(* No sequence of moves, uploads, archives, refusals part of the way and     *)
(* changes from elsewhere leaves an entry on the server whose directory is   *)
(* gone.                                                                     *)
THEOREM TreeIsClosed == Spec => [](tree \in Trees)
BY TypesHold, TypeInvImplies, PTL
-----------------------------------------------------------------------------
(* One thing in flight.  While nothing failed and nothing ran beside         *)
(* anything else, at most one listing or one operation is in flight, and     *)
(* what it leaves is known beforehand: a listing carries the history that    *)
(* fits its directory, and one that was answered found what is there now.    *)

Idle(o) == ops[o].kind = "idle"

AtMostOne ==
  /\ Len(loads) <= 1
  /\ loads # <<>> => \A o \in OpSlots : Idle(o)
  /\ \A o, p \in OpSlots : ~Idle(o) /\ ~Idle(p) => o = p

Follows(v, i, d) == i \in 1 .. Len(v) /\ v[i] = d

(* The history once a listing has arrived.                                   *)
VisitedAfter(l) == IF l.visit # <<>> THEN l.visit ELSE visited
IndexAfter(l) == IF l.to # 0 THEN l.to ELSE index

HistoryInv ==
  ~strayed =>
    /\ AtMostOne
    /\ loads = <<>> => Follows(visited, index, path)
    /\ loads # <<>> => Follows(VisitedAfter(loads[1]), IndexAfter(loads[1]), loads[1].dir)

EffectInv ==
  ~doubt =>
    /\ AtMostOne
    /\ Alone => items = Children(path) \cap tree
    /\ loads # <<>> => ~loads[1].stale
    /\ \A o \in OpSlots : ~Idle(o) => ~ops[o].stale
    /\ loads # <<>> /\ loads[1].answered => loads[1].found = Children(loads[1].dir) \cap tree

Inv == TypeInv /\ HistoryInv /\ EffectInv

LEMMA InvImplies == Inv => HistoryFollows /\ EffectsListed
BY DEF Inv, HistoryInv, EffectInv, HistoryFollows, EffectsListed, Alone, Follows

LEMMA AloneIsOne ==
  ASSUME TypeInv, Alone
  PROVE  AtMostOne
BY EmptySeq DEF Alone, AtMostOne, Idle

(* A listing that is asked for alone.                                        *)
LEMMA AskedAlone ==
  ASSUME TypeInv, Alone, UNCHANGED ops, Len(loads') = 1
  PROVE  AtMostOne' /\ loads' # <<>> /\ ~Alone'
BY EmptySeq DEF Alone, AtMostOne, Idle

(* Alone, when at most one is in flight and a listing ends.                  *)
LEMMA DeliveredAlone ==
  ASSUME TypeInv, AtMostOne, NEW i \in DOMAIN loads
  PROVE  i = 1 /\ loads # <<>> /\ \A o \in OpSlots : Idle(o)
BY LoadIs DEF AtMostOne

LEMMA LoadStepInv ==
  ASSUME Inv, NEW i \in DOMAIN loads, LoadStep(i)
  PROVE  HistoryInv' /\ EffectInv'
<1>0. TypeInv
  BY DEF Inv
<1>1. CASE Answer(i)
  <2>1. /\ loads' = [loads EXCEPT ![i] = loads'[i]]
        /\ loads'[i].dir = loads[i].dir /\ loads'[i].visit = loads[i].visit
        /\ loads'[i].to = loads[i].to /\ ~loads'[i].stale
        /\ loads'[i].found = Children(loads[i].dir) \cap tree
    BY <1>0, <1>1, AnswerTypes
  <2>2. UNCHANGED <<path, items, visited, index, ops, tree, doubt, strayed>>
    BY <1>1 DEF Answer, screen
  <2>3. Len(loads') = Len(loads) /\ loads' # <<>> /\ loads # <<>>
    BY <1>0, <2>1, LoadIs DEF TypeInv, InFlight
  <2>4. AtMostOne => AtMostOne' /\ i = 1
    BY <1>0, <2>2, <2>3, DeliveredAlone DEF AtMostOne, Idle
  <2>5. HistoryInv'
    BY <2>1, <2>2, <2>3, <2>4 DEF Inv, HistoryInv, VisitedAfter, IndexAfter, Follows
  <2>6. EffectInv'
    BY <2>1, <2>2, <2>3, <2>4 DEF Inv, EffectInv, Alone, Children, Idle
  <2>. QED
    BY <2>5, <2>6
<1>2. CASE Deliver(i)
  <2>1. /\ path' = loads[i].dir
        /\ ~loads[i].stale => items' = loads[i].found /\ loads[i].answered
        /\ visited' = VisitedAfter(loads[i]) /\ index' = IndexAfter(loads[i])
        /\ loads' = RemoveAt(loads, i) /\ UNCHANGED <<ops, tree, doubt, strayed>>
    BY <1>2 DEF Deliver, Finds, Continue, VisitedAfter, IndexAfter
  <2>2. ASSUME AtMostOne
        PROVE  i = 1 /\ loads # <<>> /\ loads' = <<>> /\ Alone' /\ AtMostOne'
    <3>1. i = 1 /\ loads # <<>> /\ \A o \in OpSlots : Idle(o)
      BY <1>0, <2>2, DeliveredAlone
    <3>2. loads' = <<>>
      BY <1>0, <2>1, <2>2, Ended DEF AtMostOne
    <3>. QED
      BY <2>1, <3>1, <3>2, EmptySeq DEF Alone, AtMostOne, Idle
  <2>3. HistoryInv'
    BY <2>1, <2>2 DEF Inv, HistoryInv, Follows
  <2>4. EffectInv'
    BY <2>1, <2>2 DEF Inv, EffectInv, Children, Alone, Idle
  <2>. QED
    BY <2>3, <2>4
<1>3. CASE Reject(i)
  BY <1>3 DEF Reject, HistoryInv, EffectInv
<1>. QED
  BY <1>1, <1>2, <1>3 DEF LoadStep

LEMMA ReadingInv ==
  ASSUME Inv,
         \/ \E e \in Entries : Toggle(e)
         \/ SelectAll
         \/ Refresh
         \/ \E d \in Dirs : NavigatePath(d)
         \/ \E to \in 1 .. MaxHistory : Travel(to)
  PROVE  HistoryInv' /\ EffectInv'
<1>0. TypeInv /\ path \in Dirs
  BY DEF Inv, TypeInv, ScreenTypes
<1>1. ASSUME UNCHANGED <<path, items, visited, index, loading, loads, ops, tree, doubt, strayed>>
      PROVE  HistoryInv' /\ EffectInv'
  BY <1>1 DEF Inv, HistoryInv, EffectInv, AtMostOne, Idle, Alone, Follows, VisitedAfter,
             IndexAfter, Children
<1>2. ASSUME NEW d \in Dirs, NEW v \in Seq(Dirs), Len(v) <= MaxHistory, NEW to \in 0 .. MaxHistory,
             Ask(d, v, to), UNCHANGED <<path, items, visited, index, ops, tree>>,
             ~doubt' \/ ~strayed' => Alone,
             ~strayed' => Follows(IF v # <<>> THEN v ELSE visited, IF to # 0 THEN to ELSE index, d)
      PROVE  HistoryInv' /\ EffectInv'
  <2>1. ASSUME Alone
        PROVE  /\ AtMostOne' /\ loads' # <<>> /\ ~Alone'
               /\ loads'[1].dir = d /\ loads'[1].visit = v /\ loads'[1].to = to
               /\ ~loads'[1].answered /\ ~loads'[1].stale
               /\ \A o \in OpSlots : Idle(o)'
    <3>1. Len(loads') = 1 /\ loads'[1] = Load(d, v, to)
      BY <1>0, <1>2, <2>1, Asked DEF Alone
    <3>2. \A o \in OpSlots : Idle(o)'
      BY <1>2, <2>1 DEF Alone, Idle
    <3>. QED
      BY <1>0, <1>2, <2>1, <3>1, <3>2, AskedAlone DEF Load
  <2>2. HistoryInv'
    BY <1>2, <2>1 DEF HistoryInv, VisitedAfter, IndexAfter, Follows
  <2>3. EffectInv'
    BY <1>2, <2>1 DEF EffectInv
  <2>. QED
    BY <2>2, <2>3
<1>3. ASSUME NEW e \in Entries, Toggle(e) PROVE HistoryInv' /\ EffectInv'
  BY <1>1, <1>3 DEF Toggle
<1>4. CASE SelectAll
  BY <1>1, <1>4 DEF SelectAll
<1>5. CASE Refresh
  <2>1. 0 \in 0 .. MaxHistory /\ <<>> \in Seq(Dirs) /\ Len(<<>>) <= MaxHistory
    BY FileManagerAssumption
  <2>2. /\ Ask(path, <<>>, 0) /\ UNCHANGED <<path, items, visited, index, ops, tree>>
        /\ ~doubt' \/ ~strayed' => Alone /\ (~strayed' => ~strayed)
    BY <1>5, Zenon DEF Refresh
  <2>3. ~strayed' => Follows(visited, index, path)
    BY <2>2 DEF Inv, HistoryInv, Alone
  <2>. QED
    BY <1>0, <1>2, <2>1, <2>2, <2>3
<1>6. ASSUME NEW d \in Dirs, NavigatePath(d) PROVE HistoryInv' /\ EffectInv'
  <2>1. /\ Visit(d).visit \in Seq(Dirs) /\ Len(Visit(d).visit) <= MaxHistory
        /\ Visit(d).at \in 0 .. MaxHistory /\ Visit(d).at # 0 /\ Visit(d).visit # <<>>
        /\ Follows(Visit(d).visit, Visit(d).at, d)
    BY <1>0, <1>6, VisitIs, LenProperties, FileManagerAssumption DEF NavigatePath, Follows
  <2>2. /\ Ask(d, Visit(d).visit, Visit(d).at) /\ UNCHANGED <<path, items, visited, index, ops, tree>>
        /\ ~doubt' \/ ~strayed' => Alone
    BY <1>6, Zenon DEF NavigatePath
  <2>. QED
    BY <1>2, <2>1, <2>2
<1>7. ASSUME NEW to \in 1 .. MaxHistory, Travel(to) PROVE HistoryInv' /\ EffectInv'
  <2>1. /\ to \in 0 .. MaxHistory /\ to # 0 /\ <<>> \in Seq(Dirs) /\ Len(<<>>) <= MaxHistory
        /\ to \in 1 .. Len(visited) /\ visited[to] \in Dirs
    BY <1>0, <1>7, FileManagerAssumption DEF Travel, TypeInv, ScreenTypes
  <2>2. /\ Ask(visited[to], <<>>, to) /\ UNCHANGED <<path, items, visited, index, ops, tree>>
        /\ ~doubt' \/ ~strayed' => Alone
    BY <1>7, Zenon DEF Travel
  <2>3. Follows(visited, to, visited[to])
    BY <2>1 DEF Follows
  <2>. QED
    BY <1>2, <2>1, <2>2, <2>3
<1>. QED
  BY <1>3, <1>4, <1>5, <1>6, <1>7

LEMMA AskingInv ==
  ASSUME Inv, Asking
  PROVE  HistoryInv' /\ EffectInv'
<1>0. TypeInv
  BY DEF Inv
<1>1. PICK kind \in {"plain", "extract"}, requests \in SUBSET Requests : Begin(kind, requests)
  BY <1>0, AskingIsBegin
<1>2. PICK o \in OpSlots : /\ ops[o].kind = "idle" /\ ops'[o].kind # "idle" /\ ~ops'[o].stale
                            /\ \A p \in OpSlots : p # o => ops'[p] = ops[p]
  BY <1>0, <1>1, BeginIs
<1>3. /\ UNCHANGED <<path, items, visited, index, loads, tree>>
      /\ ~doubt' => ~doubt /\ Alone
      /\ ~strayed' => ~strayed /\ Alone
  BY <1>1, Zenon DEF Begin, screen
<1>4. ASSUME Alone
      PROVE  /\ AtMostOne' /\ ~Alone' /\ loads' = <<>>
             /\ \A p \in OpSlots : Idle(p)' \/ ~ops'[p].stale
  BY <1>2, <1>3, <1>4, EmptySeq DEF Alone, AtMostOne, Idle
<1>5. HistoryInv'
  BY <1>3, <1>4 DEF Inv, HistoryInv, Follows, Alone
<1>6. EffectInv'
  BY <1>3, <1>4 DEF EffectInv, Idle
<1>. QED
  BY <1>5, <1>6

LEMMA OpStepInv ==
  ASSUME Inv, NEW o \in OpSlots, OpStep(o)
  PROVE  HistoryInv' /\ EffectInv'
<1>0. TypeInv
  BY DEF Inv
<1>1. CASE Serve(o)
  <2>1. /\ ~Idle(o) /\ ~Idle(o)' /\ ops'[o].stale = ops[o].stale
        /\ \A p \in OpSlots : p # o => ops'[p] = ops[p]
    BY <1>0, <1>1, ServeTypes DEF Idle
  <2>2. UNCHANGED <<path, items, visited, index, loads, doubt, strayed>>
    BY <1>1 DEF Serve, screen
  <2>3. AtMostOne => AtMostOne' /\ ~Alone' /\ loads = <<>>
    BY <2>1, <2>2 DEF AtMostOne, Idle, Alone
  <2>4. HistoryInv'
    BY <2>2, <2>3 DEF Inv, HistoryInv, Follows
  <2>5. EffectInv'
    BY <2>1, <2>2, <2>3 DEF Inv, EffectInv, Idle
  <2>. QED
    BY <2>4, <2>5
<1>2. CASE Refuse(o)
  <2>1. ~Idle(o) /\ Idle(o)' /\ \A p \in OpSlots : p # o => ops'[p] = ops[p]
    BY <1>0, <1>2, RefuseTypes DEF Idle
  <2>2. UNCHANGED <<path, items, visited, index, loads, strayed>> /\ doubt'
    BY <1>2 DEF Refuse, screen
  <2>3. AtMostOne => AtMostOne' /\ loads = <<>>
    BY <2>1, <2>2 DEF AtMostOne, Idle
  <2>. QED
    BY <2>2, <2>3 DEF Inv, HistoryInv, EffectInv, Follows
<1>3. CASE EndAndLoad(o)
  <2>1. /\ Idle(o)' /\ \A p \in OpSlots : p # o => ops'[p] = ops[p]
        /\ loads = <<>> => Len(loads') = 1 /\ loads'[1] = Again(ops[o])
    BY <1>0, <1>3, EndAndLoadTypes DEF Idle
  <2>2. UNCHANGED <<path, items, visited, index, tree>> /\ loads' # <<>>
    <3>1. loads' = Append(loads, Again(ops[o])) /\ loads \in Seq(LoadRec)
      BY <1>0, <1>3 DEF EndAndLoad, AskFor, TypeInv, InFlight
    <3>. QED
      BY <1>3, <3>1 DEF EndAndLoad
  <2>3. /\ ~doubt' => ~Together(o) /\ ~ops[o].stale
        /\ ~strayed' => ~strayed /\ ~Together(o) /\ ops[o].dir = path
    BY <1>3, Zenon DEF EndAndLoad
  <2>4. ASSUME ~Together(o)
        PROVE  /\ AtMostOne' /\ ~Alone' /\ loads = <<>>
               /\ loads'[1].dir = ops[o].dir /\ loads'[1].visit = <<>> /\ loads'[1].to = 0
               /\ ~loads'[1].answered /\ loads'[1].stale = ops[o].stale
               /\ \A p \in OpSlots : Idle(p)'
    <3>1. /\ Again(ops[o]).dir = ops[o].dir /\ Again(ops[o]).visit = <<>>
          /\ Again(ops[o]).to = 0 /\ ~Again(ops[o]).answered
          /\ Again(ops[o]).stale = ops[o].stale
      BY <1>0, OpIs DEF Again, Stale, Load
    <3>2. loads = <<>> /\ Len(loads') = 1 /\ loads'[1] = Again(ops[o])
      BY <2>1, <2>4 DEF Together
    <3>3. \A p \in OpSlots : Idle(p)'
      BY <2>1, <2>4 DEF Together, Idle
    <3>. QED
      BY <2>2, <3>1, <3>2, <3>3 DEF AtMostOne, Alone
  <2>5. HistoryInv'
    BY <2>2, <2>3, <2>4 DEF Inv, HistoryInv, Follows, VisitedAfter, IndexAfter
  <2>6. EffectInv'
    BY <2>3, <2>4 DEF EffectInv
  <2>. QED
    BY <2>5, <2>6
<1>. QED
  BY <1>1, <1>2, <1>3 DEF OpStep

(* The app changes with nothing in flight: only the listing of its root is.  *)
LEMMA SwitchInv ==
  ASSUME Inv, SwitchApp
  PROVE  HistoryInv' /\ EffectInv'
<1>0. TypeInv
  BY DEF Inv
<1>1. strayed' /\ (~doubt' => Alone)
  BY Zenon DEF SwitchApp
<1>2. ASSUME Alone
      PROVE  /\ AtMostOne' /\ ~Alone' /\ \A o \in OpSlots : Idle(o)'
             /\ ~loads'[1].answered /\ ~loads'[1].stale
  <2>1. Len(loads') = 1 /\ loads'[1] = Load(Root, <<>>, 0) /\ loads' # <<>>
    BY <1>0, <1>2, SwitchTypes, EmptySeq DEF Alone
  <2>2. \A o \in OpSlots : Idle(o)'
    BY <1>0, <1>2, SwitchTypes DEF Alone, Idle
  <2>. QED
    BY <2>1, <2>2 DEF AtMostOne, Alone, Load
<1>. QED
  BY <1>1, <1>2 DEF HistoryInv, EffectInv

LEMMA StepInv == Inv /\ [Next]_vars => Inv'
<1>. SUFFICES ASSUME Inv, [Next]_vars PROVE HistoryInv' /\ EffectInv'
  BY StepTypes DEF Inv
<1>1. ASSUME NEW i \in DOMAIN loads, LoadStep(i) PROVE HistoryInv' /\ EffectInv'
  BY <1>1, LoadStepInv
<1>2. ASSUME NEW o \in OpSlots, OpStep(o) PROVE HistoryInv' /\ EffectInv'
  BY <1>2, OpStepInv
<1>3. CASE \/ \E e \in Entries : Toggle(e)
           \/ SelectAll
           \/ Refresh
           \/ \E d \in Dirs : NavigatePath(d)
           \/ \E to \in 1 .. MaxHistory : Travel(to)
  BY <1>3, ReadingInv
<1>4. CASE Asking
  BY <1>4, AskingInv
<1>5. CASE ChangeElsewhere
  BY <1>5 DEF ChangeElsewhere, screen, Inv, HistoryInv, EffectInv, AtMostOne, Idle, Follows,
             VisitedAfter, IndexAfter
<1>6. CASE SwitchApp
  BY <1>6, SwitchInv
<1>7. CASE UNCHANGED vars
  BY <1>7 DEF vars, screen, Inv, HistoryInv, EffectInv, AtMostOne, Idle, Alone, Follows,
             VisitedAfter, IndexAfter, Children
<1>. QED
  BY <1>1, <1>2, <1>3, <1>4, <1>5, <1>6, <1>7 DEF Next, Asking

LEMMA InitInv == Init => Inv
<1>. SUFFICES ASSUME Init PROVE Inv
  OBVIOUS
<1>1. Len(loads) = 1 /\ loads # <<>> /\ loads[1] = Load(Root, <<>>, 0) /\ \A o \in OpSlots : Idle(o)
  BY DEF Init, NoOp, Idle
<1>2. Follows(visited, index, Root)
  BY DEF Init, Follows
<1>. QED
  BY <1>1, <1>2, InitTypes DEF Inv, HistoryInv, EffectInv, AtMostOne, Alone, VisitedAfter,
     IndexAfter, Load

(* "back" and "forward" start from the directory on the screen, unless the   *)
(* last visit failed or met another request: no chain of visits, travels,    *)
(* refreshes and operations one after the other takes the history off it.    *)
THEOREM HistoryIsFollowed == Spec => []HistoryFollows
BY InitInv, StepInv, InvImplies, PTL DEF Spec

(* When nothing is in flight the listing is what is in the directory, unless *)
(* an operation failed, two ran together or someone else changed the tree    *)
(* since a listing was last asked for.                                       *)
THEOREM EffectsAreListed == Spec => []EffectsListed
BY InitInv, StepInv, InvImplies, PTL DEF Spec
=============================================================================
