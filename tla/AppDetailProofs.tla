--------------------------- MODULE AppDetailProofs ---------------------------
(***************************************************************************)
(* Proofs about AppDetail, for any apps and any number of loads, operations *)
(* and failures.                                                            *)
(***************************************************************************)
EXTENDS AppDetail, TLAPS

-----------------------------------------------------------------------------
(* Types.  A load under way is for an app, an operation of the view was      *)
(* asked for on the page of an app, and an idle slot holds nothing.          *)

ProperLoad ==
  {l \in [stage : {"idle", "asked", "answered"}, for : Apps \cup {None}, snap : Dep] :
     l.stage # "idle" => l.for \in Apps}

Op == [stage : {"idle", "sent", "accepted", "asked", "answered", "refresh"},
       kind : AllKinds \cup {"none"}, app : Apps \cup {None}, for : Apps \cup {None},
       snap : Dep, inView : BOOLEAN, inTab : BOOLEAN]

ProperOp ==
  {p \in Op :
     /\ p.inView => p.for \in Apps
     /\ p.inTab => p.inView
     /\ p.stage \in {"asked", "answered", "refresh"} => p.inView /\ p.kind # "delete"
     /\ p.stage = "idle" <=> p.kind = "none"}

ViewTypes ==
  /\ shown \in [app : Apps, dep : Dep] \cup {None}
  /\ tab \in AllTabs
  /\ timer \in Apps \cup {None}
  /\ busy \in SUBSET Flags
  /\ typed \in Apps \cup {None}

ServerTypes ==
  /\ dep \in [Apps -> Dep]
  /\ exists \in [Apps -> BOOLEAN]
  /\ failures \in 0 .. MaxFailures

HistoryTypes == switched \in BOOLEAN /\ overtaken \in BOOLEAN

(* Away from the pages of apps nothing of the view is left.                  *)
Away ==
  route = List => /\ shown = None /\ timer = None /\ ~switched
                  /\ \A i \in Slots : loads[i].stage = "idle"
                  /\ \A o \in OpSlots : ~ops[o].inView

TypeInv ==
  /\ route \in Routes
  /\ ViewTypes
  /\ loads \in [Slots -> ProperLoad]
  /\ ops \in [OpSlots -> ProperOp]
  /\ ServerTypes
  /\ HistoryTypes
  /\ Away

LEMMA TypeInvImplies == TypeInv => TypeOK
<1>. SUFFICES ASSUME TypeInv PROVE TypeOK
  OBVIOUS
<1>1. loads \in [Slots -> [stage : {"idle", "asked", "answered"},
                           for : Apps \cup {None}, snap : Dep]]
  BY DEF TypeInv, ProperLoad
<1>2. ops \in [OpSlots -> Op]
  BY DEF TypeInv, ProperOp
<1>. QED
  BY <1>1, <1>2, Zenon DEF TypeInv, TypeOK, ViewTypes, ServerTypes, HistoryTypes, Op

LEMMA FreshTypes ==
  /\ Fresh \in Dep /\ ~Fresh.open
  /\ NoLoad \in ProperLoad /\ NoLoad.stage = "idle"
  /\ NoOp \in ProperOp /\ ~NoOp.inView /\ ~NoOp.inTab /\ NoOp.kind = "none"
<1>1. Fresh \in Dep /\ ~Fresh.open
  BY AppDetailAssumption DEF Fresh, Dep
<1>. QED
  BY <1>1 DEF NoLoad, NoOp, ProperLoad, ProperOp, Op

LEMMA FlagTypes ==
  /\ \A k \in AllKinds \cup {"none"} : FlagOf[k] \subseteq Flags
  /\ \A k \in AllKinds \cup {"none"} : "page" \in FlagOf[k] => k \notin TabOps
  /\ FlagOf["none"] = {}
BY DEF FlagOf, Flags, AllKinds, TabOps

(* A new load.                                                               *)
LEMMA AskTypes ==
  ASSUME TypeInv, NEW a \in Apps, Ask(a)
  PROVE  loads' \in [Slots -> ProperLoad]
<1>1. PICK i \in Slots : loads' = [loads EXCEPT ![i] = [stage |-> "asked", for |-> a, snap |-> Fresh]]
  BY DEF Ask
<1>2. [stage |-> "asked", for |-> a, snap |-> Fresh] \in ProperLoad
  BY FreshTypes DEF ProperLoad
<1>. QED
  BY <1>1, <1>2 DEF TypeInv

(* The answer of a load on the screen.                                       *)
LEMMA SetTypes ==
  ASSUME TypeInv, NEW l, l.for \in Apps, l.snap \in Dep, Set(l), route \in Apps
  PROVE  /\ shown' \in [app : Apps, dep : Dep]
         /\ timer' \in Apps \cup {None}
         /\ typed' = None
         /\ overtaken' \in BOOLEAN
<1>1. shown' \in [app : Apps, dep : Dep] /\ timer' \in Apps \cup {None} /\ typed' = None
  BY DEF Set, Interval, AddressesReset
<1>2. overtaken' \in BOOLEAN
  BY Zenon DEF Set
<1>. QED
  BY <1>1, <1>2

LEMMA UnmountTypes ==
  ASSUME Unmount(List)
  PROVE  /\ route' = List /\ ViewTypes' /\ HistoryTypes'
         /\ loads' \in [Slots -> ProperLoad] /\ \A i \in Slots : loads'[i].stage = "idle"
         /\ shown' = None /\ timer' = None /\ ~switched'
<1>1. loads' \in [Slots -> ProperLoad] /\ \A i \in Slots : loads'[i].stage = "idle"
  BY FreshTypes DEF Unmount, LoadsDropped
<1>2. HistoryTypes'
  BY Zenon DEF Unmount, HistoryTypes
<1>3. ViewTypes'
  BY DEF Unmount, ViewTypes, AllTabs
<1>. QED
  BY <1>1, <1>2, <1>3 DEF Unmount

LEMMA OrphanedTypes ==
  ASSUME NEW p \in ProperOp
  PROVE  Orphaned(p) \in ProperOp /\ ~Orphaned(p).inView
<1>. DEFINE q == [p EXCEPT !.for = None, !.inView = FALSE, !.inTab = FALSE]
<1>1. CASE p.kind = "delete" \/ (p.kind = "deploy" /\ p.stage = "sent")
  <2>1. q \in Op /\ ~q.inView /\ ~q.inTab /\ q.kind = p.kind /\ q.stage = p.stage
    BY DEF ProperOp, Op
  <2>. QED
    BY <1>1, <2>1 DEF Orphaned, ProperOp
<1>2. CASE ~(p.kind = "delete" \/ (p.kind = "deploy" /\ p.stage = "sent"))
  BY <1>2, FreshTypes DEF Orphaned
<1>. QED
  BY <1>1, <1>2

LEMMA AwayFromTabTypes ==
  ASSUME TypeInv
  PROVE  /\ AwayFromTab \in [OpSlots -> ProperOp]
         /\ \A o \in OpSlots : /\ AwayFromTab[o].inView = ops[o].inView
                               /\ AwayFromTab[o].kind = ops[o].kind
                               /\ AwayFromTab[o].for = ops[o].for
                               /\ AwayFromTab[o].stage = ops[o].stage
                               /\ ops[o].kind \notin TabOps => AwayFromTab[o] = ops[o]
<1>1. ASSUME NEW p \in ProperOp
      PROVE  /\ [p EXCEPT !.inTab = FALSE] \in ProperOp
             /\ [p EXCEPT !.inTab = FALSE].inView = p.inView
             /\ [p EXCEPT !.inTab = FALSE].kind = p.kind
             /\ [p EXCEPT !.inTab = FALSE].for = p.for
             /\ [p EXCEPT !.inTab = FALSE].stage = p.stage
  BY DEF ProperOp, Op
<1>. QED
  BY <1>1 DEF AwayFromTab, TypeInv

LEMMA EndTypes ==
  ASSUME TypeInv, NEW o \in OpSlots
  PROVE  [ops EXCEPT ![o] = NoOp] \in [OpSlots -> ProperOp] /\ FlagsAfter(o) \in SUBSET Flags
BY FreshTypes DEF TypeInv, ViewTypes, FlagsAfter

(* A step of one operation that stays where it was asked for.                *)
LEMMA StageTypes ==
  ASSUME NEW p \in ProperOp, p.inView, p.for \in Apps, p.kind \notin {"none", "delete"},
         NEW s \in {"sent", "accepted", "asked", "answered", "refresh"}, NEW d \in Dep
  PROVE  [p EXCEPT !.stage = s] \in ProperOp /\ [p EXCEPT !.stage = s, !.snap = d] \in ProperOp
<1>. DEFINE q == [p EXCEPT !.stage = s]
            r == [p EXCEPT !.stage = s, !.snap = d]
<1>1. /\ q \in Op /\ q.inView /\ q.for = p.for /\ q.kind = p.kind /\ q.stage = s
      /\ r \in Op /\ r.inView /\ r.for = p.for /\ r.kind = p.kind /\ r.stage = s
  BY DEF ProperOp, Op
<1>. QED
  BY <1>1 DEF ProperOp

LEMMA OpsTypes ==
  ASSUME TypeInv, NEW o \in OpSlots, NEW p \in ProperOp
  PROVE  [ops EXCEPT ![o] = p] \in [OpSlots -> ProperOp]
BY DEF TypeInv

-----------------------------------------------------------------------------
(* Steps of the loads and the browser.                                       *)

LEMMA OnApp ==
  ASSUME TypeInv
  PROVE  /\ shown # None => route \in Apps
         /\ timer # None => route \in Apps
         /\ \A i \in Slots : loads[i].stage # "idle" => route \in Apps /\ loads[i].for \in Apps
         /\ \A o \in OpSlots : ops[o].inView => route \in Apps /\ ops[o].for \in Apps
BY DEF TypeInv, Away, Routes, ProperLoad, ProperOp

LEMMA LoadStepTypes ==
  ASSUME TypeInv, NEW i \in Slots, Answer(i) \/ Deliver(i) \/ Reject(i)
  PROVE  TypeInv'
<1>1. CASE Answer(i)
  <2>1. Read(loads[i]) \in ProperLoad
    BY <1>1, OnApp DEF Answer, CanRead, Read, TypeInv, ProperLoad, ServerTypes
  <2>2. loads' \in [Slots -> ProperLoad]
    BY <1>1, <2>1 DEF Answer, TypeInv
  <2>3. Away'
    BY <1>1, OnApp, AppDetailAssumption DEF Answer, CanRead, Away, Routes, TypeInv, view
  <2>. QED
    BY <1>1, <2>2, <2>3 DEF Answer, TypeInv, ViewTypes, ServerTypes, HistoryTypes, view, server, history
<1>2. CASE Deliver(i)
  <2>1. route \in Apps /\ loads[i].for \in Apps /\ loads[i].snap \in Dep /\ Set(loads[i])
    BY <1>2, OnApp DEF Deliver, TypeInv, ProperLoad
  <2>2. ViewTypes' /\ overtaken' \in BOOLEAN
    BY <1>2, <2>1, SetTypes DEF Deliver, TypeInv, ViewTypes
  <2>3. loads' \in [Slots -> ProperLoad]
    BY <1>2, FreshTypes DEF Deliver, TypeInv
  <2>4. Away'
    BY <1>2, <2>1, AppDetailAssumption DEF Deliver, Away
  <2>. QED
    BY <1>2, <2>2, <2>3, <2>4 DEF Deliver, TypeInv, ServerTypes, HistoryTypes, server
<1>3. CASE Reject(i)
  <2>1. loads' \in [Slots -> ProperLoad]
    BY <1>3, FreshTypes DEF Reject, TypeInv
  <2>2. failures' \in 0 .. MaxFailures
    BY <1>3, AppDetailAssumption DEF Reject, Lost, TypeInv, ServerTypes
  <2>3. Away'
    BY <1>3, OnApp, AppDetailAssumption DEF Reject, Lost, Away, TypeInv
  <2>. QED
    BY <1>3, <2>1, <2>2, <2>3 DEF Reject, TypeInv, ViewTypes, ServerTypes, HistoryTypes, view, server, history
<1>. QED
  BY <1>1, <1>2, <1>3

LEMMA BrowserStepTypes ==
  ASSUME TypeInv, Tick \/ Leave \/ \E a \in Apps : Enter(a) \/ Switch(a)
  PROVE  TypeInv'
<1>1. CASE Tick
  <2>1. route \in Apps /\ timer \in Apps
    BY <1>1, OnApp DEF Tick, TypeInv, ViewTypes
  <2>2. loads' \in [Slots -> ProperLoad]
    BY <1>1, <2>1, AskTypes DEF Tick
  <2>3. Away'
    BY <1>1, <2>1, AppDetailAssumption DEF Tick, Away
  <2>. QED
    BY <1>1, <2>2, <2>3 DEF Tick, TypeInv, ViewTypes, ServerTypes, HistoryTypes, view, server, history
<1>2. CASE Leave
  <2>1. ops' \in [OpSlots -> ProperOp] /\ \A o \in OpSlots : ~ops'[o].inView
    BY <1>2, OrphanedTypes DEF Leave, TypeInv
  <2>. QED
    BY <1>2, <2>1, UnmountTypes DEF Leave, TypeInv, ServerTypes, Away, Routes, server
<1>3. ASSUME NEW a \in Apps, Enter(a) PROVE TypeInv'
  <2>1. loads' \in [Slots -> ProperLoad]
    BY <1>3, AskTypes DEF Enter
  <2>2. Away' /\ route' \in Routes
    BY <1>3, AppDetailAssumption DEF Enter, Away, Routes
  <2>. QED
    BY <1>3, <2>1, <2>2 DEF Enter, TypeInv, ViewTypes, ServerTypes, HistoryTypes, view, server, history
<1>4. ASSUME NEW a \in Apps, Switch(a) PROVE TypeInv'
  <2>1. loads' \in [Slots -> ProperLoad]
    BY <1>4, AskTypes DEF Switch
  <2>2. Away' /\ route' \in Routes
    BY <1>4, AppDetailAssumption DEF Switch, Away, Routes
  <2>3. timer' \in Apps \cup {None}
    BY <1>4 DEF Switch, IntervalUnder, Interval
  <2>4. HistoryTypes'
    BY <1>4, Zenon DEF Switch, TypeInv, HistoryTypes
  <2>. QED
    BY <1>4, <2>1, <2>2, <2>3, <2>4 DEF Switch, TypeInv, ViewTypes, ServerTypes, server
<1>. QED
  BY <1>1, <1>2, <1>3, <1>4

-----------------------------------------------------------------------------
(* Steps of the user and of the operations.                                  *)

LEMMA UserStepTypes ==
  ASSUME TypeInv,
         (\E t \in Tabs : SelectTab(t)) \/ EditAddresses \/ \E k \in Kinds : Start(k)
  PROVE  TypeInv'
<1>1. ASSUME NEW t \in Tabs, SelectTab(t) PROVE TypeInv'
  <2>1. ops' \in [OpSlots -> ProperOp] /\ \A o \in OpSlots : ops'[o].inView = ops[o].inView
    BY <1>1, AwayFromTabTypes DEF SelectTab
  <2>2. Away'
    BY <1>1, <2>1 DEF SelectTab, Away, TypeInv
  <2>3. ViewTypes'
    BY <1>1, AppDetailAssumption DEF SelectTab, TypeInv, ViewTypes
  <2>. QED
    BY <1>1, <2>1, <2>2, <2>3 DEF SelectTab, TypeInv, ServerTypes, HistoryTypes, server, history
<1>2. CASE EditAddresses
  <2>1. ViewTypes'
    BY <1>2 DEF EditAddresses, TypeInv, ViewTypes
  <2>2. Away'
    BY <1>2 DEF EditAddresses, Away, TypeInv
  <2>. QED
    BY <1>2, <2>1, <2>2 DEF EditAddresses, TypeInv, ServerTypes, HistoryTypes, server, history
<1>3. ASSUME NEW k \in Kinds, Start(k) PROVE TypeInv'
  <2>. DEFINE p == [stage |-> "sent", kind |-> k, app |-> Target(k), for |-> route,
                    snap |-> Fresh, inView |-> TRUE, inTab |-> TRUE]
  <2>1. route \in Apps /\ k \in AllKinds /\ Target(k) \in Apps
    BY <1>3, OnApp, AppDetailAssumption DEF Start, Target, TypeInv, ViewTypes
  <2>2. p \in ProperOp
    <3>1. p \in Op
      BY <2>1, FreshTypes, Zenon DEF Op
    <3>2. "sent" \notin {"idle", "asked", "answered", "refresh"} /\ k # "none"
      BY <2>1 DEF AllKinds
    <3>. QED
      BY <2>1, <3>1, <3>2 DEF ProperOp
  <2>3. ops' \in [OpSlots -> ProperOp]
    BY <1>3, <2>2, OpsTypes DEF Start
  <2>4. Away'
    BY <1>3, <2>1, AppDetailAssumption DEF Start, Away
  <2>5. ViewTypes'
    BY <1>3, <2>1, FlagTypes DEF Start, TypeInv, ViewTypes
  <2>. QED
    BY <1>3, <2>3, <2>4, <2>5 DEF Start, TypeInv, ServerTypes, HistoryTypes, server, history
<1>. QED
  BY <1>1, <1>2, <1>3

LEMMA FinishTypes ==
  ASSUME TypeInv, NEW a \in Apps, Finish(a)
  PROVE  TypeInv'
<1>1. [dep[a] EXCEPT !.open = FALSE] \in Dep
  BY DEF TypeInv, ServerTypes, Dep
<1>2. dep' \in [Apps -> Dep]
  BY <1>1 DEF Finish, TypeInv, ServerTypes
<1>. QED
  BY <1>2 DEF Finish, TypeInv, ViewTypes, ServerTypes, HistoryTypes, Away, view, history

LEMMA ServeTypes ==
  ASSUME TypeInv, NEW o \in OpSlots, Serve(o)
  PROVE  TypeInv'
<1>. DEFINE p == ops[o]
            q == IF p.inView \/ p.kind = "delete" THEN [p EXCEPT !.stage = "accepted"] ELSE NoOp
<1>1. p \in ProperOp /\ p.stage = "sent"
  BY DEF Serve, TypeInv
<1>2. q \in ProperOp /\ (q.inView => p.inView)
  <2>. DEFINE r == [p EXCEPT !.stage = "accepted"]
  <2>1. /\ r \in Op /\ r.inView = p.inView /\ r.inTab = p.inTab /\ r.for = p.for
        /\ r.kind = p.kind /\ r.stage = "accepted"
    BY <1>1 DEF ProperOp, Op
  <2>2. r \in ProperOp
    BY <1>1, <2>1 DEF ProperOp
  <2>. QED
    BY <2>1, <2>2, FreshTypes
<1>3. ops' = [ops EXCEPT ![o] = q]
  BY DEF Serve
<1>4. ops' \in [OpSlots -> ProperOp]
  BY <1>2, <1>3, OpsTypes
<1>5. Away'
  BY <1>2, <1>3 DEF Serve, Away, TypeInv, view, history
<1>6. dep' \in [Apps -> Dep]
  <2>1. CASE p.kind # "deploy" \/ p.app \notin Apps
    BY <2>1 DEF Serve, TypeInv, ServerTypes
  <2>2. CASE p.kind = "deploy" /\ p.app \in Apps
    <3>1. [n |-> dep[p.app].n + 1, open |-> TRUE] \in Dep
      BY <2>2, AppDetailAssumption DEF Serve, Accepts, TypeInv, ServerTypes, Dep
    <3>. QED
      BY <2>2, <3>1 DEF Serve, TypeInv, ServerTypes
  <2>. QED
    BY <2>1, <2>2
<1>7. exists' \in [Apps -> BOOLEAN]
  BY Zenon DEF Serve, TypeInv, ServerTypes
<1>. QED
  BY <1>4, <1>5, <1>6, <1>7 DEF Serve, TypeInv, ViewTypes, ServerTypes, HistoryTypes, view, history

(* An operation ends.                                                        *)
LEMMA EndStepTypes ==
  ASSUME TypeInv, NEW o \in OpSlots, End(o)
  PROVE  TypeInv'
<1>1. ops' \in [OpSlots -> ProperOp] /\ busy' \in SUBSET Flags
  BY EndTypes DEF End
<1>2. Away'
  BY FreshTypes DEF End, Away, TypeInv, history
<1>. QED
  BY <1>1, <1>2 DEF End, TypeInv, ViewTypes, ServerTypes, HistoryTypes, server, history

(* An operation of the view goes on to the load it awaits.                   *)
LEMMA ReloadTypes ==
  ASSUME TypeInv, NEW o \in OpSlots, Reload(o) \/ ShowDeployments(o) \/ AnswerAwaited(o)
  PROVE  TypeInv'
<1>1. ops[o] \in ProperOp /\ ops[o].inView /\ ops[o].kind \notin {"none", "delete"}
  BY DEF Reload, ShowDeployments, AnswerAwaited, CanRead, TypeInv, ProperOp
<1>2. route \in Apps /\ ops[o].for \in Apps
  BY <1>1, OnApp
<1>3. AwaitLoad(ops[o]) \in ProperOp
  BY <1>1, <1>2, StageTypes, FreshTypes DEF AwaitLoad
<1>4. Away'
  BY <1>2, AppDetailAssumption DEF Reload, ShowDeployments, AnswerAwaited, Away
<1>5. CASE Reload(o)
  <2>1. ops' \in [OpSlots -> ProperOp]
    BY <1>3, <1>5, OpsTypes DEF Reload
  <2>. QED
    BY <1>4, <1>5, <2>1 DEF Reload, TypeInv, ViewTypes, ServerTypes, HistoryTypes, view, server, history
<1>6. CASE ShowDeployments(o)
  <2>1. AwayFromTab[o] = ops[o] /\ AwayFromTab \in [OpSlots -> ProperOp]
    BY <1>6, AwayFromTabTypes DEF ShowDeployments, TabOps
  <2>2. ops' \in [OpSlots -> ProperOp]
    BY <1>3, <1>6, <2>1 DEF ShowDeployments, TypeInv
  <2>3. ViewTypes'
    BY <1>6 DEF ShowDeployments, TypeInv, ViewTypes, AllTabs
  <2>. QED
    BY <1>4, <1>6, <2>2, <2>3 DEF ShowDeployments, TypeInv, ServerTypes, HistoryTypes, server, history
<1>7. CASE AnswerAwaited(o)
  <2>1. dep[ops[o].for] \in Dep
    BY <1>2 DEF TypeInv, ServerTypes
  <2>2. Read(ops[o]) \in ProperOp
    BY <1>1, <1>2, <2>1, StageTypes DEF Read
  <2>3. ops' \in [OpSlots -> ProperOp]
    BY <1>7, <2>2, OpsTypes DEF AnswerAwaited
  <2>. QED
    BY <1>4, <1>7, <2>3 DEF AnswerAwaited, TypeInv, ViewTypes, ServerTypes, HistoryTypes, view, server, history
<1>. QED
  BY <1>5, <1>6, <1>7

LEMMA ReloadedTypes ==
  ASSUME TypeInv, NEW o \in OpSlots, Reloaded(o) \/ ReloadFails(o)
  PROVE  TypeInv'
<1>1. /\ ops[o] \in ProperOp /\ ops[o].inView /\ ops[o].kind \notin {"none", "delete"}
      /\ ops[o].snap \in Dep
  BY DEF Reloaded, ReloadFails, Lost, TypeInv, ProperOp, Op
<1>2. route \in Apps /\ ops[o].for \in Apps
  BY <1>1, OnApp
<1>3. Away'
  BY <1>2, AppDetailAssumption DEF Reloaded, ReloadFails, Away
<1>4. CASE Reloaded(o)
  <2>1. /\ shown' \in [app : Apps, dep : Dep] /\ timer' \in Apps \cup {None}
        /\ typed' = None /\ overtaken' \in BOOLEAN
    BY <1>1, <1>2, <1>4, SetTypes DEF Reloaded
  <2>2. ops' \in [OpSlots -> ProperOp] /\ busy' \in SUBSET Flags
    <3>1. CASE ops[o].kind \in {"action", "deploy"}
      <4>1. [ops[o] EXCEPT !.stage = "refresh", !.snap = Fresh] \in ProperOp
        BY <1>1, <1>2, StageTypes, FreshTypes
      <4>2. ops' = [ops EXCEPT ![o] = [ops[o] EXCEPT !.stage = "refresh", !.snap = Fresh]]
        BY <1>4, <3>1 DEF Reloaded, TypeInv
      <4>. QED
        BY <1>4, <3>1, <4>1, <4>2, OpsTypes DEF Reloaded, TypeInv, ViewTypes
    <3>2. CASE ops[o].kind \notin {"action", "deploy"}
      BY <1>4, <3>2, EndTypes DEF Reloaded
    <3>. QED
      BY <3>1, <3>2
  <2>. QED
    BY <1>3, <1>4, <2>1, <2>2 DEF Reloaded, TypeInv, ViewTypes, ServerTypes, HistoryTypes, server
<1>5. CASE ReloadFails(o)
  <2>1. ops' \in [OpSlots -> ProperOp] /\ busy' \in SUBSET Flags
    BY <1>5, EndTypes DEF ReloadFails
  <2>2. failures' \in 0 .. MaxFailures
    BY <1>5, AppDetailAssumption DEF ReloadFails, Lost, TypeInv, ServerTypes
  <2>. QED
    BY <1>3, <1>5, <2>1, <2>2 DEF ReloadFails, TypeInv, ViewTypes, ServerTypes, HistoryTypes, server, history
<1>. QED
  BY <1>4, <1>5

LEMMA LastStepTypes ==
  ASSUME TypeInv, NEW o \in OpSlots, EndAndReload(o) \/ GoToList(o)
  PROVE  TypeInv'
<1>1. CASE EndAndReload(o)
  <2>1. route \in Apps /\ ops[o].for \in Apps
    BY <1>1, OnApp DEF EndAndReload
  <2>2. ops' \in [OpSlots -> ProperOp] /\ busy' \in SUBSET Flags
    BY <1>1, EndTypes DEF EndAndReload
  <2>3. loads' \in [Slots -> ProperLoad]
    BY <1>1, <2>1, AskTypes DEF EndAndReload
  <2>4. Away'
    BY <1>1, <2>1, AppDetailAssumption DEF EndAndReload, Away
  <2>. QED
    BY <1>1, <2>2, <2>3, <2>4 DEF EndAndReload, TypeInv, ViewTypes, ServerTypes, HistoryTypes, server, history
<1>2. CASE GoToList(o) /\ route = List
  BY <1>2, EndStepTypes DEF GoToList
<1>3. CASE GoToList(o) /\ route # List
  <2>1. ops' \in [OpSlots -> ProperOp] /\ \A p \in OpSlots : ~ops'[p].inView
    BY <1>3, OrphanedTypes, FreshTypes DEF GoToList, TypeInv
  <2>. QED
    BY <1>3, <2>1, UnmountTypes DEF GoToList, TypeInv, ServerTypes, Away, Routes, server
<1>. QED
  BY <1>1, <1>2, <1>3

LEMMA InitTypes == Init => TypeInv
<1>. SUFFICES ASSUME Init PROVE TypeInv
  OBVIOUS
<1>1. exists \in [Apps -> BOOLEAN] /\ HistoryTypes
  BY Zenon DEF Init, HistoryTypes
<1>2. ServerTypes
  BY <1>1, FreshTypes, AppDetailAssumption DEF Init, ServerTypes
<1>3. ViewTypes
  BY DEF Init, ViewTypes, AllTabs
<1>4. loads \in [Slots -> ProperLoad] /\ ops \in [OpSlots -> ProperOp] /\ Away
  BY FreshTypes DEF Init, Away
<1>. QED
  BY <1>1, <1>2, <1>3, <1>4 DEF Init, TypeInv, Routes

LEMMA StepTypes == TypeInv /\ [Next]_vars => TypeInv'
<1>. SUFFICES ASSUME TypeInv, [Next]_vars PROVE TypeInv'
  OBVIOUS
<1>1. CASE UNCHANGED vars
  BY <1>1 DEF vars, view, server, history, TypeInv, ViewTypes, ServerTypes, HistoryTypes, Away
<1>2. CASE \E i \in Slots : Answer(i) \/ Deliver(i) \/ Reject(i)
  BY <1>2, LoadStepTypes
<1>3. CASE Tick \/ Leave \/ \E a \in Apps : Enter(a) \/ Switch(a)
  BY <1>3, BrowserStepTypes
<1>4. CASE (\E t \in Tabs : SelectTab(t)) \/ EditAddresses \/ \E k \in Kinds : Start(k)
  BY <1>4, UserStepTypes
<1>5. CASE \E a \in Apps : Finish(a)
  BY <1>5, FinishTypes
<1>6. ASSUME NEW o \in OpSlots, OpStep(o) PROVE TypeInv'
  BY <1>6, ServeTypes, EndStepTypes, ReloadTypes, ReloadedTypes, LastStepTypes
  DEF OpStep, Close, EndRefresh
<1>. QED
  BY <1>1, <1>2, <1>3, <1>4, <1>5, <1>6 DEF Next

LEMMA TypesHold == Spec => []TypeInv
<1>. QED
  BY InitTypes, StepTypes, PTL DEF Spec

(* The view, the browser, what is in flight and the server keep their types. *)
THEOREM TypeCorrect == Spec => []TypeOK
<1>. QED
  BY TypesHold, TypeInvImplies, PTL

-----------------------------------------------------------------------------
(* The polling.                                                              *)

(* The interval never runs for an app that was left.                         *)
THEOREM IntervalFollows == Spec => []IntervalOwned
<1>1. Init => IntervalOwned
  BY DEF Init, IntervalOwned, Interval
<1>2. TypeInv /\ IntervalOwned /\ [Next]_vars => IntervalOwned'
  <2>. SUFFICES ASSUME TypeInv, IntervalOwned, [Next]_vars PROVE IntervalOwned'
    OBVIOUS
  <2>2. ASSUME NEW l, Set(l), UNCHANGED route PROVE IntervalOwned'
    <3>. DEFINE new == [app |-> l.for, dep |-> l.snap]
    <3>1. shown' = new /\ timer' = Interval(new, route) /\ route' = route
      BY <2>2, Zenon DEF Set
    <3>. HIDE DEF new
    <3>. QED
      BY <3>1 DEF IntervalOwned, Interval
  <2>. USE DEF IntervalOwned, Interval, view
  <2>1. CASE UNCHANGED <<route, shown, timer>>
    BY <2>1
  <2>3. ASSUME NEW a \in Apps, Enter(a) \/ Switch(a) PROVE IntervalOwned'
    BY <2>3 DEF Enter, Switch, IntervalUnder, TypeInv, Away
  <2>4. CASE Unmount(List)
    BY <2>4 DEF Unmount
  <2>5. ASSUME NEW i \in Slots, Answer(i) \/ Deliver(i) \/ Reject(i) PROVE IntervalOwned'
    BY <2>1, <2>2, <2>5 DEF Answer, Deliver, Reject
  <2>6. ASSUME NEW o \in OpSlots, OpStep(o) PROVE IntervalOwned'
    BY <2>1, <2>2, <2>4, <2>6 DEF OpStep, Serve, Close, End, Reload, ShowDeployments, AnswerAwaited,
       Reloaded, ReloadFails, EndRefresh, EndAndReload, GoToList
  <2>. QED
    BY <2>1, <2>3, <2>4, <2>5, <2>6 DEF Next, vars, Tick, Leave, SelectTab, EditAddresses, Start, Finish
<1>. QED
  BY <1>1, <1>2, TypesHold, PTL DEF Spec

-----------------------------------------------------------------------------
(* The addresses being edited.                                               *)

(* Whatever answers come and wherever the browser goes, the addresses in the *)
(* field were typed for the database on the screen.                          *)
THEOREM AddressesStay == Spec => []AddressesOfShown
<1>1. Init => AddressesOfShown
  BY DEF Init, AddressesOfShown
<1>2. AddressesOfShown /\ [Next]_vars => AddressesOfShown'
  <2>. SUFFICES ASSUME AddressesOfShown, [Next]_vars PROVE AddressesOfShown'
    OBVIOUS
  <2>. USE DEF AddressesOfShown, view
  <2>1. CASE UNCHANGED <<shown, typed>>
    BY <2>1
  <2>2. CASE typed' = None
    BY <2>2
  <2>3. CASE EditAddresses
    BY <2>3 DEF EditAddresses
  <2>4. ASSUME NEW i \in Slots, Answer(i) \/ Deliver(i) \/ Reject(i) PROVE AddressesOfShown'
    BY <2>1, <2>2, <2>4 DEF Answer, Deliver, Reject, Set, AddressesReset
  <2>5. ASSUME NEW o \in OpSlots, OpStep(o) PROVE AddressesOfShown'
    BY <2>1, <2>2, <2>5 DEF OpStep, Serve, Close, End, Reload, ShowDeployments, AnswerAwaited,
       Reloaded, ReloadFails, EndRefresh, EndAndReload, GoToList, Unmount, Set, AddressesReset
  <2>. QED
    BY <2>1, <2>2, <2>3, <2>4, <2>5 DEF Next, vars, Tick, Leave, Unmount, Enter, Switch, SelectTab,
       Start, Finish
<1>. QED
  BY <1>1, <1>2, PTL DEF Spec

-----------------------------------------------------------------------------
(* The app on the screen.  While the view has not changed apps in place,     *)
(* every load of the view, its own or an operation's, is for the app of the  *)
(* route: that is what a late answer can bring.                              *)

OfRoute ==
  ~switched =>
    /\ shown # None => shown.app = route
    /\ \A i \in Slots : loads[i].stage # "idle" => loads[i].for = route
    /\ \A o \in OpSlots : ops[o].inView => ops[o].for = route

LEMMA AskOfRoute ==
  ASSUME TypeInv, Ask(route),
         \A i \in Slots : loads[i].stage # "idle" => loads[i].for = route
  PROVE  \A i \in Slots : loads'[i].stage # "idle" => loads'[i].for = route
BY DEF Ask, TypeInv

LEMMA OrphanedOfRoute ==
  ASSUME TypeInv, NEW o \in OpSlots
  PROVE  ~Orphaned(ops[o]).inView
BY OrphanedTypes DEF TypeInv

LEMMA StepOfRoute == TypeInv /\ IntervalOwned /\ OfRoute /\ [Next]_vars => OfRoute'
<1>. SUFFICES ASSUME TypeInv, IntervalOwned, OfRoute, [Next]_vars PROVE OfRoute'
  OBVIOUS
<1>. USE DEF OfRoute, view, history
<1>1. CASE UNCHANGED vars
  BY <1>1 DEF vars
<1>2. CASE Leave
  BY <1>2, UnmountTypes, OrphanedOfRoute DEF Leave
<1>3. ASSUME NEW a \in Apps, Enter(a) PROVE OfRoute'
  <2>1. /\ shown = None /\ \A i \in Slots : loads[i].stage = "idle"
        /\ \A o \in OpSlots : ~ops[o].inView
    BY <1>3 DEF Enter, TypeInv, Away
  <2>2. \A i \in Slots : loads'[i].stage # "idle" => loads'[i].for = a
    BY <1>3, <2>1 DEF Enter, Ask, TypeInv
  <2>. QED
    BY <1>3, <2>1, <2>2 DEF Enter
<1>4. ASSUME NEW a \in Apps, Switch(a) PROVE OfRoute'
  BY <1>4 DEF Switch
<1>5. ASSUME NEW i \in Slots, Answer(i) \/ Deliver(i) \/ Reject(i) PROVE OfRoute'
  <2>1. CASE Answer(i)
    <3>1. Read(loads[i]).for = loads[i].for
      BY DEF Read, TypeInv, ProperLoad
    <3>. QED
      BY <2>1, <3>1 DEF Answer, CanRead, TypeInv
  <2>2. CASE Deliver(i)
    BY <2>2, FreshTypes DEF Deliver, Set, TypeInv
  <2>3. CASE Reject(i)
    BY <2>3, FreshTypes DEF Reject, TypeInv
  <2>. QED
    BY <1>5, <2>1, <2>2, <2>3
<1>6. CASE Tick
  <2>1. timer = route
    BY <1>6 DEF Tick, IntervalOwned, Interval
  <2>. QED
    BY <1>6, <2>1, AskOfRoute DEF Tick
<1>7. ASSUME NEW t \in Tabs, SelectTab(t) PROVE OfRoute'
  BY <1>7, AwayFromTabTypes DEF SelectTab
<1>8. ASSUME NEW k \in Kinds, Start(k) PROVE OfRoute'
  BY <1>8 DEF Start, TypeInv
<1>9. CASE EditAddresses \/ \E a \in Apps : Finish(a)
  BY <1>9 DEF EditAddresses, Finish
<1>10. ASSUME NEW o \in OpSlots, OpStep(o) PROVE OfRoute'
  <2>1. ops[o] \in Op
    BY DEF TypeInv, ProperOp
  <2>2. CASE End(o)
    BY <2>2, FreshTypes DEF End, TypeInv
  <2>3. CASE Serve(o)
    <3>. DEFINE q == IF ops[o].inView \/ ops[o].kind = "delete"
                     THEN [ops[o] EXCEPT !.stage = "accepted"] ELSE NoOp
    <3>1. q.inView => ops[o].inView /\ q.for = ops[o].for
      BY <2>1, FreshTypes DEF Op
    <3>. QED
      BY <2>3, <3>1 DEF Serve, TypeInv
  <2>4. CASE Reload(o) \/ AnswerAwaited(o)
    <3>1. /\ AwaitLoad(ops[o]).inView = ops[o].inView /\ AwaitLoad(ops[o]).for = ops[o].for
          /\ Read(ops[o]).inView = ops[o].inView /\ Read(ops[o]).for = ops[o].for
      BY <2>1 DEF Op, AwaitLoad, Read
    <3>. QED
      BY <2>4, <3>1 DEF Reload, AnswerAwaited, TypeInv
  <2>5. CASE ShowDeployments(o)
    <3>1. AwaitLoad(ops[o]).inView = ops[o].inView /\ AwaitLoad(ops[o]).for = ops[o].for
      BY <2>1 DEF Op, AwaitLoad
    <3>2. AwayFromTab[o] = ops[o]
      BY <2>5, AwayFromTabTypes DEF ShowDeployments, TabOps
    <3>. QED
      BY <2>5, <3>1, <3>2, AwayFromTabTypes DEF ShowDeployments, TypeInv
  <2>6. CASE Reloaded(o)
    <3>1. ops[o].inView /\ (~switched => shown'.app = route)
      BY <2>6 DEF Reloaded, Set, TypeInv, ProperOp
    <3>2. \A p \in OpSlots : ops'[p].inView => ops[p].inView /\ ops'[p].for = ops[p].for
      BY <2>1, <2>6, FreshTypes DEF Reloaded, TypeInv, Op
    <3>. QED
      BY <2>6, <3>1, <3>2 DEF Reloaded
  <2>7. CASE ReloadFails(o)
    BY <2>7, FreshTypes DEF ReloadFails, TypeInv
  <2>8. CASE EndAndReload(o)
    <3>1. ~switched => Ask(route)
      BY <2>8 DEF EndAndReload
    <3>. QED
      BY <2>8, <3>1, AskOfRoute, FreshTypes DEF EndAndReload, TypeInv
  <2>9. CASE GoToList(o) /\ route # List
    BY <2>9, UnmountTypes, OrphanedOfRoute, FreshTypes DEF GoToList
  <2>. QED
    BY <1>10, <2>2, <2>3, <2>4, <2>5, <2>6, <2>7, <2>8, <2>9
    DEF OpStep, Close, EndRefresh, GoToList
<1>. QED
  BY <1>1, <1>2, <1>3, <1>4, <1>5, <1>6, <1>7, <1>8, <1>9, <1>10 DEF Next

(* Unless the view changed apps in place, the app on the screen is the one   *)
(* the route names, for any number of answers of earlier visits.             *)
THEOREM ScreenFollowsRoute == Spec => []ShownIsRouted
<1>1. Init => OfRoute
  BY FreshTypes DEF Init, OfRoute
<1>2. OfRoute => ShownIsRouted
  BY DEF OfRoute, ShownIsRouted
<1>. QED
  BY <1>1, <1>2, StepOfRoute, TypesHold, IntervalFollows, PTL DEF Spec

-----------------------------------------------------------------------------
(* The busy flags.                                                           *)

LEMMA StepBusy == TypeInv /\ BusyExplained /\ [Next]_vars => BusyExplained'
<1>. SUFFICES ASSUME TypeInv, BusyExplained, [Next]_vars PROVE BusyExplained'
  OBVIOUS
<1>. DEFINE Explains(f, p) == f \in FlagOf[p.kind] /\ p.inTab
<1>1. CASE busy' = {}
  BY <1>1 DEF BusyExplained
<1>2. ASSUME UNCHANGED busy,
             \A f \in busy : \A p \in OpSlots : Explains(f, ops[p]) => Explains(f, ops'[p])
      PROVE  BusyExplained'
  BY <1>2 DEF BusyExplained
<1>3. ASSUME NEW o \in OpSlots, ops' = [ops EXCEPT ![o] = NoOp], busy' = FlagsAfter(o)
      PROVE  BusyExplained'
  <2>1. busy' \subseteq busy
    BY <1>3 DEF FlagsAfter
  <2>2. \A f \in busy' : ~Explains(f, ops[o])
    BY <1>3 DEF FlagsAfter
  <2>3. \A p \in OpSlots \ {o} : ops'[p] = ops[p]
    BY <1>3 DEF TypeInv
  <2>. QED
    BY <2>1, <2>2, <2>3 DEF BusyExplained
<1>4. ASSUME NEW o \in OpSlots, OpStep(o) PROVE BusyExplained'
  <2>1. ops[o] \in ProperOp
    BY DEF TypeInv
  <2>2. CASE End(o) \/ ReloadFails(o) \/ EndAndReload(o)
    BY <1>3, <2>2 DEF End, ReloadFails, EndAndReload
  <2>3. CASE GoToList(o) /\ route # List
    BY <1>1, <2>3 DEF GoToList, Unmount
  <2>4. CASE Serve(o)
    <3>. DEFINE q == IF ops[o].inView \/ ops[o].kind = "delete"
                     THEN [ops[o] EXCEPT !.stage = "accepted"] ELSE NoOp
    <3>1. ops[o].inTab => q.kind = ops[o].kind /\ q.inTab
      BY <2>1 DEF ProperOp, Op
    <3>2. \A p \in OpSlots : ops'[p] = IF p = o THEN q ELSE ops[p]
      BY <2>4 DEF Serve, TypeInv
    <3>. QED
      BY <1>2, <2>4, <3>1, <3>2 DEF Serve, view
  <2>5. CASE Reload(o) \/ AnswerAwaited(o)
    <3>1. /\ AwaitLoad(ops[o]).kind = ops[o].kind /\ AwaitLoad(ops[o]).inTab = ops[o].inTab
          /\ Read(ops[o]).kind = ops[o].kind /\ Read(ops[o]).inTab = ops[o].inTab
      BY <2>1 DEF ProperOp, Op, AwaitLoad, Read
    <3>2. \A p \in OpSlots \ {o} : ops'[p] = ops[p]
      BY <2>5 DEF Reload, AnswerAwaited, TypeInv
    <3>3. ops'[o].kind = ops[o].kind /\ ops'[o].inTab = ops[o].inTab
      BY <2>5, <3>1 DEF Reload, AnswerAwaited, TypeInv
    <3>. QED
      BY <1>2, <2>5, <3>2, <3>3 DEF Reload, AnswerAwaited, view
  <2>6. CASE ShowDeployments(o)
    <3>1. AwaitLoad(ops[o]).kind = ops[o].kind /\ AwaitLoad(ops[o]).inTab = ops[o].inTab
      BY <2>1 DEF ProperOp, Op, AwaitLoad
    <3>2. AwayFromTab[o] = ops[o]
      BY <2>6, AwayFromTabTypes DEF ShowDeployments, TabOps
    <3>3. \A p \in OpSlots : ops[p].kind \notin TabOps =>
                             ops'[p].kind = ops[p].kind /\ ops'[p].inTab = ops[p].inTab
      BY <2>6, <3>1, <3>2, AwayFromTabTypes DEF ShowDeployments, TypeInv
    <3>4. \A p \in OpSlots \ {o} : tab = "deployments" => ops'[p] = ops[p]
      BY <2>6 DEF ShowDeployments, TypeInv
    <3>5. CASE tab = "deployments"
      <4>1. ops'[o].kind = ops[o].kind /\ ops'[o].inTab = ops[o].inTab /\ UNCHANGED busy
        BY <2>6, <3>1, <3>5 DEF ShowDeployments, TypeInv
      <4>. QED
        BY <1>2, <3>4, <3>5, <4>1
    <3>6. CASE tab # "deployments"
      BY <2>6, <3>3, <3>6, FlagTypes DEF ShowDeployments, BusyExplained, TypeInv, ProperOp, Op
    <3>. QED
      BY <3>5, <3>6
  <2>7. CASE Reloaded(o)
    <3>1. CASE ops[o].kind \in {"action", "deploy"}
      <4>1. [ops[o] EXCEPT !.stage = "refresh", !.snap = Fresh].kind = ops[o].kind
            /\ [ops[o] EXCEPT !.stage = "refresh", !.snap = Fresh].inTab = ops[o].inTab
        BY <2>1 DEF ProperOp, Op
      <4>2. ops' = [ops EXCEPT ![o] = [ops[o] EXCEPT !.stage = "refresh", !.snap = Fresh]]
        BY <2>7, <3>1 DEF Reloaded, TypeInv
      <4>3. \A p \in OpSlots : ops'[p].kind = ops[p].kind /\ ops'[p].inTab = ops[p].inTab
        BY <4>1, <4>2 DEF TypeInv
      <4>. QED
        BY <1>2, <2>7, <3>1, <4>3 DEF Reloaded
    <3>2. CASE ops[o].kind \notin {"action", "deploy"}
      BY <1>3, <2>7, <3>2 DEF Reloaded
    <3>. QED
      BY <3>1, <3>2
  <2>. QED
    BY <1>4, <2>2, <2>3, <2>4, <2>5, <2>6, <2>7 DEF OpStep, Close, EndRefresh, GoToList
<1>5. ASSUME NEW t \in Tabs, SelectTab(t) PROVE BusyExplained'
  BY <1>5, AwayFromTabTypes, FlagTypes DEF SelectTab, BusyExplained, TypeInv, ProperOp, Op
<1>6. ASSUME NEW k \in Kinds, Start(k) PROVE BusyExplained'
  <2>1. PICK o \in OpSlots :
          /\ ops[o].stage = "idle"
          /\ ops' = [ops EXCEPT ![o] = [stage |-> "sent", kind |-> k, app |-> Target(k),
                                        for |-> route, snap |-> Fresh,
                                        inView |-> TRUE, inTab |-> TRUE]]
    BY <1>6 DEF Start
  <2>2. ops[o].kind = "none"
    BY <2>1 DEF TypeInv, ProperOp
  <2>3. \A f \in busy : ~Explains(f, ops[o])
    BY <2>2, FlagTypes
  <2>4. ops'[o].kind = k /\ ops'[o].inTab /\ \A p \in OpSlots \ {o} : ops'[p] = ops[p]
    BY <2>1 DEF TypeInv
  <2>. QED
    BY <1>6, <2>3, <2>4 DEF Start, BusyExplained
<1>. QED
  BY <1>1, <1>2, <1>4, <1>5, <1>6 DEF Next, vars, view, Answer, Deliver, Reject, Tick, Leave, Unmount,
     Enter, Switch, Finish, EditAddresses

(* No button stays disabled by an operation that has ended, whatever tabs    *)
(* and pages the browser has gone through since.                             *)
THEOREM FlagsAreExplained == Spec => []BusyExplained
<1>1. Init => BusyExplained
  BY DEF Init, BusyExplained
<1>. QED
  BY <1>1, StepBusy, TypesHold, PTL DEF Spec
=============================================================================
