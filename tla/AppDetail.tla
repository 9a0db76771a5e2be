------------------------------ MODULE AppDetail ------------------------------
(***************************************************************************)
(* The page of one app (AppDetailView) in a browser that may leave it, or   *)
(* go to the page of another app, while requests are in flight.  Answers    *)
(* arrive in any order; the view is one instance as long as the route names *)
(* some app, and it polls while it shows a deployment under way.            *)
(***************************************************************************)
EXTENDS Integers, FiniteSets

CONSTANTS
  Apps,
  Sourced,        \* apps whose source, image or type allows a deployment
  List,           \* the route of the list of apps
  None,
  MaxLoads,       \* loads in flight that no operation awaits
  MaxOps,         \* operations in flight
  MaxMixed,       \* the same, in a view that has changed apps in place
  MaxDeploys,     \* deployments of one app
  MaxFailures,    \* requests lost by the network
  Kinds,          \* the operations the user may ask for
  Tabs            \* the tabs the user may select

AllKinds == {"action", "deploy", "backup", "admin", "access", "domain", "undomain",
             "exec", "settings", "delete"}
AllTabs == {"overview", "deployments", "logs", "domain", "settings"}

ASSUME AppDetailAssumption ==
  /\ Sourced \subseteq Apps
  /\ List \notin Apps
  /\ None \notin Apps
  /\ None # List
  /\ MaxLoads \in Nat \ {0}
  /\ MaxOps \in Nat \ {0}
  /\ MaxMixed \in Nat
  /\ MaxDeploys \in Nat
  /\ MaxFailures \in Nat
  /\ Kinds \subseteq AllKinds
  /\ Tabs \subseteq AllTabs

VARIABLES
  route,      \* the location hash: an app or the list
  shown,      \* app and deployments of the view, or None while it loads
  tab,        \* the tab that is mounted
  timer,      \* the app the interval loads, or None
  busy,       \* the busy flags that are set
  typed,      \* the app whose allowed addresses were being edited, or None
  loads,      \* the slots of the load()s that nothing awaits
  ops,        \* the slots of the operations, each with the load() it awaits
  dep,        \* server: deployments made, and whether the last one is open
  exists,     \* server: whether the app exists
  failures,   \* requests lost so far
  switched,   \* history: the view has changed apps without being left
  overtaken   \* history: the view has shown an older answer after a newer one

view == <<shown, tab, timer, busy, typed>>
server == <<dep, exists>>
history == <<switched, overtaken>>
vars == <<route, view, loads, ops, server, failures, history>>

Routes == Apps \cup {List}
Flags == {"page", "admin", "access", "domain", "exec"}
Dep == [n : 0 .. MaxDeploys, open : BOOLEAN]
Fresh == [n |-> 0, open |-> FALSE]

Slots == 1 .. MaxLoads
OpSlots == 1 .. MaxOps
NoLoad == [stage |-> "idle", for |-> None, snap |-> Fresh]
NoOp == [stage |-> "idle", kind |-> "none", app |-> None, for |-> None, snap |-> Fresh,
         inView |-> FALSE, inTab |-> FALSE]

(* Where an operation is asked for, and the flag that disables its button.   *)
HomeTab == [k \in AllKinds |->
  CASE k \in {"backup", "admin", "access"} -> "overview"
    [] k = "exec" -> "logs"
    [] k \in {"domain", "undomain"} -> "domain"
    [] k \in {"settings", "delete"} -> "settings"
    [] OTHER -> "any"]
FlagOf == [k \in AllKinds \cup {"none"} |->
  CASE k \in {"action", "deploy"} -> {"page"}
    [] k \in {"admin", "access", "domain", "exec"} -> {k}
    [] OTHER -> {}]

Init ==
  /\ route = List
  /\ shown = None
  /\ tab = "overview"
  /\ timer = None
  /\ busy = {}
  /\ typed = None
  /\ loads = [i \in Slots |-> NoLoad]
  /\ ops = [o \in OpSlots |-> NoOp]
  /\ dep = [a \in Apps |-> Fresh]
  /\ exists = [a \in Apps |-> TRUE]
  /\ failures = 0
  /\ switched = FALSE
  /\ overtaken = FALSE

-----------------------------------------------------------------------------
(* load(): four requests answered together, for the app of its closure.      *)

Ask(a) ==
  \E i \in Slots :
    /\ loads[i].stage = "idle" /\ \A j \in 1 .. i - 1 : loads[j].stage # "idle"
    /\ loads' = [loads EXCEPT ![i] = [stage |-> "asked", for |-> a, snap |-> Fresh]]

(* The server reads at some time between the call and its answer.            *)
Read(l) == [l EXCEPT !.stage = "answered", !.snap = dep[l.for]]
CanRead(l) == l.stage = "asked" /\ exists[l.for]

Answer(i) ==
  /\ CanRead(loads[i])
  /\ loads' = [loads EXCEPT ![i] = Read(@)]
  /\ UNCHANGED <<route, view, ops, server, failures, history>>

(* Mutant: the early return is inverted.                                     *)
IntervalInverted(screen, r) ==
  IF screen # None /\ ~screen.dep.open THEN r ELSE None

(* The effect on [deployments, load]: an interval while a shown deployment   *)
(* is queued or running, loading the app of the route it was made under.     *)
Interval(screen, r) ==
  IF screen # None /\ screen.dep.open THEN r ELSE None

IntervalUnder(r) == Interval(shown, r)

Older(x, y) == x.n < y.n \/ (x.n = y.n /\ x.open /\ ~y.open)

(* New data replace the addresses being edited.                              *)
(* Mutant: they are taken from the app only when the tab is mounted.         *)
AddressesKept == typed
AddressesReset == None

(* The four values are set whatever app the route names by now.              *)
Set(l) ==
  LET new == [app |-> l.for, dep |-> l.snap] IN
  /\ shown' = new
  /\ timer' = Interval(new, route)
  /\ overtaken' = (overtaken \/ ( /\ shown # None
                                  /\ shown.app = new.app
                                  /\ Older(new.dep, shown.dep) ))
  /\ typed' = AddressesReset

Deliver(i) ==
  /\ loads[i].stage = "answered"
  /\ Set(loads[i])
  /\ loads' = [loads EXCEPT ![i] = NoLoad]
  /\ UNCHANGED <<route, tab, busy, ops, server, failures, switched>>

(* A load fails because the app is gone or the network loses it, and leaves  *)
(* the screen as it was.                                                     *)
Lost(l) ==
  /\ l.stage = "asked"
  /\ \/ ~exists[l.for] /\ UNCHANGED failures
     \/ failures < MaxFailures /\ failures' = failures + 1

Reject(i) ==
  /\ Lost(loads[i])
  /\ loads' = [loads EXCEPT ![i] = NoLoad]
  /\ UNCHANGED <<route, view, ops, server, history>>

Tick ==
  /\ timer # None
  /\ Ask(timer)
  /\ UNCHANGED <<route, view, ops, server, failures, history>>

-----------------------------------------------------------------------------
(* The location hash.  Leaving unmounts the view: what is in flight for it   *)
(* can no longer change the screen, though the server may still act on it.   *)

(* Mutant: the state outlives the view, and late answers find it.            *)
LoadsKept == loads
LoadsDropped == [i \in Slots |-> NoLoad]

Unmount(r) ==
  /\ route' = r
  /\ shown' = None
  /\ tab' = "overview"
  /\ timer' = None
  /\ busy' = {}
  /\ typed' = None
  /\ switched' = FALSE
  /\ overtaken' = FALSE
  /\ loads' = LoadsDropped

(* Of an operation whose view is gone only these matter: what the server has *)
(* still to do, and the navigation that follows a deletion.                  *)
Orphaned(p) ==
  IF \/ p.kind = "delete"
     \/ p.kind = "deploy" /\ p.stage = "sent"
  THEN [p EXCEPT !.for = None, !.inView = FALSE, !.inTab = FALSE]
  ELSE NoOp

Leave ==
  /\ route # List
  /\ Unmount(List)
  /\ ops' = [o \in OpSlots |-> Orphaned(ops[o])]
  /\ UNCHANGED <<server, failures>>

Enter(a) ==
  /\ route = List
  /\ route' = a
  /\ Ask(a)
  /\ UNCHANGED <<view, ops, server, failures, history>>

UnderWay == {o \in OpSlots : ops[o].stage # "idle"}

(* From one app to another, by the browser's history or address bar, or by   *)
(* the dialog that has created an app: same component, same instance.        *)
Switch(a) ==
  /\ route \notin {a, List}
  /\ Cardinality(UnderWay) <= MaxMixed
  /\ route' = a
  /\ Ask(a)
  /\ timer' = IntervalUnder(a)
  /\ switched' = TRUE
  /\ UNCHANGED <<shown, tab, busy, typed, ops, server, failures, overtaken>>

-----------------------------------------------------------------------------
(* Tabs.  A tab that is left loses its state, its flag included.             *)

TabOps == AllKinds \ {"action", "deploy"}
AwayFromTab ==
  [o \in OpSlots |-> IF ops[o].kind \in TabOps THEN [ops[o] EXCEPT !.inTab = FALSE]
                     ELSE ops[o]]

SelectTab(t) ==
  /\ shown # None
  /\ t # tab
  /\ tab' = t
  /\ busy' = busy \cap {"page"}
  /\ typed' = None
  /\ ops' = AwayFromTab
  /\ UNCHANGED <<route, shown, timer, loads, server, failures, history>>

(* OverviewTab: the allowed addresses of the database on the screen.         *)
EditAddresses ==
  /\ shown # None
  /\ tab = "overview"
  /\ typed' = shown.app
  /\ UNCHANGED <<route, shown, tab, timer, busy, loads, ops, server, failures, history>>

-----------------------------------------------------------------------------
(* Operations: asked for on the page or on a tab, for the app of the route   *)
(* or the app on the screen.                                                 *)

(* The header's buttons obey the page's flag, but for "deploy" there are      *)
(* others on two of the tabs, and those do not.                              *)
Offered(k) ==
  CASE k = "action" -> "page" \notin busy
    [] k = "deploy" -> /\ "page" \notin busy \/ tab \in {"overview", "deployments"}
                       /\ shown.app \in Sourced
    [] OTHER -> tab = HomeTab[k] /\ FlagOf[k] \cap busy = {}

Target(k) == IF k \in {"action", "deploy", "backup"} THEN route ELSE shown.app

Start(k) ==
  /\ shown # None
  /\ Offered(k)
  /\ switched => Cardinality(UnderWay) < MaxMixed
  /\ \E o \in OpSlots :
       /\ ops[o].stage = "idle" /\ \A p \in 1 .. o - 1 : ops[p].stage # "idle"
       /\ ops' = [ops EXCEPT ![o] = [stage |-> "sent", kind |-> k, app |-> Target(k),
                                     for |-> route, snap |-> Fresh,
                                     inView |-> TRUE, inTab |-> TRUE]]
  /\ busy' = busy \cup FlagOf[k]
  /\ UNCHANGED <<route, shown, tab, timer, typed, loads, server, failures, history>>

(* Mutant: no look at the deployment under way.                              *)
AcceptsAny(p) == exists[p.app]

(* The server's side: a deployment beside an open one is refused.            *)
Accepts(p) ==
  /\ exists[p.app]
  /\ p.kind = "deploy" => (~dep[p.app].open /\ dep[p.app].n < MaxDeploys)

Serve(o) ==
  /\ ops[o].stage = "sent"
  /\ Accepts(ops[o])
  /\ LET p == ops[o] IN
       /\ ops' = [ops EXCEPT ![o] =
            IF p.inView \/ p.kind = "delete" THEN [@ EXCEPT !.stage = "accepted"] ELSE NoOp]
       /\ dep' = IF p.kind = "deploy"
                 THEN [dep EXCEPT ![p.app] = [n |-> @.n + 1, open |-> TRUE]]
                 ELSE dep
       /\ exists' = [exists EXCEPT ![p.app] = p.kind # "delete"]
  /\ UNCHANGED <<route, view, loads, failures, history>>

(* The server's worker ends the deployment.                                  *)
Finish(a) ==
  /\ dep[a].open
  /\ dep' = [dep EXCEPT ![a].open = FALSE]
  /\ UNCHANGED <<route, view, loads, ops, exists, failures, history>>

(* Mutant: no finally.                                                       *)
FlagsLeft(o) == busy

(* catch and finally: the flag is cleared where it was set.                  *)
FlagsAfter(o) == IF ops[o].inTab THEN busy \ FlagOf[ops[o].kind] ELSE busy
End(o) ==
  /\ ops' = [ops EXCEPT ![o] = NoOp]
  /\ busy' = FlagsAfter(o)
  /\ UNCHANGED <<route, shown, tab, timer, typed, loads, server, failures, history>>

(* Refused, or failed on the server or on the way to it; or done, with        *)
(* nothing to load.                                                          *)
Close(o) ==
  /\ ops[o].stage = "sent" \/ (ops[o].stage = "accepted" /\ ops[o].kind \in {"backup", "exec"})
  /\ End(o)

(* Mutant: the list of apps is refreshed, the view is not.                   *)
AwaitRefresh(p) == [p EXCEPT !.stage = "refresh"]
AwaitLoad(p) == [p EXCEPT !.stage = "asked"]

(* Accepted, and awaited: the view loads before the operation ends.          *)
Reload(o) ==
  /\ ops[o].stage = "accepted"
  /\ ops[o].kind \in {"action", "admin", "access"}
  /\ ops[o].inView
  /\ ops' = [ops EXCEPT ![o] = AwaitLoad(@)]
  /\ UNCHANGED <<route, view, loads, server, failures, history>>

(* After a deployment has been accepted the tab of deployments is mounted.   *)
ShowDeployments(o) ==
  /\ ops[o].stage = "accepted"
  /\ ops[o].kind = "deploy"
  /\ ops[o].inView
  /\ tab' = "deployments"
  /\ IF tab = "deployments"
     THEN /\ ops' = [ops EXCEPT ![o] = AwaitLoad(@)]
          /\ UNCHANGED <<busy, typed>>
     ELSE /\ ops' = [AwayFromTab EXCEPT ![o] = AwaitLoad(@)]
          /\ busy' = busy \cap {"page"}
          /\ typed' = None
  /\ UNCHANGED <<route, shown, timer, loads, server, failures, history>>

AnswerAwaited(o) ==
  /\ CanRead(ops[o])
  /\ ops' = [ops EXCEPT ![o] = Read(@)]
  /\ UNCHANGED <<route, view, loads, server, failures, history>>

(* The awaited load: the page's own operations go on to refreshApps().       *)
Reloaded(o) ==
  /\ ops[o].stage = "answered"
  /\ Set(ops[o])
  /\ IF ops[o].kind \in {"action", "deploy"}
     THEN /\ ops' = [ops EXCEPT ![o].stage = "refresh", ![o].snap = Fresh]
          /\ UNCHANGED busy
     ELSE /\ ops' = [ops EXCEPT ![o] = NoOp]
          /\ busy' = FlagsAfter(o)
  /\ UNCHANGED <<route, tab, loads, server, failures, switched>>

(* The awaited load fails, and the operation is reported as failed.          *)
ReloadFails(o) ==
  /\ Lost(ops[o])
  /\ ops' = [ops EXCEPT ![o] = NoOp]
  /\ busy' = FlagsAfter(o)
  /\ UNCHANGED <<route, shown, tab, timer, typed, loads, server, history>>

(* refreshApps() has been answered, or has failed.                           *)
EndRefresh(o) == ops[o].stage = "refresh" /\ End(o)

(* Accepted, and a load is started that nobody awaits.                       *)
EndAndReload(o) ==
  /\ ops[o].stage = "accepted"
  /\ ops[o].kind \in {"domain", "undomain", "settings"}
  /\ ops[o].inView
  /\ Ask(ops[o].for)
  /\ ops' = [ops EXCEPT ![o] = NoOp]
  /\ busy' = FlagsAfter(o)
  /\ UNCHANGED <<route, shown, tab, timer, typed, server, failures, history>>

(* The app is gone: back to the list, from wherever the browser is by now.   *)
GoToList(o) ==
  /\ ops[o].stage = "accepted"
  /\ ops[o].kind = "delete"
  /\ IF route = List
     THEN End(o)
     ELSE /\ Unmount(List)
          /\ ops' = [p \in OpSlots |-> IF p = o THEN NoOp ELSE Orphaned(ops[p])]
          /\ UNCHANGED <<server, failures>>

OpStep(o) ==
  \/ Serve(o)
  \/ Close(o) \/ Reload(o) \/ ShowDeployments(o) \/ AnswerAwaited(o) \/ Reloaded(o)
  \/ ReloadFails(o) \/ EndRefresh(o) \/ EndAndReload(o) \/ GoToList(o)

Next ==
  \/ \E i \in Slots : Answer(i) \/ Deliver(i) \/ Reject(i)
  \/ Tick
  \/ Leave
  \/ \E a \in Apps : Enter(a) \/ Switch(a) \/ Finish(a)
  \/ \E t \in Tabs : SelectTab(t)
  \/ EditAddresses
  \/ \E k \in Kinds : Start(k)
  \/ \E o \in OpSlots : OpStep(o)

Spec == Init /\ [][Next]_vars

(* Requests are answered, intervals fire, the server ends its deployments;   *)
(* nothing is assumed of the user.                                           *)
Fairness ==
  /\ \A i \in Slots : WF_vars(Answer(i) \/ Deliver(i) \/ Reject(i))
  /\ \A o \in OpSlots : WF_vars(OpStep(o))
  /\ \A a \in Apps : WF_vars(Finish(a))
  /\ WF_vars(Tick)

FairSpec == Spec /\ Fairness

-----------------------------------------------------------------------------
(* Properties.                                                               *)

(* The types of the state.                                                   *)
TypeOK ==
  /\ route \in Routes
  /\ shown \in [app : Apps, dep : Dep] \cup {None}
  /\ tab \in AllTabs
  /\ timer \in Apps \cup {None}
  /\ busy \in SUBSET Flags
  /\ typed \in Apps \cup {None}
  /\ loads \in [Slots -> [stage : {"idle", "asked", "answered"},
                          for : Apps \cup {None}, snap : Dep]]
  /\ ops \in [OpSlots -> [stage : {"idle", "sent", "accepted", "asked", "answered", "refresh"},
                          kind : AllKinds \cup {"none"}, app : Apps \cup {None},
                          for : Apps \cup {None}, snap : Dep, inView : BOOLEAN, inTab : BOOLEAN]]
  /\ dep \in [Apps -> Dep]
  /\ exists \in [Apps -> BOOLEAN]
  /\ failures \in 0 .. MaxFailures
  /\ switched \in BOOLEAN
  /\ overtaken \in BOOLEAN

(* Unless the view changed apps in place, the app on the screen is the one   *)
(* the route names, whatever answers of earlier visits are still to come:    *)
(* "start", "deploy" and "backup", which go to the app of the route, act on  *)
(* what the user sees.                                                       *)
ShownIsRouted == (shown # None /\ ~switched) => shown.app = route

(* The addresses a user is editing were typed for the app on the screen:     *)
(* saving never opens one app's database to addresses meant for another's,   *)
(* even when the view changes apps under the text.                           *)
AddressesOfShown == typed # None => (shown # None /\ shown.app = typed)

(* The interval runs exactly while a deployment is shown as under way, and   *)
(* loads the app of the route, not one that was left.                        *)
IntervalOwned == timer = Interval(shown, route)

(* A flag that disables buttons belongs to an operation still under way, so  *)
(* no button stays disabled when everything has been answered.               *)
BusyExplained ==
  \A f \in busy : \E o \in OpSlots : f \in FlagOf[ops[o].kind] /\ ops[o].inTab

(* A deployment shown as under way that has ended is eventually shown so, or *)
(* the user has left, or the app is gone: failed loads and answers out of    *)
(* order do not stop the polling.                                            *)
Outdated ==
  /\ shown # None
  /\ shown.app = route
  /\ shown.dep.open
  /\ ~dep[route].open
EndIsShown == Outdated ~> (~Outdated \/ ~exists[route])

(* A deployment accepted from the page appears on it, unless the user        *)
(* leaves, the app is deleted, a request is lost or an older answer          *)
(* overtakes a newer one.                                                    *)
DeployAccepted ==
  \E o \in OpSlots : /\ ops[o].stage = "accepted"
                     /\ ops[o].kind = "deploy"
                     /\ ops[o].inView
DeployIsShown ==
  DeployAccepted ~>
    \/ route = List \/ switched \/ overtaken \/ failures > 0 \/ ~exists[route]
    \/ (shown # None /\ shown.dep.n = dep[route].n)
=============================================================================
