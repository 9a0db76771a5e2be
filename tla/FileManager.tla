----------------------------- MODULE FileManager -----------------------------
(***************************************************************************)
(* The file manager of an app's page (SourceTab): the directory on the      *)
(* screen, its listing, the selection and the history of visited            *)
(* directories, against listings and operations that are in flight.  Every  *)
(* handler keeps, across its awaits, the app, the path, the selection and   *)
(* the history of the render it was made in.                                *)
(*                                                                         *)
(* The tab stays when the page changes to another app.  The tree is that of  *)
(* the app the page is on; what is in flight for one that was left is stale, *)
(* and finds anything.                                                      *)
(***************************************************************************)
EXTENDS Integers, SequencesExt

CONSTANTS
  Dirs,          \* the directories, Root among them
  Files,
  Zips,          \* files that are archives
  Root,
  Parent,        \* the directory each entry is in
  MaxFlying,     \* bound on the listings and operations in flight together
  MaxOps,        \* bound on the operations among them
  MaxHistory     \* bound on the visited directories

Entries == (Dirs \ {Root}) \cup Files

ASSUME FileManagerAssumption ==
  /\ Root \in Dirs
  /\ Dirs \cap Files = {}
  /\ Zips \subseteq Files
  /\ Parent \in [Entries -> Dirs]
  /\ MaxFlying \in Nat \ {0}
  /\ MaxOps \in Nat \ {0}
  /\ MaxHistory \in Nat \ {0}

VARIABLES
  path,       \* the directory on the screen
  items,      \* its listing
  selected,   \* the entries ticked
  visited,    \* history
  index,      \* historyIndex, from 1
  loading,    \* the spinner in place of the listing
  loads,      \* the calls of load() in flight, the oldest first
  ops,        \* the slots of the operations
  tree,       \* server: the entries there are in the app
  doubt,      \* history: the listing may be older than the last change
  strayed     \* history: the last visit failed or met another request

screen == <<path, items, selected, visited, index, loading>>
vars == <<screen, loads, ops, tree, doubt, strayed>>

OpSlots == 1 .. MaxOps

Children(d) == {e \in Entries : Parent[e] = d}
Present(d) == d = Root \/ d \in tree

(* Sets of entries that hold every directory above their members; what is    *)
(* left of one when some entries go, and what comes with entries made.       *)
Trees == {S \in SUBSET Entries : \A e \in S : Parent[e] = Root \/ Parent[e] \in S}
Above == [e \in Entries |-> {x \in Entries : \A T \in Trees : e \in T => x \in T}]
Without(S) == {e \in tree : Above[e] \cap S = {}}
WithParents(S) == UNION {Above[e] : e \in S}

Load(d, visit, to) ==
  [answered |-> FALSE, stale |-> FALSE, dir |-> d, found |-> {}, visit |-> visit, to |-> to]
Stale(l) == [Load(l.dir, l.visit, l.to) EXCEPT !.stale = TRUE]
Again(q) == LET l == Load(q.dir, <<>>, 0) IN IF q.stale THEN Stale(l) ELSE l
NoOp == [kind |-> "idle", stale |-> FALSE, dir |-> Root, left |-> {}]

(* Extracting an archive alone may meet entries that exist.                  *)
Kinds == {"idle", "plain", "extract"}
(* A request: the entries it needs, those it takes away and those it makes.  *)
Requests == [needs : SUBSET Entries, drops : SUBSET Entries, makes : SUBSET Entries]
Req(needs, drops, makes) == [needs |-> needs, drops |-> drops, makes |-> makes]

Init ==
  /\ path = Root
  /\ items = {}
  /\ selected = {}
  /\ visited = <<Root>>
  /\ index = 1
  /\ loading = TRUE
  /\ loads = <<Load(Root, <<>>, 0)>>
  /\ ops = [o \in OpSlots |-> NoOp]
  /\ tree = Entries
  /\ doubt = FALSE
  /\ strayed = FALSE

Room == Len(loads) + Cardinality({o \in OpSlots : ops[o].kind # "idle"}) < MaxFlying

Alone ==
  /\ loads = <<>>
  /\ \A o \in OpSlots : ops[o].kind = "idle"

-----------------------------------------------------------------------------
(* load(): what follows it is carried along, a history to set (visit) or an  *)
(* index to move to.                                                         *)

AskFor(load) ==
  /\ loads' = Append(loads, load)
  /\ loading' = TRUE
Ask(d, visit, to) == AskFor(Load(d, visit, to))

Answer(i) ==
  /\ ~loads[i].answered
  /\ ~loads[i].stale
  /\ Present(loads[i].dir)
  /\ loads' = [loads EXCEPT ![i].answered = TRUE,
                            ![i].found = Children(loads[i].dir) \cap tree]
  /\ UNCHANGED <<screen, ops, tree, doubt, strayed>>

(* navigatePath and travel go on after load() whether or not it failed.      *)
Continue(l) ==
  /\ visited' = IF l.visit # <<>> THEN l.visit ELSE visited
  /\ index' = IF l.to # 0 THEN l.to ELSE index

(* Mutant: the selection outlives the listing.                               *)
SelectionKept == selected
SelectionReset == {}

(* What a listing of the app that was left finds is not known here.          *)
Finds(l) == IF l.stale THEN SUBSET Children(l.dir) ELSE {l.found}
Deliver(i) ==
  /\ loads[i].answered \/ loads[i].stale
  /\ path' = loads[i].dir
  /\ items' \in Finds(loads[i])
  /\ selected' = SelectionReset
  /\ loading' = FALSE
  /\ Continue(loads[i])
  /\ loads' = RemoveAt(loads, i)
  /\ UNCHANGED <<ops, tree, doubt, strayed>>

(* The directory is gone, or the request fails on its way.                   *)
Reject(i) ==
  /\ ~loads[i].answered
  /\ loading' = FALSE
  /\ Continue(loads[i])
  /\ loads' = RemoveAt(loads, i)
  /\ doubt' = TRUE
  /\ strayed' = TRUE
  /\ UNCHANGED <<path, items, selected, ops, tree>>

-----------------------------------------------------------------------------
(* What the user does with the listing: rows are there when it is not        *)
(* loading, the box of the head always.                                      *)

Toggle(e) ==
  /\ ~loading
  /\ e \in items
  /\ selected' = (selected \ {e}) \cup ({e} \ selected)
  /\ UNCHANGED <<path, items, visited, index, loading, loads, ops, tree,
                 doubt, strayed>>

(* All rows that pass the filter, or none if as many are ticked already.     *)
SelectAll ==
  /\ \E visible \in SUBSET items :
       selected' = IF Cardinality(selected) = Cardinality(visible) THEN {} ELSE visible
  /\ UNCHANGED <<path, items, visited, index, loading, loads, ops, tree,
                 doubt, strayed>>

Refresh ==
  /\ Room
  /\ Ask(path, <<>>, 0)
  /\ doubt' = ~Alone
  /\ strayed' = (strayed \/ ~Alone)
  /\ UNCHANGED <<path, items, selected, visited, index, ops, tree>>

(* A row that is a directory, the bread crumbs, the directory above.         *)
Reachable(d) == (d \in items /\ ~loading) \/ d = Root \/ d \in WithParents({path} \ {Root})

(* Mutant: visits are added behind those that were travelled back over.      *)
VisitAtEnd(d) == [visit |-> Append(visited, d), at |-> index + 1]

(* navigatePath(): visits after the current one are cut off.  A travel that   *)
(* ends after such a cut leaves the index beyond the history.                *)
Visit(d) ==
  LET upTo == IF index < Len(visited) THEN index ELSE Len(visited)
      visit == Append(SubSeq(visited, 1, upTo), d)
  IN [visit |-> visit, at |-> Len(visit)]

NavigatePath(d) ==
  /\ Room
  /\ Reachable(d)
  /\ Len(Visit(d).visit) <= MaxHistory
  /\ Ask(d, Visit(d).visit, Visit(d).at)
  /\ doubt' = ~Alone
  /\ strayed' = ~Alone
  /\ UNCHANGED <<path, items, selected, visited, index, ops, tree>>

(* travel(): beyond the history it returns at once.                          *)
Travel(to) ==
  /\ Room
  /\ to \in {index - 1, index + 1} \cap (1 .. Len(visited))
  /\ Ask(visited[to], <<>>, to)
  /\ doubt' = ~Alone
  /\ strayed' = (~Alone \/ index > Len(visited))
  /\ UNCHANGED <<path, items, selected, visited, index, ops, tree>>

-----------------------------------------------------------------------------
(* Operations: what they are asked for is the selection and the directory    *)
(* of the moment, and the directory is listed again at the end.              *)

Begin(kind, requests) ==
  /\ Room
  /\ \E o \in OpSlots :
       /\ ops[o].kind = "idle" /\ \A p \in 1 .. o - 1 : ops[p].kind # "idle"
       /\ ops' = [ops EXCEPT ![o] = [kind |-> kind, stale |-> FALSE, dir |-> path, left |-> requests]]
  /\ doubt' = (doubt \/ ~Alone)
  /\ strayed' = (strayed \/ ~Alone)
  /\ UNCHANGED <<screen, loads, tree>>

RemoveSelected ==
  selected # {} /\ Begin("plain", {Req({e}, {e}, {}) : e \in selected})

Upload ==
  \E new \in SUBSET (Children(path) \cap Files) \ {{}} :
    Begin("plain", {Req({path} \ {Root}, {}, {e}) : e \in new})

Create ==
  \E e \in Children(path) : Begin("plain", {Req({}, {}, {e})})

(* Destinations inside the entry itself are left out.                        *)
RenameOrMove(copy) ==
  \E e \in selected, to \in Entries :
    /\ selected = {e}
    /\ e \notin WithParents({to})
    /\ e \in Dirs <=> to \in Dirs
    /\ IF copy THEN Begin("plain", {Req({e}, {}, {to})})
               ELSE Begin("plain", {Req({e}, {e}, {to})})

Compress ==
  /\ selected # {}
  /\ \E to \in Zips : Begin("plain", {Req(selected, {}, {to})})

Extract ==
  \E z \in selected \cap Zips, found \in SUBSET Children(path) :
    /\ selected = {z}
    /\ z \in items
    /\ Begin("extract", {Req({z}, {}, found \cup ({path} \ {Root}))})

(* One request of an operation, as the server takes it.  The directories     *)
(* above what it makes are made on the way.                                  *)
Taken(r, kind) ==
  /\ r.needs \subseteq tree
  /\ kind = "extract" \/ r.makes \cap tree = {}
  /\ tree' = Without(r.drops) \cup WithParents(r.makes)
Serve(o) ==
  \E r \in ops[o].left :
    /\ IF ops[o].stale THEN UNCHANGED tree ELSE Taken(r, ops[o].kind)
    /\ ops' = [ops EXCEPT ![o].left = @ \ {r}, ![o].kind = "plain"]
    /\ UNCHANGED <<screen, loads, doubt, strayed>>

(* A request is refused: those before it stand, those after it are not sent, *)
(* and nothing is listed again.  Directories made on the way may stay, and   *)
(* so may a part of an archive.                                              *)
Refuse(o) ==
  /\ \E r \in ops[o].left, S \in Trees :
       /\ S \subseteq WithParents(r.makes) \ (IF ops[o].kind = "extract" THEN {} ELSE r.makes)
       /\ tree' = IF ops[o].stale THEN tree ELSE tree \cup S
  /\ ops' = [ops EXCEPT ![o] = NoOp]
  /\ doubt' = TRUE
  /\ UNCHANGED <<screen, loads, strayed>>

Together(o) == \/ loads # <<>>
               \/ \E p \in OpSlots \ {o} : ops[p].kind # "idle"

(* Mutant: nothing is listed again.                                          *)
EndWithout(o) ==
  /\ ops[o].kind # "idle"
  /\ ops[o].left = {}
  /\ ops' = [ops EXCEPT ![o] = NoOp]
  /\ doubt' = Together(o)
  /\ UNCHANGED <<screen, loads, tree, strayed>>

(* All done: the directory the operation was asked in is listed again, of    *)
(* the app it was asked in.                                                  *)
EndAndLoad(o) ==
  /\ ops[o].kind # "idle"
  /\ ops[o].left = {}
  /\ ops' = [ops EXCEPT ![o] = NoOp]
  /\ AskFor(Again(ops[o]))
  /\ doubt' = (Together(o) \/ ops[o].stale)
  /\ strayed' = (strayed \/ Together(o) \/ ops[o].dir # path)
  /\ UNCHANGED <<path, items, selected, visited, index, tree>>

-----------------------------------------------------------------------------
(* What happens elsewhere.                                                   *)

(* An upload of the source, another browser, the app itself.                 *)
ChangeElsewhere ==
  /\ \/ \E e \in tree : tree' = Without({e})
     \/ \E e \in Entries \ tree : tree' = tree \cup WithParents({e})
  /\ doubt' = TRUE
  /\ UNCHANGED <<screen, loads, ops, strayed>>

(* The page changes to another app: its root is listed, and until that comes *)
(* the screen, with what is ticked, and the history stay as they are.        *)
SwitchApp ==
  /\ Room
  /\ tree' \in Trees
  /\ ops' = [o \in OpSlots |-> [ops[o] EXCEPT !.stale = ops[o].kind # "idle"]]
  /\ loads' = Append([i \in DOMAIN loads |-> Stale(loads[i])], Load(Root, <<>>, 0))
  /\ loading' = TRUE
  /\ doubt' = ~Alone
  /\ strayed' = TRUE
  /\ UNCHANGED <<path, items, selected, visited, index>>

LoadStep(i) == Answer(i) \/ Deliver(i) \/ Reject(i)
OpStep(o) == Serve(o) \/ Refuse(o) \/ EndAndLoad(o)

Next ==
  \/ \E i \in DOMAIN loads : LoadStep(i)
  \/ \E o \in OpSlots : OpStep(o)
  \/ \E e \in Entries : Toggle(e)
  \/ SelectAll
  \/ Refresh
  \/ \E d \in Dirs : NavigatePath(d)
  \/ \E to \in 1 .. MaxHistory : Travel(to)
  \/ RemoveSelected
  \/ Upload
  \/ Create
  \/ \E copy \in BOOLEAN : RenameOrMove(copy)
  \/ Compress
  \/ Extract
  \/ ChangeElsewhere
  \/ SwitchApp

Spec == Init /\ [][Next]_vars

-----------------------------------------------------------------------------
(* Properties.                                                               *)

(* The types of the state.                                                   *)
TypeOK ==
  /\ path \in Dirs
  /\ items \subseteq Entries
  /\ selected \subseteq Entries
  /\ visited \in Seq(Dirs) /\ Len(visited) \in 1 .. MaxHistory
  /\ index \in 1 .. MaxHistory
  /\ loading \in BOOLEAN
  /\ Len(loads) <= MaxFlying
  /\ \A i \in DOMAIN loads : loads[i].dir \in Dirs /\ loads[i].found \subseteq Entries
  /\ \A o \in OpSlots : /\ ops[o].kind \in Kinds
                        /\ ops[o].dir \in Dirs
                        /\ ops[o].left \subseteq Requests
  /\ tree \subseteq Entries
  /\ doubt \in BOOLEAN
  /\ strayed \in BOOLEAN

(* What is ticked is on the screen, under the directory the screen names:    *)
(* "delete" never takes entries of a directory that was left, in whatever    *)
(* order the listings of several visits arrive.                              *)
SelectedListed == selected \subseteq items /\ items \subseteq Children(path)

(* When nothing is in flight the listing shows the effect of every           *)
(* operation, unless one failed, ran beside another request or a change of   *)
(* app, or someone else changed the directory since the listing was last     *)
(* asked for.                                                                *)
EffectsListed == (Alone /\ ~doubt) => items = Children(path) \cap tree

(* "back" and "forward" start from the directory on the screen, unless the   *)
(* last visit failed or met another request, or was in another app.          *)
HistoryFollows ==
  (Alone /\ ~strayed) => /\ index \in 1 .. Len(visited)
                         /\ visited[index] = path
=============================================================================
