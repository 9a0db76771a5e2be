--------------------------- MODULE SchedulesProofs ---------------------------
(***************************************************************************)
(* Proofs about Schedules, for any number of schedules, requests, listings  *)
(* and crashes.                                                             *)
(***************************************************************************)
EXTENDS Schedules, SequenceTheorems, TLAPS

-----------------------------------------------------------------------------
(* Types.  A request that writes has its row, and one that has read a row    *)
(* has a schedule.                                                           *)

Request == [stage : {"sent", "ready", "synced", "done"}, kind : {"create", "update", "delete"},
            id : 0 .. MaxId, new : Row \cup {None}, base : Row \cup {None}]

ProperRequest ==
  {q \in Request :
     /\ q.stage # "done" /\ q.kind # "delete" => q.new \in Row
     /\ q.stage # "done" /\ q.kind # "create" => q.id \in Ids
     /\ q.stage \in {"ready", "synced"} => q.id \in Ids
     /\ q.stage \in {"ready", "synced"} /\ q.kind = "update" => q.base \in Row
     /\ q.stage = "done" => q.id = 0}

RequestTypes == requests \in Seq(ProperRequest) /\ Len(requests) <= MaxRequests
LoadTypes == loads \in Seq(Rows \cup {None}) /\ Len(loads) <= MaxLoads
RacedTypes == raced \in [Ids -> BOOLEAN]

TypeInv ==
  /\ row \in Rows
  /\ job \in [Ids -> Intervals \cup {None}]
  /\ run \in [Ids -> {"none", "backup"}]
  /\ RequestTypes
  /\ up \in BOOLEAN
  /\ crashes \in 0 .. MaxCrashes
  /\ app \in BOOLEAN
  /\ list \in Rows
  /\ LoadTypes
  /\ RacedTypes
  /\ crossed \in BOOLEAN

LEMMA TypeInvImplies == TypeInv => TypeOK
<1>. SUFFICES ASSUME TypeInv PROVE TypeOK
  OBVIOUS
<1>1. \A r \in DOMAIN requests : requests[r] \in Request
  BY DEF TypeInv, RequestTypes, ProperRequest
<1>2. \A i \in DOMAIN loads : loads[i] \in Rows \cup {None}
  BY DEF TypeInv, LoadTypes
<1>3. \A r \in DOMAIN requests : /\ requests[r].stage \in {"sent", "ready", "synced", "done"}
                                 /\ requests[r].kind \in {"create", "update", "delete"}
                                 /\ requests[r].id \in 0 .. MaxId
                                 /\ requests[r].new \in Row \cup {None}
                                 /\ requests[r].base \in Row \cup {None}
  BY <1>1 DEF Request
<1>. QED
  BY <1>2, <1>3, Zenon DEF TypeInv, TypeOK, RequestTypes, LoadTypes, RacedTypes

(* What RemoveAt leaves of a sequence.                                       *)
LEMMA RemoveAtIs ==
  ASSUME NEW S, NEW s \in Seq(S), NEW i \in DOMAIN s
  PROVE  /\ RemoveAt(s, i) \in Seq(S)
         /\ Len(RemoveAt(s, i)) = Len(s) - 1
         /\ \A j \in DOMAIN RemoveAt(s, i) :
              /\ j < i => j \in DOMAIN s /\ RemoveAt(s, i)[j] = s[j]
              /\ j >= i => j + 1 \in DOMAIN s /\ RemoveAt(s, i)[j] = s[j + 1]
         /\ \A k \in DOMAIN s :
              /\ k < i => k \in DOMAIN RemoveAt(s, i) /\ RemoveAt(s, i)[k] = s[k]
              /\ k > i => k - 1 \in DOMAIN RemoveAt(s, i) /\ RemoveAt(s, i)[k - 1] = s[k]
<1>. DEFINE a == SubSeq(s, 1, i - 1)
            b == SubSeq(s, i + 1, Len(s))
<1>1. /\ i \in 1 .. Len(s) /\ Len(s) \in Nat /\ DOMAIN s = 1 .. Len(s)
      /\ \A j \in 1 .. Len(s) : s[j] \in S
  OBVIOUS
<1>2. a \in Seq(S) /\ Len(a) = i - 1 /\ \A j \in 1 .. i - 1 : a[j] = s[j]
  <2>1. i - 1 \in Int /\ \A j \in 1 .. i - 1 : s[j] \in S
    BY <1>1
  <2>. QED
    BY <1>1, <2>1, SubSeqProperties
<1>3. b \in Seq(S) /\ Len(b) = Len(s) - i /\ \A j \in 1 .. Len(s) - i : b[j] = s[j + i]
  <2>1. i + 1 \in Int /\ \A j \in i + 1 .. Len(s) : s[j] \in S
    BY <1>1
  <2>2. /\ b \in Seq(S) /\ Len(b) = IF i + 1 <= Len(s) THEN Len(s) - (i + 1) + 1 ELSE 0
        /\ \A j \in 1 .. Len(s) - (i + 1) + 1 : b[j] = s[(i + 1) + j - 1]
    BY <1>1, <2>1, SubSeqProperties
  <2>. HIDE DEF b
  <2>3. Len(b) = Len(s) - i
    BY <1>1, <2>2
  <2>4. ASSUME NEW j \in 1 .. Len(s) - i PROVE b[j] = s[j + i]
    <3>1. j \in 1 .. Len(s) - (i + 1) + 1 /\ (i + 1) + j - 1 = j + i
      BY <1>1
    <3>2. b[j] = s[(i + 1) + j - 1]
      BY <2>2, <3>1
    <3>. QED
      BY <3>1, <3>2
  <2>. QED
    BY <2>2, <2>3, <2>4
<1>4. RemoveAt(s, i) = a \o b
  BY DEF RemoveAt
<1>. HIDE DEF a, b
<1>. DEFINE c == a \o b
<1>5. /\ c \in Seq(S) /\ Len(c) = (i - 1) + (Len(s) - i)
      /\ \A j \in 1 .. (i - 1) + (Len(s) - i) : c[j] = IF j <= i - 1 THEN a[j] ELSE b[j - (i - 1)]
  <2>1. /\ c \in Seq(S) /\ Len(c) = Len(a) + Len(b)
        /\ \A j \in 1 .. Len(a) + Len(b) : c[j] = IF j <= Len(a) THEN a[j] ELSE b[j - Len(a)]
    BY <1>2, <1>3, ConcatProperties
  <2>. QED
    BY <1>2, <1>3, <2>1
<1>. HIDE DEF c
<1>6. Len(c) = Len(s) - 1 /\ DOMAIN c = 1 .. Len(s) - 1
  BY <1>1, <1>5
<1>7. ASSUME NEW j \in DOMAIN c
      PROVE  (j < i => c[j] = s[j]) /\ (j >= i => c[j] = s[j + 1])
  <2>1. j \in 1 .. (i - 1) + (Len(s) - i)
    BY <1>1, <1>6
  <2>2. CASE j < i
    BY <1>1, <1>2, <1>5, <2>1, <2>2
  <2>3. CASE j >= i
    <3>1. j - (i - 1) \in 1 .. Len(s) - i /\ (j - (i - 1)) + i = j + 1 /\ ~(j <= i - 1)
      BY <1>1, <2>1, <2>3
    <3>2. c[j] = b[j - (i - 1)] /\ b[j - (i - 1)] = s[j + 1]
      BY <1>3, <1>5, <2>1, <3>1
    <3>. QED
      BY <1>1, <2>3, <3>2
  <2>. QED
    BY <1>1, <1>6, <2>2, <2>3
<1>8. ASSUME NEW k \in DOMAIN s
      PROVE  /\ k < i => k \in DOMAIN c /\ c[k] = s[k]
             /\ k > i => k - 1 \in DOMAIN c /\ c[k - 1] = s[k]
  <2>1. CASE k < i
    <3>1. k \in DOMAIN c
      BY <1>1, <1>6, <2>1
    <3>. QED
      BY <1>1, <1>7, <2>1, <3>1
  <2>2. CASE k > i
    <3>1. k - 1 \in DOMAIN c /\ k - 1 >= i /\ (k - 1) + 1 = k
      BY <1>1, <1>6, <2>2
    <3>2. c[k - 1] = s[(k - 1) + 1]
      BY <1>7, <3>1
    <3>. QED
      BY <1>1, <2>2, <3>1, <3>2
  <2>. QED
    BY <1>1, <2>1, <2>2
<1>9. \A j \in DOMAIN c : (j < i => j \in DOMAIN s) /\ (j >= i => j + 1 \in DOMAIN s)
  BY <1>1, <1>6
<1>. QED
  BY <1>4, <1>5, <1>6, <1>7, <1>8, <1>9 DEF c

-----------------------------------------------------------------------------
(* The requests.                                                             *)

LEMMA RequestIs ==
  ASSUME TypeInv, NEW r \in DOMAIN requests
  PROVE  /\ r \in 1 .. Len(requests) /\ Len(requests) \in Nat
         /\ requests[r] \in ProperRequest /\ requests[r] \in Request
BY DEF TypeInv, RequestTypes, ProperRequest

LEMMA RequestRemoved ==
  ASSUME TypeInv, NEW r \in DOMAIN requests, requests' = RemoveAt(requests, r)
  PROVE  RequestTypes'
<1>1. /\ RemoveAt(requests, r) \in Seq(ProperRequest)
      /\ Len(RemoveAt(requests, r)) = Len(requests) - 1
  BY RemoveAtIs DEF TypeInv, RequestTypes
<1>. QED
  BY <1>1, RequestIs, SchedulesAssumption DEF TypeInv, RequestTypes

LEMMA RequestChanged ==
  ASSUME TypeInv, NEW r \in DOMAIN requests, NEW q \in ProperRequest,
         requests' = [requests EXCEPT ![r] = q]
  PROVE  RequestTypes'
BY DEF TypeInv, RequestTypes

(* A request that goes on.                                                   *)
LEMMA RequestGoesOn ==
  ASSUME NEW q \in ProperRequest, q.stage # "done", NEW s \in Ids
  PROVE  /\ q.id = s => [q EXCEPT !.stage = "synced"] \in ProperRequest \/ q.stage # "ready"
         /\ q.kind = "create" => [q EXCEPT !.stage = "ready", !.id = s] \in ProperRequest
         /\ \A b \in Row \cup {None} :
              (q.kind # "create" /\ (q.kind = "update" => b \in Row))
                => [q EXCEPT !.stage = "ready", !.base = b] \in ProperRequest
<1>1. s \in 0 .. MaxId
  BY SchedulesAssumption DEF Ids
<1>2. q \in Request
  BY DEF ProperRequest
<1>3. ASSUME q.stage = "ready"
      PROVE  [q EXCEPT !.stage = "synced"] \in ProperRequest
  <2>. DEFINE p == [q EXCEPT !.stage = "synced"]
  <2>1. p \in Request /\ p.stage = "synced" /\ p.kind = q.kind /\ p.id = q.id /\ p.new = q.new /\ p.base = q.base
    BY <1>2 DEF Request
  <2>. QED
    BY <1>3, <2>1 DEF ProperRequest
<1>4. ASSUME q.kind = "create"
      PROVE  [q EXCEPT !.stage = "ready", !.id = s] \in ProperRequest
  <2>. DEFINE p == [q EXCEPT !.stage = "ready", !.id = s]
  <2>1. p \in Request /\ p.stage = "ready" /\ p.kind = q.kind /\ p.id = s /\ p.new = q.new
    BY <1>1, <1>2 DEF Request
  <2>. QED
    BY <1>4, <2>1 DEF ProperRequest
<1>5. ASSUME NEW b \in Row \cup {None}, q.kind # "create", q.kind = "update" => b \in Row
      PROVE  [q EXCEPT !.stage = "ready", !.base = b] \in ProperRequest
  <2>. DEFINE p == [q EXCEPT !.stage = "ready", !.base = b]
  <2>1. p \in Request /\ p.stage = "ready" /\ p.kind = q.kind /\ p.id = q.id /\ p.new = q.new /\ p.base = b
    BY <1>2 DEF Request
  <2>. QED
    BY <1>5, <2>1 DEF ProperRequest
<1>. QED
  BY <1>3, <1>4, <1>5

LEMMA DoneType == Done \in ProperRequest
BY SchedulesAssumption DEF Done, ProperRequest, Request

LEMMA SyncedType ==
  ASSUME NEW r \in Row
  PROVE  Synced(r) \in Intervals \cup {None}
BY DEF Synced, Row

LEMMA MergedType ==
  ASSUME NEW q, q.new \in Row, q.base \in Row, NEW now \in Row
  PROVE  Merged(q, now) \in Row /\ (now = q.base => Merged(q, now) = q.new)
<1>1. Merged(q, now) \in Row
  BY DEF Merged, Row
<1>2. ASSUME now = q.base PROVE Merged(q, now) = q.new
  <2>1. Merged(q, now) = [enabled |-> q.new.enabled, interval |-> q.new.interval]
    BY <1>2 DEF Merged
  <2>2. q.new = [enabled |-> q.new.enabled, interval |-> q.new.interval]
    BY DEF Row
  <2>. QED
    BY <2>1, <2>2
<1>. QED
  BY <1>1, <1>2

LEMMA RacedChanged ==
  ASSUME TypeInv, NEW s, NEW b \in BOOLEAN, raced' = [raced EXCEPT ![s] = b]
  PROVE  RacedTypes'
BY Zenon DEF TypeInv, RacedTypes

-----------------------------------------------------------------------------
(* Types are kept.                                                           *)

LEMMA SendTypes ==
  ASSUME TypeInv, NEW kind \in {"create", "update", "delete"}, NEW s \in 0 .. MaxId,
         NEW new \in Row \cup {None}, kind # "delete" => new \in Row,
         kind # "create" => s \in Ids, Send(kind, s, new)
  PROVE  TypeInv'
<1>. DEFINE q == [stage |-> "sent", kind |-> kind, id |-> s, new |-> new, base |-> None]
<1>1. q \in ProperRequest
  BY DEF ProperRequest, Request
<1>2. RequestTypes'
  <2>1. requests' = Append(requests, q) /\ Len(requests) < MaxRequests
    BY DEF Send
  <2>. HIDE DEF q
  <2>2. Append(requests, q) \in Seq(ProperRequest) /\ Len(Append(requests, q)) = Len(requests) + 1
    BY <1>1, AppendProperties DEF TypeInv, RequestTypes
  <2>. QED
    BY <2>1, <2>2, SchedulesAssumption DEF TypeInv, RequestTypes
<1>3. RacedTypes'
  BY Zenon DEF Send, TypeInv, RacedTypes
<1>4. crossed' \in BOOLEAN
  BY Zenon DEF Send, TypeInv
<1>. QED
  BY <1>2, <1>3, <1>4 DEF Send, TypeInv, LoadTypes, database, panel, page

LEMMA HandlerTypes ==
  ASSUME TypeInv, NEW r \in DOMAIN requests, Handle(r)
  PROVE  TypeInv'
<1>. DEFINE q == requests[r]
<1>0. /\ q \in ProperRequest /\ q \in Request
      /\ q.stage # "done" /\ q.kind # "delete" => q.new \in Row
      /\ q.stage # "done" /\ q.kind # "create" => q.id \in Ids
      /\ q.stage \in {"ready", "synced"} => q.id \in Ids
      /\ q.stage \in {"ready", "synced"} /\ q.kind = "update" => q.base \in Row
      /\ q.kind \in {"create", "update", "delete"}
  BY RequestIs DEF ProperRequest, Request
<1>. USE DEF database, panel, page
<1>1. CASE Flush(r)
  <2>1. CASE app /\ NextId \in Ids
    <3>1. [q EXCEPT !.stage = "ready", !.id = NextId] \in ProperRequest
      BY <1>0, <1>1, <2>1, RequestGoesOn DEF Flush
    <3>2. requests' = [requests EXCEPT ![r] = [q EXCEPT !.stage = "ready", !.id = NextId]]
      BY <1>1, <2>1 DEF Flush
    <3>3. raced' = [raced EXCEPT ![NextId] = On(NextId) # {}]
      BY <1>1, <2>1 DEF Flush
    <3>4. RequestTypes' /\ RacedTypes'
      BY <3>1, <3>2, <3>3, RequestChanged, RacedChanged
    <3>. QED
      BY <1>1, <3>4 DEF Flush, TypeInv, LoadTypes
  <2>2. CASE ~(app /\ NextId \in Ids)
    BY <1>1, <2>2, RequestRemoved DEF Flush, Refused, TypeInv, LoadTypes, RacedTypes
  <2>. QED
    BY <2>1, <2>2
<1>2. CASE Get(r)
  <2>1. CASE row[q.id] = None
    BY <1>2, <2>1, RequestRemoved DEF Get, Refused, TypeInv, LoadTypes, RacedTypes
  <2>2. CASE row[q.id] # None
    <3>. DEFINE b == IF q.kind = "update" THEN row[q.id] ELSE None
    <3>1. row[q.id] \in Row
      BY <1>0, <1>2, <2>2 DEF Get, TypeInv, Rows
    <3>2. [q EXCEPT !.stage = "ready", !.base = b] \in ProperRequest
      BY <1>0, <1>2, <3>1, RequestGoesOn DEF Get
    <3>3. requests' = [requests EXCEPT ![r] = [q EXCEPT !.stage = "ready", !.base = b]]
      BY <1>2, <2>2 DEF Get
    <3>4. raced' = [raced EXCEPT ![q.id] = raced[q.id] /\ On(q.id) # {r}]
      BY <1>2, <2>2 DEF Get
    <3>5. RequestTypes' /\ RacedTypes'
      BY <3>2, <3>3, <3>4, RequestChanged, RacedChanged
    <3>. QED
      BY <1>2, <3>5 DEF Get, TypeInv, LoadTypes
  <2>. QED
    BY <2>1, <2>2
<1>3. CASE Sync(r)
  <2>1. [q EXCEPT !.stage = "synced"] \in ProperRequest
    BY <1>0, <1>3, RequestGoesOn DEF Sync
  <2>2. RequestTypes'
    BY <1>3, <2>1, RequestChanged DEF Sync
  <2>3. (IF q.kind = "delete" THEN None ELSE Synced(q.new)) \in Intervals \cup {None}
    BY <1>0, <1>3, SyncedType DEF Sync
  <2>4. job' \in [Ids -> Intervals \cup {None}]
    BY <1>3, <2>3 DEF Sync, TypeInv
  <2>. QED
    BY <1>3, <2>2, <2>4 DEF Sync, TypeInv, LoadTypes, RacedTypes
<1>4. CASE Commit(r)
  <2>1. RequestTypes'
    BY <1>4, DoneType, RequestChanged DEF Commit
  <2>. DEFINE n == CASE q.kind = "create" -> q.new
                     [] q.kind = "delete" -> None
                     [] OTHER -> Merged(q, row[q.id])
  <2>2. n \in Row \cup {None}
    <3>1. CASE q.kind = "update"
      <4>1. row[q.id] \in Row
        BY <1>0, <1>4, <3>1 DEF Commit, TypeInv, Rows
      <4>2. Merged(q, row[q.id]) \in Row
        BY <1>0, <1>4, <3>1, <4>1, MergedType DEF Commit
      <4>. QED
        BY <3>1, <4>2
    <3>2. CASE q.kind # "update"
      BY <1>0, <1>4, <3>2 DEF Commit
    <3>. QED
      BY <3>1, <3>2
  <2>3. row' = [row EXCEPT ![q.id] = n]
    BY <1>4 DEF Commit
  <2>. HIDE DEF n
  <2>4. row' \in Rows
    BY <2>2, <2>3 DEF TypeInv, Rows
  <2>. QED
    BY <1>4, <2>1, <2>4 DEF Commit, TypeInv, LoadTypes, RacedTypes
<1>5. CASE CommitFails(r)
  <2>1. RequestTypes' /\ RacedTypes'
    BY <1>5, RequestRemoved, RacedChanged DEF CommitFails
  <2>. QED
    BY <1>5, <2>1 DEF CommitFails, TypeInv, LoadTypes
<1>6. CASE Show(r)
  <2>1. RequestTypes'
    BY <1>6, RequestRemoved DEF Show
  <2>2. LoadTypes'
    BY <1>6, SchedulesAssumption DEF Show, Ask, TypeInv, LoadTypes
  <2>3. crossed' \in BOOLEAN
    BY <1>6, Zenon DEF Show
  <2>. QED
    BY <1>6, <2>1, <2>2, <2>3 DEF Show, TypeInv, RacedTypes
<1>. QED
  BY <1>1, <1>2, <1>3, <1>4, <1>5, <1>6 DEF Handle

LEMMA PageTypes ==
  ASSUME TypeInv, NEW i \in DOMAIN loads, Answer(i) \/ Deliver(i)
  PROVE  TypeInv'
<1>1. loads[i] \in Rows \cup {None}
  BY DEF TypeInv, LoadTypes
<1>2. CASE Answer(i)
  <2>1. LoadTypes'
    BY <1>2 DEF Answer, TypeInv, LoadTypes
  <2>. QED
    BY <1>2, <2>1 DEF Answer, TypeInv, RequestTypes, RacedTypes, database, panel
<1>3. CASE Deliver(i)
  <2>1. /\ RemoveAt(loads, i) \in Seq(Rows \cup {None})
        /\ Len(RemoveAt(loads, i)) = Len(loads) - 1 /\ Len(loads) \in Nat
    BY RemoveAtIs DEF TypeInv, LoadTypes
  <2>2. LoadTypes'
    BY <1>3, <2>1, SchedulesAssumption DEF Deliver, TypeInv, LoadTypes
  <2>. QED
    BY <1>1, <1>3, <2>2 DEF Deliver, TypeInv, RequestTypes, RacedTypes, database, panel
<1>. QED
  BY <1>2, <1>3

LEMMA ShownRow ==
  ASSUME TypeInv, NEW s \in Ids, list[s] # None
  PROVE  s \in 0 .. MaxId /\ list[s] \in Row /\ [list[s] EXCEPT !.enabled = ~@] \in Row
<1>1. list[s] \in Row
  BY DEF TypeInv, Rows
<1>2. [list[s] EXCEPT !.enabled = ~@] \in Row
  BY <1>1 DEF Row
<1>. QED
  BY <1>1, <1>2, SchedulesAssumption DEF Ids

LEMMA InitTypes == Init => TypeInv
<1>. SUFFICES ASSUME Init PROVE TypeInv
  OBVIOUS
<1>1. up \in BOOLEAN /\ app \in BOOLEAN /\ crossed \in BOOLEAN /\ RacedTypes
  BY Zenon DEF Init, RacedTypes
<1>2. RequestTypes /\ LoadTypes /\ crashes \in 0 .. MaxCrashes
  BY SchedulesAssumption DEF Init, RequestTypes, LoadTypes
<1>3. /\ row \in Rows /\ list \in Rows
      /\ job \in [Ids -> Intervals \cup {None}] /\ run \in [Ids -> {"none", "backup"}]
  BY DEF Init, Rows
<1>. QED
  BY <1>1, <1>2, <1>3 DEF TypeInv

LEMMA StepTypes == TypeInv /\ [Next]_vars => TypeInv'
<1>. SUFFICES ASSUME TypeInv, [Next]_vars PROVE TypeInv'
  OBVIOUS
<1>. USE DEF database, panel, page
<1>1. CASE UNCHANGED vars
  BY <1>1 DEF vars, TypeInv, RequestTypes, LoadTypes, RacedTypes
<1>2. CASE Crash
  <2>1. up' \in BOOLEAN /\ crossed' \in BOOLEAN
    BY <1>2, Zenon DEF Crash
  <2>2. RequestTypes' /\ LoadTypes' /\ crashes' \in 0 .. MaxCrashes
    BY <1>2, SchedulesAssumption DEF Crash, TypeInv, RequestTypes, LoadTypes
  <2>3. job' \in [Ids -> Intervals \cup {None}] /\ run' \in [Ids -> {"none", "backup"}]
    BY <1>2 DEF Crash
  <2>. QED
    BY <1>2, <2>1, <2>2, <2>3 DEF Crash, TypeInv, RacedTypes
<1>3. CASE Restart
  <2>1. up' \in BOOLEAN /\ RacedTypes'
    BY <1>3, Zenon DEF Restart, RacedTypes
  <2>2. StartScheduler \in [Ids -> Intervals \cup {None}]
    BY SyncedType DEF StartScheduler, TypeInv, Rows
  <2>. QED
    BY <1>3, <2>1, <2>2 DEF Restart, TypeInv, RequestTypes, LoadTypes
<1>4. CASE DeleteApp
  <2>1. app' \in BOOLEAN
    BY <1>4, Zenon DEF DeleteApp
  <2>. QED
    BY <1>4, <2>1 DEF DeleteApp, TypeInv, RequestTypes, LoadTypes, RacedTypes
<1>5. CASE Refresh
  <2>1. LoadTypes'
    BY <1>5, SchedulesAssumption DEF Refresh, Ask, TypeInv, LoadTypes
  <2>2. crossed' \in BOOLEAN
    BY <1>5, Zenon DEF Refresh
  <2>. QED
    BY <1>5, <2>1, <2>2 DEF Refresh, Ask, TypeInv, RequestTypes, RacedTypes
<1>6. ASSUME NEW s \in Ids, RunSchedule(s) \/ EndRun(s) PROVE TypeInv'
  BY <1>6 DEF RunSchedule, EndRun, TypeInv, RequestTypes, LoadTypes, RacedTypes
<1>7. ASSUME NEW s \in Ids, ToggleSchedule(s) \/ RemoveSchedule(s) PROVE TypeInv'
  BY <1>7, ShownRow, SendTypes DEF ToggleSchedule, RemoveSchedule
<1>8. ASSUME NEW interval \in Intervals,
             SubmitNew(interval) \/ \E s \in Ids : SubmitEdited(s, interval)
      PROVE  TypeInv'
  <2>1. \A enabled \in BOOLEAN : [enabled |-> enabled, interval |-> interval] \in Row
    BY Zenon DEF Row
  <2>2. 0 \in 0 .. MaxId
    BY SchedulesAssumption
  <2>3. CASE SubmitNew(interval)
    <3>1. [enabled |-> TRUE, interval |-> interval] \in Row
      BY <2>1
    <3>. QED
      BY <2>2, <2>3, <3>1, SendTypes DEF SubmitNew
  <2>4. ASSUME NEW s \in Ids, SubmitEdited(s, interval) PROVE TypeInv'
    <3>1. PICK enabled \in BOOLEAN : Send("update", s, [enabled |-> enabled, interval |-> interval])
      BY <2>4 DEF SubmitEdited
    <3>. QED
      BY <2>1, <2>4, <3>1, ShownRow, SendTypes DEF SubmitEdited
  <2>. QED
    BY <1>8, <2>3, <2>4
<1>9. ASSUME NEW r \in DOMAIN requests, Handle(r) PROVE TypeInv'
  BY <1>9, HandlerTypes
<1>10. ASSUME NEW i \in DOMAIN loads, Answer(i) \/ Deliver(i) PROVE TypeInv'
  BY <1>10, PageTypes
<1>. QED
  BY <1>1, <1>2, <1>3, <1>4, <1>5, <1>6, <1>7, <1>8, <1>9, <1>10 DEF Next

LEMMA TypesHold == Spec => []TypeInv
<1>. QED
  BY InitTypes, StepTypes, PTL DEF Spec

(* The table, the jobs, the requests and the page keep their types.          *)
THEOREM TypeCorrect == Spec => []TypeOK
<1>. QED
  BY TypesHold, TypeInvImplies, PTL

-----------------------------------------------------------------------------
(* The jobs.  Of a schedule whose requests have not met at most one is under *)
(* way; it finds the job of the row, has read the row that is still there,   *)
(* and has made the job of what it will commit.                              *)

Target(now) == IF now = None THEN None ELSE Synced(now)
After(q) == IF q.kind = "delete" THEN None ELSE Synced(q.new)

Alone(s) ==
  \A r, t \in DOMAIN requests : (requests[r].id = s /\ requests[t].id = s) => r = t

InStep(q, j, now) ==
  /\ q.stage = "sent" => j = Target(now)
  /\ q.stage \in {"ready", "synced"} /\ q.kind = "update" => q.base = now
  /\ q.stage = "synced" => j = After(q)

Settled(s) ==
  /\ Alone(s)
  /\ (\A r \in DOMAIN requests : requests[r].id # s) => job[s] = Target(row[s])
  /\ \A r \in DOMAIN requests : requests[r].id = s => InStep(requests[r], job[s], row[s])

JobsInv ==
  /\ up => \A s \in Ids : ~raced[s] => Settled(s)
  /\ ~up => requests = <<>>

(* One request of a schedule leaves, or changes for another schedule.        *)
LEMMA RemovedSettled ==
  ASSUME TypeInv, NEW r \in DOMAIN requests, requests' = RemoveAt(requests, r),
         UNCHANGED <<job, row>>, NEW s \in Ids, Settled(s),
         requests[r].id = s => job[s] = Target(row[s])
  PROVE  Settled(s)'
<1>. DEFINE new == RemoveAt(requests, r)
<1>1. /\ \A j \in DOMAIN new :
           /\ j < r => j \in DOMAIN requests /\ new[j] = requests[j]
           /\ j >= r => j + 1 \in DOMAIN requests /\ new[j] = requests[j + 1]
      /\ \A k \in DOMAIN requests :
           /\ k < r => k \in DOMAIN new /\ new[k] = requests[k]
           /\ k > r => k - 1 \in DOMAIN new /\ new[k - 1] = requests[k]
      /\ DOMAIN new \subseteq Nat /\ DOMAIN requests \subseteq Nat
  BY RemoveAtIs DEF TypeInv, RequestTypes
<1>2. requests' = new
  OBVIOUS
<1>. HIDE DEF new
<1>3. Alone(s)'
  BY <1>1, <1>2 DEF Settled, Alone
<1>4. (\A j \in DOMAIN new : new[j].id # s) => job[s] = Target(row[s])
  <2>1. SUFFICES ASSUME \A j \in DOMAIN new : new[j].id # s, requests[r].id # s
                 PROVE  job[s] = Target(row[s])
    OBVIOUS
  <2>2. \A k \in DOMAIN requests : requests[k].id # s
    BY <1>1, <2>1
  <2>. QED
    BY <2>2 DEF Settled
<1>5. \A j \in DOMAIN new : new[j].id = s => InStep(new[j], job[s], row[s])
  BY <1>1 DEF Settled
<1>. QED
  BY <1>2, <1>3, <1>4, <1>5 DEF Settled, Target, InStep, After

LEMMA ChangedSettled ==
  ASSUME TypeInv, NEW r \in DOMAIN requests, NEW q, requests' = [requests EXCEPT ![r] = q],
         NEW s \in Ids, Settled(s), requests[r].id # s, q.id # s,
         row'[s] = row[s], job'[s] = job[s]
  PROVE  Settled(s)'
<1>1. /\ DOMAIN requests' = DOMAIN requests /\ requests'[r] = q
      /\ \A k \in DOMAIN requests : k # r => requests'[k] = requests[k]
  BY DEF TypeInv, RequestTypes
<1>2. Alone(s)'
  BY <1>1 DEF Settled, Alone
<1>3. ((\A k \in DOMAIN requests : requests[k].id # s) => job[s] = Target(row[s]))'
  BY <1>1 DEF Settled, Target
<1>4. (\A k \in DOMAIN requests : requests[k].id = s => InStep(requests[k], job[s], row[s]))'
  BY <1>1 DEF Settled, InStep, Target
<1>. QED
  BY <1>2, <1>3, <1>4 DEF Settled

(* The only request of a schedule changes.                                   *)
LEMMA OwnSettled ==
  ASSUME TypeInv, NEW r \in DOMAIN requests, NEW q, requests' = [requests EXCEPT ![r] = q],
         NEW s \in Ids, \A k \in DOMAIN requests : k # r => requests[k].id # s,
         q.id = s => InStep(q, job'[s], row'[s]), q.id # s => job'[s] = Target(row'[s])
  PROVE  Settled(s)'
<1>1. /\ DOMAIN requests' = DOMAIN requests /\ requests'[r] = q
      /\ \A k \in DOMAIN requests : k # r => requests'[k] = requests[k]
  BY DEF TypeInv, RequestTypes
<1>2. Alone(s)'
  BY <1>1 DEF Alone
<1>3. ((\A k \in DOMAIN requests : requests[k].id # s) => job[s] = Target(row[s]))'
  BY <1>1
<1>4. (\A k \in DOMAIN requests : requests[k].id = s => InStep(requests[k], job[s], row[s]))'
  BY <1>1
<1>. QED
  BY <1>2, <1>3, <1>4 DEF Settled

LEMMA SendJobs ==
  ASSUME TypeInv, JobsInv, NEW kind, NEW s, NEW new, Send(kind, s, new)
  PROVE  JobsInv'
<1>. DEFINE q == [stage |-> "sent", kind |-> kind, id |-> s, new |-> new, base |-> None]
<1>1. /\ up /\ up' /\ row' = row /\ job' = job
      /\ requests' = Append(requests, q)
      /\ raced' = [t \in Ids |-> raced[t] \/ (t = s /\ On(s) # {})]
  BY DEF Send, panel, database
<1>2. /\ DOMAIN requests' = 1 .. Len(requests) + 1 /\ DOMAIN requests = 1 .. Len(requests)
      /\ Len(requests) \in Nat
      /\ requests'[Len(requests) + 1] = q
      /\ \A k \in DOMAIN requests : requests'[k] = requests[k]
  BY <1>1 DEF TypeInv, RequestTypes
<1>3. q.id = s /\ q.stage = "sent"
  OBVIOUS
<1>. HIDE DEF q
<1>4. ASSUME NEW t \in Ids, ~raced'[t] PROVE Settled(t)'
  <2>1. Settled(t)
    BY <1>1, <1>4 DEF JobsInv
  <2>2. t = s => \A k \in DOMAIN requests : requests[k].id # t
    BY <1>1, <1>4 DEF On
  <2>3. Alone(t)'
    BY <1>2, <1>3, <2>1, <2>2 DEF Settled, Alone
  <2>4. ((\A k \in DOMAIN requests : requests[k].id # t) => job[t] = Target(row[t]))'
    BY <1>1, <1>2, <2>1 DEF Settled, Target
  <2>5. ASSUME NEW k \in DOMAIN requests', requests'[k].id = t PROVE InStep(requests[k], job[t], row[t])'
    <3>1. CASE k \in DOMAIN requests
      <4>1. InStep(requests[k], job[t], row[t])
        BY <1>2, <2>1, <2>5, <3>1 DEF Settled
      <4>. QED
        BY <1>1, <1>2, <3>1, <4>1 DEF InStep, Target, After
    <3>2. CASE k = Len(requests) + 1
      <4>1. t = s /\ requests'[k] = q
        BY <1>2, <1>3, <2>5, <3>2
      <4>2. job[s] = Target(row[s])
        BY <2>1, <2>2, <4>1 DEF Settled
      <4>. QED
        BY <1>1, <1>3, <4>1, <4>2 DEF InStep, Target
    <3>. QED
      BY <1>2, <3>1, <3>2
  <2>. QED
    BY <2>3, <2>4, <2>5 DEF Settled
<1>. QED
  BY <1>1, <1>4 DEF JobsInv

LEMMA HandlerJobs ==
  ASSUME TypeInv, JobsInv, NEW r \in DOMAIN requests, Handle(r)
  PROVE  JobsInv'
<1>. DEFINE q == requests[r]
<1>0. /\ q \in Request
      /\ q.stage # "done" /\ q.kind # "delete" => q.new \in Row
      /\ q.stage \in {"ready", "synced"} => q.id \in Ids
      /\ q.stage \in {"ready", "synced"} /\ q.kind = "update" => q.base \in Row
      /\ q.stage = "done" => q.id = 0
      /\ q.kind \in {"create", "update", "delete"}
      /\ \A t \in Ids : t # 0
  BY RequestIs DEF ProperRequest, Request, Ids
<1>1. up /\ up' = up /\ \A t \in Ids : ~raced[t] => Settled(t)
  <2>1. requests # <<>>
    OBVIOUS
  <2>. QED
    BY <2>1 DEF JobsInv, TypeInv, Handle, Flush, Get, Sync, Commit, CommitFails, Show, Ask, panel
<1>2. SUFFICES ASSUME NEW t \in Ids, ~raced'[t] PROVE Settled(t)'
  BY <1>1 DEF JobsInv
<1>. HIDE DEF q
<1>3. requests[r] = q
  BY DEF q
<1>4. CASE Flush(r)
  <2>1. q.stage = "sent" /\ q.kind = "create" /\ row' = row /\ job' = job
    BY <1>3, <1>4 DEF Flush, database
  <2>2. CASE app /\ NextId \in Ids
    <3>. DEFINE p == [q EXCEPT !.stage = "ready", !.id = NextId]
    <3>1. requests' = [requests EXCEPT ![r] = p] /\ raced' = [raced EXCEPT ![NextId] = On(NextId) # {}]
      BY <1>3, <1>4, <2>2 DEF Flush
    <3>2. p.stage = "ready" /\ p.id = NextId /\ p.kind = "create"
      BY <1>0, <2>1 DEF Request
    <3>. HIDE DEF p
    <3>3. CASE t = NextId
      <4>1. \A k \in DOMAIN requests : requests[k].id # t
        BY <1>2, <3>1, <3>3 DEF TypeInv, RacedTypes, On
      <4>2. InStep(p, job'[t], row'[t])
        BY <3>2 DEF InStep
      <4>. QED
        BY <3>1, <3>2, <3>3, <4>1, <4>2, OwnSettled
    <3>4. CASE t # NextId
      <4>1. Settled(t)
        BY <1>1, <1>2, <3>1, <3>4 DEF TypeInv, RacedTypes
      <4>2. CASE q.id # t
        BY <1>3, <2>1, <3>1, <3>2, <3>4, <4>1, <4>2, ChangedSettled
      <4>3. CASE q.id = t
        <5>1. \A k \in DOMAIN requests : k # r => requests[k].id # t
          BY <1>3, <4>1, <4>3 DEF Settled, Alone
        <5>2. job'[t] = Target(row'[t])
          BY <1>3, <2>1, <4>1, <4>3 DEF Settled, InStep, Target
        <5>. QED
          BY <3>1, <3>2, <3>4, <5>1, <5>2, OwnSettled
      <4>. QED
        BY <4>2, <4>3
    <3>. QED
      BY <3>3, <3>4
  <2>3. CASE ~(app /\ NextId \in Ids)
    <3>1. requests' = RemoveAt(requests, r) /\ raced' = raced
      BY <1>4, <2>3 DEF Flush, Refused
    <3>2. Settled(t) /\ (requests[r].id = t => job[t] = Target(row[t]))
      BY <1>1, <1>2, <1>3, <2>1, <3>1 DEF Settled, InStep
    <3>. QED
      BY <2>1, <3>1, <3>2, RemovedSettled
  <2>. QED
    BY <2>2, <2>3
<1>5. CASE Get(r)
  <2>1. q.stage = "sent" /\ q.kind # "create" /\ row' = row /\ job' = job
    BY <1>3, <1>5 DEF Get, database
  <2>2. CASE row[q.id] = None
    <3>1. requests' = RemoveAt(requests, r) /\ raced' = raced
      BY <1>3, <1>5, <2>2 DEF Get, Refused
    <3>2. Settled(t) /\ (requests[r].id = t => job[t] = Target(row[t]))
      BY <1>1, <1>2, <1>3, <2>1, <3>1 DEF Settled, InStep
    <3>. QED
      BY <2>1, <3>1, <3>2, RemovedSettled
  <2>3. CASE row[q.id] # None
    <3>. DEFINE b == IF q.kind = "update" THEN row[q.id] ELSE None
                p == [q EXCEPT !.stage = "ready", !.base = b]
    <3>1. /\ requests' = [requests EXCEPT ![r] = p]
          /\ raced' = [raced EXCEPT ![q.id] = raced[q.id] /\ On(q.id) # {r}]
      BY <1>3, <1>5, <2>3 DEF Get
    <3>2. p.stage = "ready" /\ p.id = q.id /\ p.kind = q.kind /\ p.base = b
      BY <1>0 DEF Request
    <3>3. q.kind = "update" => p.base = row[q.id]
      BY <3>2
    <3>. HIDE DEF p
    <3>4. CASE t = q.id
      <4>1. ~(raced[t] /\ On(t) # {r})
        BY <1>2, <3>1, <3>4 DEF TypeInv, RacedTypes
      <4>2. \A k \in DOMAIN requests : k # r => requests[k].id # t
        <5>1. CASE On(t) = {r}
          BY <5>1 DEF On
        <5>2. CASE ~raced[t]
          BY <1>1, <1>3, <3>4, <5>2 DEF Settled, Alone
        <5>. QED
          BY <4>1, <5>1, <5>2
      <4>3. InStep(p, job'[t], row'[t])
        BY <2>1, <3>2, <3>3, <3>4 DEF InStep
      <4>. QED
        BY <3>1, <3>2, <3>4, <4>2, <4>3, OwnSettled
    <3>5. CASE t # q.id
      <4>1. Settled(t)
        BY <1>1, <1>2, <3>1, <3>5 DEF TypeInv, RacedTypes
      <4>. QED
        BY <1>3, <2>1, <3>1, <3>2, <3>5, <4>1, ChangedSettled
    <3>. QED
      BY <3>4, <3>5
  <2>. QED
    BY <2>2, <2>3
<1>6. CASE Sync(r)
  <2>. DEFINE p == [q EXCEPT !.stage = "synced"]
  <2>1. /\ q.stage = "ready" /\ row' = row /\ raced' = raced
        /\ requests' = [requests EXCEPT ![r] = p]
        /\ job' = [job EXCEPT ![q.id] = After(q)]
    BY <1>3, <1>6 DEF Sync, database, After
  <2>2. /\ p.stage = "synced" /\ p.id = q.id /\ p.kind = q.kind /\ p.base = q.base /\ p.new = q.new
    BY <1>0 DEF Request
  <2>. HIDE DEF p
  <2>3. Settled(t)
    BY <1>1, <1>2, <2>1
  <2>4. CASE t = q.id
    <3>1. \A k \in DOMAIN requests : k # r => requests[k].id # t
      BY <1>3, <2>3, <2>4 DEF Settled, Alone
    <3>2. job'[t] = After(q) /\ After(p) = After(q)
      BY <2>1, <2>2, <2>4 DEF TypeInv, After
    <3>3. InStep(q, job[t], row[t])
      BY <1>3, <2>3, <2>4 DEF Settled
    <3>4. InStep(p, job'[t], row'[t])
      BY <2>1, <2>2, <2>4, <3>2, <3>3 DEF InStep, After
    <3>. QED
      BY <2>1, <2>2, <2>4, <3>1, <3>4, OwnSettled
  <2>5. CASE t # q.id
    BY <1>3, <2>1, <2>2, <2>3, <2>5, ChangedSettled DEF TypeInv
  <2>. QED
    BY <2>4, <2>5
<1>7. CASE Commit(r)
  <2>. DEFINE n == CASE q.kind = "create" -> q.new
                     [] q.kind = "delete" -> None
                     [] OTHER -> Merged(q, row[q.id])
  <2>1. /\ q.stage = "synced" /\ job' = job /\ raced' = raced
        /\ requests' = [requests EXCEPT ![r] = Done]
        /\ row' = [row EXCEPT ![q.id] = n]
    BY <1>3, <1>7 DEF Commit
  <2>2. Settled(t) /\ Done.id = 0
    BY <1>1, <1>2, <2>1 DEF Done
  <2>3. CASE t = q.id
    <3>1. \A k \in DOMAIN requests : k # r => requests[k].id # t
      BY <1>3, <2>2, <2>3 DEF Settled, Alone
    <3>2. InStep(q, job[t], row[t])
      BY <1>3, <2>2, <2>3 DEF Settled
    <3>3. n = IF q.kind = "delete" THEN None ELSE q.new
      <4>1. CASE q.kind = "update"
        <5>1. q.base = row[q.id] /\ q.base \in Row /\ q.new \in Row
          BY <1>0, <2>1, <2>3, <3>2, <4>1 DEF InStep
        <5>2. Merged(q, row[q.id]) = q.new
          BY <5>1, MergedType
        <5>. QED
          BY <4>1, <5>2
      <4>2. CASE q.kind # "update"
        BY <1>0, <4>2
      <4>. QED
        BY <4>1, <4>2
    <3>. HIDE DEF n
    <3>4. q.kind # "delete" => q.new \in Row /\ q.new # None
      BY <1>0, <2>1, SchedulesAssumption DEF Row
    <3>5. row'[t] = n /\ job'[t] = After(q)
      BY <2>1, <2>3, <3>2 DEF InStep, TypeInv, Rows
    <3>6. job'[t] = Target(row'[t])
      BY <3>3, <3>4, <3>5 DEF Target, After
    <3>. QED
      BY <1>0, <2>1, <2>2, <3>1, <3>6, OwnSettled
  <2>4. CASE t # q.id
    <3>. HIDE DEF n
    <3>1. row'[t] = row[t]
      BY <2>1, <2>4 DEF TypeInv, Rows
    <3>. QED
      BY <1>0, <1>3, <2>1, <2>2, <2>4, <3>1, ChangedSettled
  <2>. QED
    BY <2>3, <2>4
<1>8. CASE CommitFails(r)
  <2>1. /\ q.stage = "synced" /\ row' = row /\ job' = job
        /\ requests' = RemoveAt(requests, r) /\ raced' = [raced EXCEPT ![q.id] = TRUE]
    BY <1>3, <1>8 DEF CommitFails, database
  <2>2. t # q.id /\ ~raced[t]
    BY <1>0, <1>2, <2>1 DEF TypeInv, RacedTypes
  <2>. QED
    BY <1>1, <1>3, <2>1, <2>2, RemovedSettled
<1>9. CASE Show(r)
  <2>1. /\ q.stage = "done" /\ row' = row /\ job' = job /\ raced' = raced
        /\ requests' = RemoveAt(requests, r)
    BY <1>3, <1>9 DEF Show, database
  <2>. QED
    BY <1>0, <1>1, <1>2, <1>3, <2>1, RemovedSettled
<1>. QED
  BY <1>4, <1>5, <1>6, <1>7, <1>8, <1>9 DEF Handle

LEMMA InitJobs == Init => JobsInv
BY DEF Init, JobsInv, Settled, Alone, Target

LEMMA StepJobs == TypeInv /\ JobsInv /\ [Next]_vars => JobsInv'
<1>. SUFFICES ASSUME TypeInv, JobsInv, [Next]_vars PROVE JobsInv'
  OBVIOUS
<1>1. CASE UNCHANGED <<row, job, requests, raced, up>>
  BY <1>1 DEF JobsInv, Settled, Alone, InStep, Target, After
<1>2. CASE Crash
  BY <1>2 DEF Crash, JobsInv
<1>3. CASE Restart
  <2>1. up' /\ requests' = <<>> /\ row' = row /\ job' = StartScheduler
    BY <1>3 DEF Restart, JobsInv, database
  <2>2. \A t \in Ids : Settled(t)'
    BY <2>1 DEF Settled, Alone, Target, StartScheduler
  <2>. QED
    BY <2>1, <2>2 DEF JobsInv
<1>4. ASSUME NEW s \in Ids, ToggleSchedule(s) \/ RemoveSchedule(s) PROVE JobsInv'
  BY <1>4, SendJobs DEF ToggleSchedule, RemoveSchedule
<1>5. ASSUME NEW interval \in Intervals,
             SubmitNew(interval) \/ \E s \in Ids : SubmitEdited(s, interval)
      PROVE  JobsInv'
  BY <1>5, SendJobs DEF SubmitNew, SubmitEdited
<1>6. ASSUME NEW r \in DOMAIN requests, Handle(r) PROVE JobsInv'
  BY <1>6, HandlerJobs
<1>. QED
  BY <1>1, <1>2, <1>3, <1>4, <1>5, <1>6
  DEF Next, vars, database, panel, page, DeleteApp, Refresh, RunSchedule, EndRun, Answer, Deliver

(* For any number of schedules and requests, at any time at which nothing is *)
(* under way for a schedule its job is what its row says.                    *)
THEOREM JobsAreRows == Spec => []JobsFollowRows
<1>1. JobsInv => JobsFollowRows
  BY DEF JobsInv, JobsFollowRows, Settled, On, Target, Synced
<1>. QED
  BY <1>1, InitJobs, StepJobs, TypesHold, PTL DEF Spec
-----------------------------------------------------------------------------
(* The page.  While nothing has met anything else there is at most one       *)
(* request or one listing in flight; the page shows the rows unless a        *)
(* request has changed them or a listing is on its way, and a listing that   *)
(* was answered is of the rows as they are.                                  *)

ListInv ==
  ~crossed =>
    /\ requests = <<>> \/ loads = <<>>
    /\ Len(requests) <= 1 /\ Len(loads) <= 1
    /\ loads = <<>> /\ (requests # <<>> => requests[1].stage # "done") => list = row
    /\ loads # <<>> /\ loads[1] # None => loads[1] = row

LEMMA InitList == Init => ListInv
BY DEF Init, ListInv

LEMMA SendList ==
  ASSUME TypeInv, ListInv, NEW kind, NEW s, NEW new, Send(kind, s, new)
  PROVE  ListInv'
<1>. DEFINE q == [stage |-> "sent", kind |-> kind, id |-> s, new |-> new, base |-> None]
<1>1. /\ requests' = Append(requests, q) /\ UNCHANGED <<row, list, loads>>
      /\ ~crossed' => ~crossed /\ requests = <<>> /\ loads = <<>>
  BY Zenon DEF Send, page, database
<1>2. q.stage = "sent"
  OBVIOUS
<1>. HIDE DEF q
<1>3. requests = <<>> => Len(requests') = 1 /\ requests'[1] = q
  BY <1>1
<1>. QED
  BY <1>1, <1>2, <1>3 DEF ListInv

(* The only one of a sequence goes.                                          *)
LEMMA OnlyOneGoes ==
  ASSUME NEW S, NEW s \in Seq(S), NEW i \in DOMAIN s, Len(s) <= 1
  PROVE  i = 1 /\ RemoveAt(s, i) = <<>>
<1>1. i \in 1 .. Len(s) /\ Len(s) \in Nat
  OBVIOUS
<1>2. RemoveAt(s, i) \in Seq(S) /\ Len(RemoveAt(s, i)) = 0
  BY <1>1, RemoveAtIs
<1>. QED
  BY <1>1, <1>2, EmptySeq

LEMMA HandlerList ==
  ASSUME TypeInv, ListInv, NEW r \in DOMAIN requests, Handle(r)
  PROVE  ListInv'
<1>. DEFINE q == requests[r]
<1>0. requests # <<>> /\ q \in Request /\ q.kind \in {"create", "update", "delete"}
  BY RequestIs DEF Request
<1>1. ASSUME ~crossed
      PROVE  /\ r = 1 /\ Len(requests) = 1 /\ loads = <<>>
             /\ RemoveAt(requests, r) = <<>>
             /\ q.stage # "done" => list = row
  <2>1. Len(requests) <= 1 /\ loads = <<>>
    BY <1>0, <1>1 DEF ListInv
  <2>2. r = 1 /\ RemoveAt(requests, r) = <<>>
    BY <2>1, OnlyOneGoes DEF TypeInv, RequestTypes
  <2>. HIDE DEF q
  <2>3. Len(requests) = 1
    <3>1. r \in 1 .. Len(requests) /\ Len(requests) \in Nat
      BY RequestIs
    <3>2. \A n \in Nat : n <= 1 /\ r \in 1 .. n => n = 1
      BY <2>2
    <3>. QED
      BY <2>1, <3>1, <3>2, Zenon
  <2>4. q.stage # "done" => list = row
    BY <1>1, <2>1, <2>2 DEF ListInv, q
  <2>. QED
    BY <2>1, <2>2, <2>3, <2>4
<1>2. ASSUME NEW p, requests' = [requests EXCEPT ![r] = p],
             UNCHANGED <<list, loads, crossed>>,
             p.stage # "done" => q.stage # "done" /\ row' = row
      PROVE  ListInv'
  <2>1. ~crossed => Len(requests') = 1 /\ requests'[1] = p /\ requests' # <<>>
    <3>1. requests \in [1 .. Len(requests) -> ProperRequest] /\ Len(requests) \in Nat
      BY LenProperties DEF TypeInv, RequestTypes
    <3>2. requests' \in [1 .. Len(requests) -> ProperRequest \cup {p}]
      BY <1>2, <3>1
    <3>3. requests' \in Seq(ProperRequest \cup {p}) /\ Len(requests') = Len(requests)
      BY <3>1, <3>2, LenProperties
    <3>4. ~crossed => requests'[1] = p
      BY <1>1, <1>2, <3>1
    <3>. QED
      BY <1>1, <3>3, <3>4, EmptySeq
  <2>. QED
    BY <1>1, <1>2, <2>1 DEF ListInv
<1>3. ASSUME requests' = RemoveAt(requests, r), q.stage # "done",
             UNCHANGED <<row, list, loads, crossed>>
      PROVE  ListInv'
  BY <1>1, <1>3, EmptySeq DEF ListInv
<1>. HIDE DEF q
<1>4. CASE Flush(r)
  <2>1. CASE app /\ NextId \in Ids
    <3>1. requests' = [requests EXCEPT ![r] = [q EXCEPT !.stage = "ready", !.id = NextId]]
      BY <1>4, <2>1 DEF Flush, q
    <3>2. [q EXCEPT !.stage = "ready", !.id = NextId].stage = "ready" /\ q.stage = "sent"
      BY <1>0, <1>4 DEF Flush, q, Request
    <3>. QED
      BY <1>2, <1>4, <3>1, <3>2 DEF Flush, database, page
  <2>2. CASE ~(app /\ NextId \in Ids)
    BY <1>3, <1>4, <2>2 DEF Flush, Refused, database, page, q
  <2>. QED
    BY <2>1, <2>2
<1>5. CASE Get(r)
  <2>1. CASE row[q.id] = None
    BY <1>3, <1>5, <2>1 DEF Get, Refused, database, page, q
  <2>2. CASE row[q.id] # None
    <3>. DEFINE b == IF q.kind = "update" THEN row[q.id] ELSE None
    <3>1. requests' = [requests EXCEPT ![r] = [q EXCEPT !.stage = "ready", !.base = b]]
      BY <1>5, <2>2 DEF Get, q
    <3>2. [q EXCEPT !.stage = "ready", !.base = b].stage = "ready" /\ q.stage = "sent"
      BY <1>0, <1>5 DEF Get, q, Request
    <3>. QED
      BY <1>2, <1>5, <3>1, <3>2 DEF Get, database, page
  <2>. QED
    BY <2>1, <2>2
<1>6. CASE Sync(r)
  <2>1. requests' = [requests EXCEPT ![r] = [q EXCEPT !.stage = "synced"]]
    BY <1>6 DEF Sync, q
  <2>2. [q EXCEPT !.stage = "synced"].stage = "synced" /\ q.stage = "ready"
    BY <1>0, <1>6 DEF Sync, q, Request
  <2>. QED
    BY <1>2, <1>6, <2>1, <2>2 DEF Sync, database, page
<1>7. CASE Commit(r)
  <2>1. requests' = [requests EXCEPT ![r] = Done] /\ Done.stage = "done"
    BY <1>7 DEF Commit, Done
  <2>. QED
    BY <1>2, <1>7, <2>1 DEF Commit, page
<1>8. CASE CommitFails(r)
  BY <1>3, <1>8 DEF CommitFails, database, page, q
<1>9. CASE Show(r)
  <2>1. /\ requests' = RemoveAt(requests, r) /\ loads' = Append(loads, None)
        /\ ~crossed' => loads = <<>> /\ ~(Len(requests) > 1)
    BY <1>9, Zenon DEF Show, Ask
  <2>2. ~crossed' => requests' = <<>>
    <3>1. ~(Len(requests) > 1) => Len(requests) <= 1
      BY RequestIs
    <3>. QED
      BY <2>1, <3>1, OnlyOneGoes DEF TypeInv, RequestTypes
  <2>3. loads = <<>> => loads' # <<>> /\ Len(loads') = 1 /\ loads'[1] = None
    BY <2>1
  <2>. QED
    BY <2>1, <2>2, <2>3, EmptySeq DEF ListInv
<1>. QED
  BY <1>4, <1>5, <1>6, <1>7, <1>8, <1>9 DEF Handle

LEMMA StepList == TypeInv /\ ListInv /\ [Next]_vars => ListInv'
<1>. SUFFICES ASSUME TypeInv, ListInv, [Next]_vars PROVE ListInv'
  OBVIOUS
<1>1. CASE UNCHANGED <<row, requests, list, loads, crossed>>
  BY <1>1 DEF ListInv
<1>2. CASE Crash
  BY <1>2 DEF Crash, ListInv
<1>3. CASE Refresh
  <2>1. /\ loads' = Append(loads, None) /\ requests' = requests
        /\ ~crossed' => loads = <<>> /\ requests = <<>>
    BY <1>3, Zenon DEF Refresh, Ask
  <2>2. loads = <<>> => loads' # <<>> /\ Len(loads') = 1 /\ loads'[1] = None
    BY <2>1
  <2>. QED
    BY <2>1, <2>2, EmptySeq DEF ListInv
<1>4. ASSUME NEW s \in Ids, ToggleSchedule(s) \/ RemoveSchedule(s) PROVE ListInv'
  BY <1>4, SendList DEF ToggleSchedule, RemoveSchedule
<1>5. ASSUME NEW interval \in Intervals,
             SubmitNew(interval) \/ \E s \in Ids : SubmitEdited(s, interval)
      PROVE  ListInv'
  BY <1>5, SendList DEF SubmitNew, SubmitEdited
<1>6. ASSUME NEW r \in DOMAIN requests, Handle(r) PROVE ListInv'
  BY <1>6, HandlerList
<1>7. ASSUME NEW i \in DOMAIN loads, Answer(i) PROVE ListInv'
  <2>1. /\ loads' = [loads EXCEPT ![i] = row]
        /\ UNCHANGED <<row, requests, list, crossed>>
    BY <1>7 DEF Answer, database
  <2>2. Len(loads') = Len(loads) /\ loads # <<>> /\ loads' # <<>>
    BY <2>1 DEF TypeInv, LoadTypes
  <2>3. Len(loads) <= 1 => loads'[1] = row
    BY <2>1, OnlyOneGoes DEF TypeInv, LoadTypes
  <2>. QED
    BY <2>1, <2>2, <2>3 DEF ListInv
<1>8. ASSUME NEW i \in DOMAIN loads, Deliver(i) PROVE ListInv'
  <2>1. /\ loads[i] # None /\ list' = loads[i] /\ loads' = RemoveAt(loads, i)
        /\ UNCHANGED <<row, requests, crossed>>
    BY <1>8 DEF Deliver, database
  <2>2. Len(loads) <= 1 => i = 1 /\ loads' = <<>>
    BY <2>1, OnlyOneGoes DEF TypeInv, LoadTypes
  <2>3. loads # <<>>
    OBVIOUS
  <2>. QED
    BY <2>1, <2>2, <2>3, EmptySeq DEF ListInv
<1>. QED
  BY <1>1, <1>2, <1>3, <1>4, <1>5, <1>6, <1>7, <1>8
  DEF Next, vars, database, panel, page, DeleteApp, Restart, RunSchedule, EndRun

(* When all is answered the page shows the rows as they are, for any number  *)
(* of schedules and requests, unless a request or a listing met another      *)
(* since it was last loaded: also after a request that was refused or whose  *)
(* commit failed, which the page does not load again for.                    *)
THEOREM ListIsRows == Spec => []ListFollows
<1>1. ListInv => ListFollows
  BY DEF ListInv, ListFollows
<1>. QED
  BY <1>1, InitList, StepList, TypesHold, PTL DEF Spec
=============================================================================
