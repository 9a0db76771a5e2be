---------------------------- MODULE UploadsProofs ----------------------------
(***************************************************************************)
(* Proofs about Uploads, for any apps and any number of requests in flight. *)
(***************************************************************************)
EXTENDS Uploads, TLAPS

-----------------------------------------------------------------------------
(* Types.                                                                    *)

Xhr == [stage : {"idle", "completed", "refused"} \cup Under, from : {"upload", "create"},
        app : AllApps, mine : BOOLEAN, heard : BOOLEAN]
Post == [stage : {"idle", "asked", "made", "refused"}, service : BOOLEAN,
         app : New \cup {None}, mine : BOOLEAN]

ScreenTypes ==
  /\ dialog \in {"closed", "upload", "create"}
  /\ progress \in {"none", "uploading", "processing", "completed", "failed"}
  /\ file \in BOOLEAN /\ error \in BOOLEAN /\ result \in BOOLEAN /\ busy \in BOOLEAN
  /\ stored \in BOOLEAN /\ unheard \in BOOLEAN
  /\ created \in New \cup {None}

TypeInv ==
  /\ ScreenTypes
  /\ posts \in [PostSlots -> Post]
  /\ xhrs \in [Slots -> Xhr]
  /\ apps \subseteq AllApps

LEMMA TypeInvImplies == TypeInv => TypeOK
BY Zenon DEF TypeInv, TypeOK, ScreenTypes, Post, Xhr

LEMMA NoTypes ==
  /\ NoXhr \in Xhr /\ NoXhr.stage = "idle" /\ ~NoXhr.mine /\ ~NoXhr.heard
  /\ NoPost \in Post /\ NoPost.stage = "idle" /\ ~NoPost.mine
BY DEF NoXhr, NoPost, Xhr, Post, AllApps

LEMMA ClosedTypes == Closed => ScreenTypes'
<1>. SUFFICES ASSUME Closed PROVE ScreenTypes'
  OBVIOUS
<1>1. /\ file' \in BOOLEAN /\ error' \in BOOLEAN /\ result' \in BOOLEAN /\ busy' \in BOOLEAN
      /\ stored' \in BOOLEAN /\ unheard' \in BOOLEAN
  BY Zenon DEF Closed
<1>. QED
  BY <1>1 DEF Closed, ScreenTypes

LEMMA OrphanTypes ==
  /\ \A slots \in [PostSlots -> Post] : OrphanPosts(slots) \in [PostSlots -> Post]
  /\ \A slots \in [Slots -> Xhr] : OrphanXhrs(slots) \in [Slots -> Xhr]
<1>1. ASSUME NEW slots \in [PostSlots -> Post], NEW i \in PostSlots
      PROVE  [slots[i] EXCEPT !.mine = FALSE] \in Post
  BY DEF Post
<1>2. ASSUME NEW slots \in [Slots -> Xhr], NEW i \in Slots
      PROVE  [slots[i] EXCEPT !.mine = FALSE, !.heard = @ /\ slots[i].from = "create"] \in Xhr
  <2>1. (slots[i].heard /\ slots[i].from = "create") \in BOOLEAN
    BY Zenon
  <2>. QED
    BY <2>1 DEF Xhr
<1>. QED
  BY <1>1, <1>2 DEF OrphanPosts, OrphanXhrs

LEMMA SendTypes ==
  ASSUME TypeInv, NEW from \in {"upload", "create"}, NEW app \in AllApps, Send(from, app)
  PROVE  xhrs' \in [Slots -> Xhr]
<1>1. [stage |-> "sending", from |-> from, app |-> app, mine |-> TRUE, heard |-> TRUE] \in Xhr
  BY DEF Xhr, Under
<1>. QED
  BY <1>1 DEF Send, TypeInv

(* An upload goes on.                                                        *)
LEMMA StageTypes ==
  ASSUME TypeInv, NEW i \in Slots
  PROVE  /\ \A s \in {"completed", "refused"} \cup Under :
              [xhrs EXCEPT ![i].stage = s] \in [Slots -> Xhr]
         /\ [xhrs EXCEPT ![i] = NoXhr] \in [Slots -> Xhr]
         /\ [xhrs EXCEPT ![i].heard = FALSE] \in [Slots -> Xhr]
<1>1. xhrs[i] \in Xhr
  BY DEF TypeInv
<1>2. \A s \in {"completed", "refused"} \cup Under : [xhrs[i] EXCEPT !.stage = s] \in Xhr
  BY <1>1 DEF Xhr
<1>3. [xhrs[i] EXCEPT !.heard = FALSE] \in Xhr
  BY <1>1 DEF Xhr
<1>. QED
  BY <1>1, <1>2, <1>3, NoTypes DEF TypeInv

LEMMA PostStageTypes ==
  ASSUME TypeInv, NEW i \in PostSlots
  PROVE  /\ \A app \in New : [posts EXCEPT ![i].stage = "made", ![i].app = app] \in [PostSlots -> Post]
         /\ [posts EXCEPT ![i].stage = "refused"] \in [PostSlots -> Post]
         /\ [posts EXCEPT ![i] = NoPost] \in [PostSlots -> Post]
<1>1. posts[i] \in Post
  BY DEF TypeInv
<1>2. \A app \in New : [posts[i] EXCEPT !.stage = "made", !.app = app] \in Post
  BY <1>1 DEF Post
<1>3. [posts[i] EXCEPT !.stage = "refused"] \in Post
  BY <1>1 DEF Post
<1>. QED
  BY <1>1, <1>2, <1>3, NoTypes DEF TypeInv

LEMMA GoToAppTypes ==
  ASSUME TypeInv, NEW ps \in [PostSlots -> Post], NEW xs \in [Slots -> Xhr], GoToApp(ps, xs)
  PROVE  ScreenTypes' /\ posts' \in [PostSlots -> Post] /\ xhrs' \in [Slots -> Xhr]
<1>1. CASE dialog = "create"
  BY <1>1, ClosedTypes, OrphanTypes DEF GoToApp
<1>2. CASE dialog # "create"
  BY <1>2 DEF GoToApp, TypeInv, ScreenTypes, screen
<1>. QED
  BY <1>1, <1>2

LEMMA ReportTypes ==
  ASSUME TypeInv, NEW x, NEW phase \in {"uploading", "processing", "completed"}, Report(x, phase)
  PROVE  progress' \in {"none", "uploading", "processing", "completed", "failed"}
BY DEF Report, TypeInv, ScreenTypes

LEMMA FailTypes ==
  ASSUME TypeInv, NEW x, Fail(x)
  PROVE  /\ progress' \in {"none", "uploading", "processing", "completed", "failed"}
         /\ error' \in BOOLEAN /\ busy' \in BOOLEAN
<1>1. error' \in BOOLEAN
  BY Zenon DEF Fail, ErrorShown, TypeInv, ScreenTypes
<1>2. busy' \in BOOLEAN
  BY Zenon DEF Fail, BusyEnded, TypeInv, ScreenTypes
<1>3. progress' \in {"none", "uploading", "processing", "completed", "failed"}
  BY DEF Fail, PhaseFailed, TypeInv, ScreenTypes
<1>. QED
  BY <1>1, <1>2, <1>3

LEMMA InitTypes == Init => TypeInv
<1>. SUFFICES ASSUME Init PROVE TypeInv
  OBVIOUS
<1>1. /\ file \in BOOLEAN /\ error \in BOOLEAN /\ result \in BOOLEAN /\ busy \in BOOLEAN
      /\ stored \in BOOLEAN /\ unheard \in BOOLEAN
  BY Zenon DEF Init
<1>. QED
  BY <1>1, NoTypes DEF Init, TypeInv, ScreenTypes, AllApps

-----------------------------------------------------------------------------
(* Types are kept.                                                           *)

LEMMA DialogTypes ==
  ASSUME TypeInv, \/ \E d \in {"upload", "create"} : Open(d)
                  \/ Close \/ Select \/ Start \/ Retry
                  \/ Create \/ SelectFirst \/ Finish \/ UploadLater
  PROVE  TypeInv'
<1>1. ASSUME NEW d \in {"upload", "create"}, Open(d) PROVE TypeInv'
  BY <1>1 DEF Open, TypeInv, ScreenTypes
<1>2. CASE Close \/ UploadLater
  BY <1>2, ClosedTypes, OrphanTypes DEF Close, UploadLater, TypeInv
<1>3. CASE Select
  <2>1. file' \in BOOLEAN /\ error' \in BOOLEAN
    BY <1>3, Zenon DEF Select, TypeInv, ScreenTypes
  <2>. QED
    BY <1>3, <2>1 DEF Select, TypeInv, ScreenTypes
<1>4. CASE Start
  <2>1. error' \in BOOLEAN
    BY <1>4, Zenon DEF Start
  <2>2. xhrs' \in [Slots -> Xhr]
    BY <1>4, SendTypes DEF Start, AllApps
  <2>. QED
    BY <1>4, <2>1, <2>2 DEF Start, TypeInv, ScreenTypes
<1>5. CASE Retry
  BY <1>5 DEF Retry, TypeInv, ScreenTypes
<1>6. CASE Create
  <2>1. busy' \in BOOLEAN
    BY <1>6, Zenon DEF Create
  <2>2. \A service \in BOOLEAN :
          [stage |-> "asked", service |-> service, app |-> None, mine |-> TRUE] \in Post
    BY DEF Post
  <2>3. posts' \in [PostSlots -> Post]
    BY <1>6, <2>2 DEF Create, TypeInv
  <2>. QED
    BY <1>6, <2>1, <2>3 DEF Create, TypeInv, ScreenTypes
<1>7. CASE SelectFirst
  BY <1>7 DEF SelectFirst, TypeInv, ScreenTypes
<1>8. CASE Finish
  <2>1. busy' \in BOOLEAN
    BY <1>8, Zenon DEF Finish
  <2>2. xhrs' \in [Slots -> Xhr]
    BY <1>8, SendTypes DEF Finish, TypeInv, ScreenTypes, AllApps
  <2>. QED
    BY <1>8, <2>1, <2>2 DEF Finish, TypeInv, ScreenTypes
<1>. QED
  BY <1>1, <1>2, <1>3, <1>4, <1>5, <1>6, <1>7, <1>8

LEMMA PostTypes ==
  ASSUME TypeInv, NEW i \in PostSlots, TakePost(i) \/ LosePost(i) \/ PostAnswered(i)
  PROVE  TypeInv'
<1>1. CASE TakePost(i) \/ LosePost(i)
  <2>1. posts' \in [PostSlots -> Post]
    <3>1. ASSUME NEW app \in New, posts' = [posts EXCEPT ![i].stage = "made", ![i].app = app]
          PROVE  posts' \in [PostSlots -> Post]
      BY <3>1, PostStageTypes
    <3>2. ASSUME posts' = [posts EXCEPT ![i].stage = "refused"]
          PROVE  posts' \in [PostSlots -> Post]
      BY <3>2, PostStageTypes
    <3>. QED
      BY <1>1, <3>1, <3>2, Zenon DEF TakePost, LosePost
  <2>2. apps' \subseteq AllApps
    BY <1>1 DEF TakePost, LosePost, TypeInv, AllApps
  <2>3. ScreenTypes' /\ xhrs' = xhrs
    BY <1>1 DEF TakePost, LosePost, TypeInv, ScreenTypes, screen
  <2>. QED
    BY <2>1, <2>2, <2>3 DEF TypeInv
<1>2. CASE PostAnswered(i) /\ posts[i].stage = "made" /\ posts[i].service
  BY <1>2, PostStageTypes, GoToAppTypes DEF PostAnswered, TypeInv
<1>3. CASE PostAnswered(i) /\ ~(posts[i].stage = "made" /\ posts[i].service)
  <2>1. busy' \in BOOLEAN
    BY <1>3, Zenon DEF PostAnswered, TypeInv, ScreenTypes
  <2>2. created' \in New \cup {None}
    <3>1. posts[i].app \in New \cup {None}
      BY DEF TypeInv, Post
    <3>. QED
      BY <1>3, <3>1 DEF PostAnswered, TypeInv, ScreenTypes
  <2>. QED
    BY <1>3, <2>1, <2>2, PostStageTypes DEF PostAnswered, TypeInv, ScreenTypes
<1>. QED
  BY <1>1, <1>2, <1>3

LEMMA XhrTypes ==
  ASSUME TypeInv, NEW i \in Slots, XhrStep(i) \/ Progress(i) \/ Break(i)
  PROVE  TypeInv'
<1>. USE DEF screen
<1>1. CASE Progress(i)
  BY <1>1, ReportTypes DEF Progress, TypeInv, ScreenTypes
<1>2. CASE Sent(i)
  <2>1. xhrs' \in [Slots -> Xhr]
    BY <1>2, StageTypes DEF Sent, Under
  <2>. QED
    BY <1>2, <2>1, ReportTypes DEF Sent, TypeInv, ScreenTypes
<1>3. CASE Take(i)
  <2>1. xhrs' \in [Slots -> Xhr]
    <3>1. PICK s \in {"processing", "refused"} : xhrs' = [xhrs EXCEPT ![i].stage = s]
      BY <1>3 DEF Take
    <3>. QED
      BY <3>1, StageTypes DEF Under
  <2>. QED
    BY <1>3, <2>1 DEF Take, TypeInv, ScreenTypes
<1>4. CASE Store(i)
  <2>1. stored' \in BOOLEAN
    BY <1>4, Zenon DEF Store, TypeInv, ScreenTypes
  <2>2. xhrs' \in [Slots -> Xhr]
    <3>1. ASSUME NEW s \in {"completed", "refused"}, xhrs' = [xhrs EXCEPT ![i].stage = s]
          PROVE  xhrs' \in [Slots -> Xhr]
      BY <3>1, StageTypes
    <3>. QED
      BY <1>4, <3>1 DEF Store
  <2>. QED
    BY <1>4, <2>1, <2>2 DEF Store, TypeInv, ScreenTypes
<1>5. CASE Forgotten(i)
  BY <1>5, StageTypes DEF Forgotten, TypeInv, ScreenTypes
<1>6. CASE Success(i) /\ xhrs[i].from = "create"
  BY <1>6, StageTypes, GoToAppTypes DEF Success, TypeInv
<1>7. CASE Success(i) /\ xhrs[i].from # "create"
  <2>1. result' \in BOOLEAN
    BY <1>7, Zenon DEF Success
  <2>. QED
    BY <1>7, <2>1, StageTypes, ReportTypes DEF Success, TypeInv, ScreenTypes
<1>8. CASE Failure(i)
  BY <1>8, StageTypes, FailTypes DEF Failure, TypeInv, ScreenTypes
<1>9. CASE Break(i)
  <2>1. unheard' \in BOOLEAN
    BY <1>9, Zenon DEF Break
  <2>. QED
    BY <1>9, <2>1, StageTypes, FailTypes DEF Break, TypeInv, ScreenTypes
<1>. QED
  BY <1>1, <1>2, <1>3, <1>4, <1>5, <1>6, <1>7, <1>8, <1>9 DEF XhrStep

LEMMA StepTypes == TypeInv /\ [Next]_vars => TypeInv'
<1>1. TypeInv /\ UNCHANGED vars => TypeInv'
  BY DEF vars, screen, TypeInv, ScreenTypes
<1>. QED
  BY <1>1, DialogTypes, PostTypes, XhrTypes DEF Next

LEMMA TypesHold == Spec => []TypeInv
<1>. QED
  BY InitTypes, StepTypes, PTL DEF Spec

(* The dialogs, the requests and the server keep their types.                *)
THEOREM TypeCorrect == Spec => []TypeOK
<1>. QED
  BY TypesHold, TypeInvImplies, PTL

-----------------------------------------------------------------------------
(* What the dialogs show.                                                    *)

(* A request belongs to the open dialog only while that dialog's life lasts, *)
(* and nothing is left on the screen of a dialog that is closed.             *)
Owned ==
  /\ \A i \in Slots : xhrs[i].mine => xhrs[i].from = dialog /\ xhrs[i].stage # "idle"
  /\ \A i \in PostSlots : posts[i].mine => dialog = "create" /\ posts[i].stage # "idle"
  /\ dialog = "closed" => progress = "none" /\ ~result /\ ~stored /\ ~unheard
  /\ dialog # "create" => ~busy

(* An answer of the upload dialog's is missed only when it was lost.         *)
Heard ==
  \A i \in Slots : xhrs[i].mine =>
    /\ xhrs[i].stage = "sending" => xhrs[i].heard
    /\ xhrs[i].from = "upload" /\ ~xhrs[i].heard => unheard

(* A result comes from what the server has stored, and what it has stored     *)
(* comes as a result.                                                        *)
Stored ==
  /\ \A i \in Slots : Own(xhrs[i]) /\ xhrs[i].stage = "completed" => stored
  /\ result => stored
  /\ stored /\ ~unheard =>
       (result \/ \E i \in Slots : Own(xhrs[i]) /\ xhrs[i].heard /\ xhrs[i].stage = "completed")

DialogInv == Owned /\ Heard /\ Stored /\ UploadingIsReal /\ BusyExplained

LEMMA InitDialog == Init => DialogInv
BY NoTypes DEF Init, DialogInv, Owned, Heard, Stored, UploadingIsReal, BusyExplained, Own

(* A dialog closes.                                                          *)
LEMMA ClosedDialog ==
  ASSUME TypeInv, Closed,
         NEW ps \in [PostSlots -> Post], NEW xs \in [Slots -> Xhr],
         posts' = OrphanPosts(ps), xhrs' = OrphanXhrs(xs)
  PROVE  DialogInv'
<1>1. /\ \A i \in Slots : ~xhrs'[i].mine
      /\ \A i \in PostSlots : ~posts'[i].mine
  <2>1. \A i \in Slots : [xs[i] EXCEPT !.mine = FALSE, !.heard = @ /\ xs[i].from = "create"].mine = FALSE
    BY DEF Xhr
  <2>2. \A i \in PostSlots : [ps[i] EXCEPT !.mine = FALSE].mine = FALSE
    BY DEF Post
  <2>. QED
    BY <2>1, <2>2 DEF OrphanPosts, OrphanXhrs
<1>. QED
  BY <1>1 DEF Closed, DialogInv, Owned, Heard, Stored, UploadingIsReal, BusyExplained, Own

(* A dialog sends.                                                           *)
LEMMA SendDialog ==
  ASSUME TypeInv, DialogInv, NEW app, Send(dialog, app),
         UNCHANGED <<dialog, progress, result, posts, stored, unheard>>,
         dialog = "create" \/ (dialog = "upload" /\ busy' = busy)
  PROVE  DialogInv'
<1>. DEFINE x == [stage |-> "sending", from |-> dialog, app |-> app, mine |-> TRUE, heard |-> TRUE]
<1>1. PICK i \in Slots : xhrs[i].stage = "idle" /\ xhrs' = [xhrs EXCEPT ![i] = x]
  BY DEF Send
<1>2. x.mine /\ x.heard /\ x.stage = "sending" /\ x.from = dialog
  OBVIOUS
<1>. HIDE DEF x
<1>3. xhrs'[i] = x /\ ~xhrs[i].mine /\ \A j \in Slots : j # i => xhrs'[j] = xhrs[j]
  BY <1>1 DEF TypeInv, DialogInv, Owned
<1>4. Owned'
  BY <1>2, <1>3 DEF DialogInv, Owned
<1>5. Heard'
  BY <1>2, <1>3 DEF DialogInv, Heard
<1>6. Stored'
  BY <1>2, <1>3 DEF DialogInv, Stored, Own
<1>7. UploadingIsReal' /\ BusyExplained'
  BY <1>2, <1>3 DEF UploadingIsReal, BusyExplained, Waiting
<1>. QED
  BY <1>4, <1>5, <1>6, <1>7 DEF DialogInv

LEMMA DialogDialog ==
  ASSUME TypeInv, DialogInv,
         \/ \E d \in {"upload", "create"} : Open(d)
         \/ Close \/ Select \/ Start \/ Retry
         \/ Create \/ SelectFirst \/ Finish \/ UploadLater
  PROVE  DialogInv'
<1>1. ASSUME NEW d \in {"upload", "create"}, Open(d) PROVE DialogInv'
  <2>1. \A i \in Slots : ~xhrs[i].mine
    BY <1>1 DEF Open, DialogInv, Owned, TypeInv, Xhr
  <2>2. \A i \in PostSlots : ~posts[i].mine
    BY <1>1 DEF Open, DialogInv, Owned
  <2>3. /\ dialog' \in {"upload", "create"} /\ ~result /\ ~stored /\ ~busy /\ progress = "none"
        /\ UNCHANGED <<progress, result, busy, posts, xhrs, stored, unheard>>
    BY <1>1 DEF Open, DialogInv, Owned
  <2>. QED
    BY <2>1, <2>2, <2>3 DEF DialogInv, Owned, Heard, Stored, UploadingIsReal, BusyExplained, Own
<1>2. CASE Close \/ UploadLater
  BY <1>2, ClosedDialog DEF Close, UploadLater, TypeInv
<1>3. CASE Select \/ SelectFirst
  BY <1>3 DEF Select, SelectFirst, DialogInv, Owned, Heard, Stored, UploadingIsReal, BusyExplained,
     Waiting, Own
<1>4. CASE Start
  <2>1. Send(dialog, Existing) /\ dialog = "upload"
    BY <1>4 DEF Start
  <2>. QED
    BY <1>4, <2>1, SendDialog DEF Start
<1>5. CASE Retry
  BY <1>5 DEF Retry, DialogInv, Owned, Heard, Stored, UploadingIsReal, BusyExplained, Waiting, Own
<1>6. CASE Create
  <2>1. PICK i \in PostSlots, service \in BOOLEAN :
          /\ posts[i].stage = "idle"
          /\ posts' = [posts EXCEPT ![i] = [stage |-> "asked", service |-> service,
                                            app |-> None, mine |-> TRUE]]
    BY <1>6 DEF Create
  <2>2. /\ posts'[i].mine /\ posts'[i].stage = "asked"
        /\ \A j \in PostSlots : j # i => posts'[j] = posts[j]
    BY <2>1 DEF TypeInv
  <2>. QED
    BY <1>6, <2>2 DEF Create, DialogInv, Owned, Heard, Stored, UploadingIsReal, BusyExplained,
       Waiting, Own
<1>7. CASE Finish
  <2>1. Send(dialog, created) /\ dialog = "create"
    BY <1>7 DEF Finish
  <2>. QED
    BY <1>7, <2>1, SendDialog DEF Finish
<1>. QED
  BY <1>1, <1>2, <1>3, <1>4, <1>5, <1>6, <1>7

LEMMA PostDialog ==
  ASSUME TypeInv, DialogInv, NEW i \in PostSlots, TakePost(i) \/ LosePost(i) \/ PostAnswered(i)
  PROVE  DialogInv'
<1>1. CASE TakePost(i) \/ LosePost(i)
  <2>1. posts[i] \in Post
    BY DEF TypeInv
  <2>2. PICK p \in Post : /\ posts' = [posts EXCEPT ![i] = p]
                          /\ p.mine = posts[i].mine /\ p.stage # "idle"
    <3>1. ASSUME NEW app \in New, posts' = [posts EXCEPT ![i].stage = "made", ![i].app = app]
          PROVE  \E p \in Post : /\ posts' = [posts EXCEPT ![i] = p]
                                 /\ p.mine = posts[i].mine /\ p.stage # "idle"
      <4>. DEFINE p == [posts[i] EXCEPT !.stage = "made", !.app = app]
      <4>1. p \in Post /\ p.mine = posts[i].mine /\ p.stage = "made"
        BY <2>1 DEF Post
      <4>2. posts' = [posts EXCEPT ![i] = p]
        BY <3>1 DEF TypeInv
      <4>. QED
        BY <4>1, <4>2
    <3>2. ASSUME posts' = [posts EXCEPT ![i].stage = "refused"]
          PROVE  \E p \in Post : /\ posts' = [posts EXCEPT ![i] = p]
                                 /\ p.mine = posts[i].mine /\ p.stage # "idle"
      <4>. DEFINE p == [posts[i] EXCEPT !.stage = "refused"]
      <4>1. p \in Post /\ p.mine = posts[i].mine /\ p.stage = "refused"
        BY <2>1 DEF Post
      <4>2. posts' = [posts EXCEPT ![i] = p]
        BY <3>2 DEF TypeInv
      <4>. QED
        BY <4>1, <4>2
    <3>. QED
      BY <1>1, <3>1, <3>2, Zenon DEF TakePost, LosePost
  <2>3. /\ posts'[i].mine = posts[i].mine /\ posts'[i].stage # "idle"
        /\ \A j \in PostSlots : j # i => posts'[j] = posts[j]
    BY <2>2 DEF TypeInv
  <2>4. UNCHANGED <<dialog, progress, result, busy, xhrs, stored, unheard>>
    BY <1>1 DEF TakePost, LosePost, screen
  <2>. QED
    BY <2>3, <2>4 DEF DialogInv, Owned, Heard, Stored, UploadingIsReal, BusyExplained, Waiting, Own
<1>2. CASE PostAnswered(i)
  <2>. DEFINE left == [posts EXCEPT ![i] = NoPost]
  <2>1. left \in [PostSlots -> Post] /\ ~left[i].mine /\ \A j \in PostSlots : j # i => left[j] = posts[j]
    BY PostStageTypes, NoTypes DEF TypeInv
  <2>. HIDE DEF left
  <2>2. CASE posts[i].stage = "made" /\ posts[i].service
    <3>1. GoToApp(left, xhrs)
      BY <1>2, <2>2 DEF PostAnswered, left
    <3>2. CASE dialog = "create"
      BY <2>1, <3>1, <3>2, ClosedDialog DEF GoToApp, TypeInv
    <3>3. CASE dialog # "create"
      <4>1. posts' = left /\ UNCHANGED <<dialog, progress, result, busy, xhrs, stored, unheard>>
        BY <3>1, <3>3 DEF GoToApp, screen
      <4>. QED
        BY <2>1, <3>3, <4>1 DEF DialogInv, Owned, Heard, Stored, UploadingIsReal, BusyExplained,
           Waiting, Own
    <3>. QED
      BY <3>2, <3>3
  <2>3. CASE ~(posts[i].stage = "made" /\ posts[i].service)
    <3>1. /\ posts' = left /\ UNCHANGED <<dialog, progress, result, xhrs, stored, unheard>>
          /\ busy' = IF posts[i].mine THEN FALSE ELSE busy
      BY <1>2, <2>3 DEF PostAnswered, left
    <3>2. Owned' /\ Heard' /\ Stored' /\ UploadingIsReal'
      BY <2>1, <3>1 DEF DialogInv, Owned, Heard, Stored, UploadingIsReal, Waiting, Own
    <3>3. BusyExplained'
      BY <2>1, <3>1 DEF DialogInv, BusyExplained, Waiting
    <3>. QED
      BY <3>2, <3>3 DEF DialogInv
  <2>. QED
    BY <2>2, <2>3
<1>. QED
  BY <1>1, <1>2

(* The answers of an upload.                                                 *)

(* An upload of a dialog that is gone.                                       *)
LEMMA OthersDialog ==
  ASSUME TypeInv, DialogInv, NEW i \in Slots, ~xhrs[i].mine, NEW x \in Xhr, ~x.mine,
         xhrs' = [xhrs EXCEPT ![i] = x],
         UNCHANGED <<dialog, progress, result, busy, posts, stored, unheard>>
  PROVE  DialogInv'
<1>1. xhrs'[i] = x /\ \A j \in Slots : j # i => xhrs'[j] = xhrs[j]
  BY DEF TypeInv
<1>. QED
  BY <1>1 DEF DialogInv, Owned, Heard, Stored, UploadingIsReal, BusyExplained, Waiting, Own

LEMMA ProgressDialog ==
  ASSUME TypeInv, DialogInv, NEW i \in Slots, Progress(i) \/ Sent(i)
  PROVE  DialogInv'
<1>1. xhrs[i] \in Xhr /\ xhrs[i].stage = "sending"
  BY DEF TypeInv, Progress, Sent
<1>2. /\ UNCHANGED <<dialog, result, busy, posts, stored, unheard>>
      /\ ~xhrs[i].mine => progress' = progress
      /\ \A j \in Slots : j # i => xhrs'[j] = xhrs[j]
      /\ xhrs'[i].mine = xhrs[i].mine /\ xhrs'[i].heard = xhrs[i].heard
      /\ xhrs'[i].from = xhrs[i].from /\ xhrs'[i].stage \in {"sending", "sent"}
  <2>1. CASE Progress(i)
    BY <1>1, <2>1 DEF Progress, Report
  <2>2. CASE Sent(i)
    BY <1>1, <2>2 DEF Sent, Report, TypeInv, Xhr
  <2>. QED
    BY <2>1, <2>2
<1>3. Owned' /\ Heard' /\ Stored'
  <2>1. dialog = "closed" => ~xhrs[i].mine
    BY DEF DialogInv, Owned, TypeInv, Xhr
  <2>2. Owned'
    BY <1>2, <2>1 DEF DialogInv, Owned
  <2>3. Heard'
    BY <1>1, <1>2 DEF DialogInv, Heard
  <2>4. Stored'
    BY <1>1, <1>2 DEF DialogInv, Stored, Own
  <2>. QED
    BY <2>1, <2>2, <2>3, <2>4, <1>1
<1>4. UploadingIsReal' /\ BusyExplained'
  BY <1>1, <1>2 DEF DialogInv, Heard, UploadingIsReal, BusyExplained, Waiting
<1>. QED
  BY <1>3, <1>4 DEF DialogInv

LEMMA ServerDialog ==
  ASSUME TypeInv, DialogInv, NEW i \in Slots, Take(i) \/ Store(i)
  PROVE  DialogInv'
<1>1. xhrs[i] \in Xhr /\ xhrs[i].stage \in {"sent", "processing"}
  BY DEF TypeInv, Take, Store
<1>2. /\ UNCHANGED <<dialog, progress, result, busy, posts, unheard>>
      /\ \A j \in Slots : j # i => xhrs'[j] = xhrs[j]
      /\ xhrs'[i].mine = xhrs[i].mine /\ xhrs'[i].heard = xhrs[i].heard
      /\ xhrs'[i].from = xhrs[i].from
      /\ xhrs'[i].stage \in {"processing", "completed", "refused"}
      /\ xhrs'[i].stage = "completed" /\ Own(xhrs[i]) => stored'
      /\ stored' # stored => xhrs'[i].stage = "completed" /\ Own(xhrs[i])
      /\ stored => stored'
  <2>1. CASE Take(i)
    BY <1>1, <2>1 DEF Take, screen, TypeInv, Xhr
  <2>2. CASE Store(i)
    <3>1. CASE xhrs' = [xhrs EXCEPT ![i].stage = "completed"] /\ stored' = (stored \/ Own(xhrs[i]))
      BY <1>1, <2>2, <3>1 DEF Store, screen, TypeInv, Xhr, ScreenTypes
    <3>2. CASE xhrs' = [xhrs EXCEPT ![i].stage = "refused"] /\ stored' = stored
      BY <1>1, <2>2, <3>2 DEF Store, screen, TypeInv, Xhr
    <3>. QED
      BY <2>2, <3>1, <3>2 DEF Store
  <2>. QED
    BY <2>1, <2>2
<1>3. Owned'
  BY <1>1, <1>2 DEF DialogInv, Owned, Own
<1>4. Heard'
  BY <1>1, <1>2 DEF DialogInv, Heard
<1>5. Stored'
  <2>1. \A j \in Slots : Own(xhrs'[j]) /\ xhrs'[j].stage = "completed" => stored'
    BY <1>2 DEF DialogInv, Stored, Own
  <2>2. result' => stored'
    BY <1>2 DEF DialogInv, Stored
  <2>3. ASSUME stored', ~unheard', ~result'
        PROVE  \E j \in Slots : Own(xhrs'[j]) /\ xhrs'[j].heard /\ xhrs'[j].stage = "completed"
    <3>1. CASE stored' # stored
      BY <1>1, <1>2, <2>3, <3>1 DEF DialogInv, Heard, Own
    <3>2. CASE stored' = stored
      <4>1. PICK j \in Slots : Own(xhrs[j]) /\ xhrs[j].heard /\ xhrs[j].stage = "completed"
        BY <1>2, <2>3, <3>2 DEF DialogInv, Stored
      <4>2. j # i
        BY <1>1, <4>1
      <4>. QED
        BY <1>2, <4>1, <4>2
    <3>. QED
      BY <3>1, <3>2
  <2>. QED
    BY <2>1, <2>2, <2>3 DEF Stored
<1>6. UploadingIsReal' /\ BusyExplained'
  BY <1>2 DEF DialogInv, UploadingIsReal, BusyExplained, Waiting
<1>. QED
  BY <1>3, <1>4, <1>5, <1>6 DEF DialogInv

LEMMA SuccessDialog ==
  ASSUME TypeInv, DialogInv, NEW i \in Slots, Success(i)
  PROVE  DialogInv'
<1>. DEFINE left == [xhrs EXCEPT ![i] = NoXhr]
<1>1. /\ left \in [Slots -> Xhr] /\ ~left[i].mine
      /\ \A j \in Slots : j # i => left[j] = xhrs[j]
  BY StageTypes, NoTypes DEF TypeInv
<1>2. xhrs[i] \in Xhr /\ xhrs[i].stage = "completed"
  BY DEF Success, Succeeds, TypeInv
<1>. HIDE DEF left
<1>3. CASE xhrs[i].from = "create"
  <2>1. GoToApp(posts, left)
    BY <1>3 DEF Success, left
  <2>2. CASE dialog = "create"
    BY <1>1, <2>1, <2>2, ClosedDialog DEF GoToApp, TypeInv
  <2>3. CASE dialog # "create"
    <3>1. ~xhrs[i].mine
      BY <1>3, <2>3 DEF DialogInv, Owned
    <3>2. xhrs' = left /\ UNCHANGED <<dialog, progress, result, busy, posts, stored, unheard>>
      BY <2>1, <2>3 DEF GoToApp, screen
    <3>. QED
      BY <3>1, <3>2, NoTypes, OthersDialog DEF left
  <2>. QED
    BY <2>2, <2>3
<1>4. CASE xhrs[i].from # "create"
  <2>1. /\ xhrs' = left /\ UNCHANGED <<dialog, busy, posts, stored, unheard>>
        /\ progress' = IF xhrs[i].mine THEN "completed" ELSE progress
        /\ result' = (result \/ xhrs[i].mine)
    BY <1>4 DEF Success, Report, left
  <2>2. CASE ~xhrs[i].mine
    <3>1. result' = result
      BY <2>1, <2>2 DEF TypeInv, ScreenTypes
    <3>. QED
      BY <2>1, <2>2, <3>1, NoTypes, OthersDialog DEF left
  <2>3. CASE xhrs[i].mine
    <3>1. Own(xhrs[i]) /\ dialog = "upload" /\ result' /\ stored
      BY <1>2, <1>4, <2>1, <2>3 DEF Own, Xhr, DialogInv, Owned, Stored
    <3>2. Owned'
      BY <1>1, <2>1, <3>1 DEF DialogInv, Owned
    <3>3. Heard'
      BY <1>1, <2>1 DEF DialogInv, Heard
    <3>4. Stored'
      BY <1>1, <2>1, <3>1 DEF DialogInv, Stored, Own
    <3>5. UploadingIsReal' /\ BusyExplained'
      BY <2>1, <3>1 DEF DialogInv, Owned, UploadingIsReal, BusyExplained
    <3>. QED
      BY <3>2, <3>3, <3>4, <3>5 DEF DialogInv
  <2>. QED
    BY <2>2, <2>3
<1>. QED
  BY <1>3, <1>4

(* The catch clauses of a dialog that is still open.                         *)
LEMMA CaughtDialog ==
  ASSUME TypeInv, DialogInv, NEW i \in Slots, xhrs[i].mine, Fail(xhrs[i]),
         NEW x \in Xhr, xhrs' = [xhrs EXCEPT ![i] = x],
         x.mine => /\ x.from = xhrs[i].from /\ x.stage \in {"sent", "processing"}
                   /\ (x.from = "upload" => unheard'),
         UNCHANGED <<dialog, result, posts, stored>>, unheard => unheard',
         xhrs[i].stage = "completed" /\ xhrs[i].from = "upload" => unheard',
         unheard' # unheard => Own(xhrs[i])
  PROVE  DialogInv'
<1>1. xhrs[i] \in Xhr /\ xhrs'[i] = x /\ \A j \in Slots : j # i => xhrs'[j] = xhrs[j]
  BY DEF TypeInv
<1>2. /\ dialog = xhrs[i].from
      /\ dialog = "upload" => progress' \in {"none", "failed"} /\ busy' = busy
      /\ dialog = "create" => busy' = FALSE
      /\ dialog \in {"upload", "create"}
  BY <1>1 DEF Fail, PhaseFailed, BusyEnded, DialogInv, Owned, Xhr
<1>3. Owned'
  BY <1>1, <1>2 DEF DialogInv, Owned
<1>4. Heard'
  BY <1>1 DEF DialogInv, Heard
<1>5. Stored'
  <2>1. \A j \in Slots : Own(xhrs'[j]) /\ xhrs'[j].stage = "completed" => stored'
    BY <1>1 DEF DialogInv, Stored, Own
  <2>2. result' => stored'
    BY DEF DialogInv, Stored
  <2>3. ASSUME stored', ~unheard', ~result'
        PROVE  \E j \in Slots : Own(xhrs'[j]) /\ xhrs'[j].heard /\ xhrs'[j].stage = "completed"
    <3>1. PICK j \in Slots : Own(xhrs[j]) /\ xhrs[j].heard /\ xhrs[j].stage = "completed"
      BY <2>3 DEF DialogInv, Stored
    <3>2. j # i
      BY <2>3, <3>1 DEF Own
    <3>. QED
      BY <1>1, <3>1, <3>2
  <2>. QED
    BY <2>1, <2>2, <2>3 DEF Stored
<1>6. UploadingIsReal' /\ BusyExplained'
  <2>1. UploadingIsReal'
    BY <1>2 DEF UploadingIsReal
  <2>2. BusyExplained'
    BY <1>2 DEF DialogInv, Owned, BusyExplained
  <2>. QED
    BY <2>1, <2>2
<1>. QED
  BY <1>3, <1>4, <1>5, <1>6 DEF DialogInv

LEMMA FailDialog ==
  ASSUME TypeInv, DialogInv, NEW i \in Slots, Failure(i) \/ Break(i)
  PROVE  DialogInv'
<1>1. xhrs[i] \in Xhr
  BY DEF TypeInv
<1>2. PICK x \in Xhr :
        /\ xhrs' = [xhrs EXCEPT ![i] = x]
        /\ x.mine => /\ xhrs[i].mine /\ x.from = xhrs[i].from
                     /\ x.stage \in {"sent", "processing"} /\ x.stage = xhrs[i].stage
                     /\ Break(i)
  <2>1. CASE xhrs' = [xhrs EXCEPT ![i] = NoXhr]
    BY <2>1, NoTypes
  <2>2. CASE Break(i) /\ xhrs' = [xhrs EXCEPT ![i].heard = FALSE] /\ xhrs[i].stage \in {"sent", "processing"}
    <3>. DEFINE y == [xhrs[i] EXCEPT !.heard = FALSE]
    <3>1. y \in Xhr /\ y.mine = xhrs[i].mine /\ y.from = xhrs[i].from /\ y.stage = xhrs[i].stage
      BY <1>1 DEF Xhr
    <3>2. xhrs' = [xhrs EXCEPT ![i] = y]
      BY <2>2 DEF TypeInv
    <3>. QED
      BY <2>2, <3>1, <3>2
  <2>. QED
    BY <2>1, <2>2 DEF Failure, Break
<1>3. /\ Fail(xhrs[i]) /\ UNCHANGED <<dialog, result, posts, stored>>
      /\ xhrs[i].heard
  BY DEF Failure, Break
<1>4. /\ unheard => unheard'
      /\ unheard' # unheard => Own(xhrs[i])
      /\ Failure(i) => xhrs[i].stage = "refused"
      /\ Break(i) /\ Own(xhrs[i]) /\ xhrs[i].stage # "sending" => unheard'
  BY DEF Failure, Break, TypeInv, ScreenTypes
<1>5. CASE ~xhrs[i].mine
  <2>1. UNCHANGED <<progress, busy, unheard>> /\ ~x.mine
    BY <1>2, <1>3, <1>4, <1>5 DEF Fail, Own
  <2>. QED
    BY <1>2, <1>3, <1>5, <2>1, OthersDialog
<1>6. CASE xhrs[i].mine
  <2>1. x.mine /\ x.from = "upload" => unheard'
    BY <1>2, <1>4, <1>6 DEF Own
  <2>2. xhrs[i].stage = "completed" /\ xhrs[i].from = "upload" => unheard'
    BY <1>4, <1>6 DEF Own
  <2>. QED
    BY <1>2, <1>3, <1>4, <1>6, <2>1, <2>2, CaughtDialog
<1>. QED
  BY <1>5, <1>6

LEMMA ForgottenDialog ==
  ASSUME TypeInv, DialogInv, NEW i \in Slots, Forgotten(i)
  PROVE  DialogInv'
<1>1. /\ xhrs[i].stage \in {"completed", "refused"} /\ ~xhrs[i].heard
      /\ xhrs' = [xhrs EXCEPT ![i] = NoXhr]
      /\ UNCHANGED <<dialog, progress, result, busy, posts, stored, unheard>>
  BY DEF Forgotten, screen
<1>2. ~xhrs'[i].mine /\ ~xhrs'[i].heard /\ \A j \in Slots : j # i => xhrs'[j] = xhrs[j]
  BY <1>1, NoTypes DEF TypeInv
<1>. QED
  BY <1>1, <1>2 DEF DialogInv, Owned, Heard, Stored, UploadingIsReal, BusyExplained, Waiting, Own

LEMMA StepDialog == TypeInv /\ DialogInv /\ [Next]_vars => DialogInv'
<1>1. TypeInv /\ DialogInv /\ UNCHANGED vars => DialogInv'
  BY DEF vars, screen, DialogInv, Owned, Heard, Stored, UploadingIsReal, BusyExplained, Waiting, Own
<1>. QED
  BY <1>1, DialogDialog, PostDialog, ProgressDialog, ServerDialog, SuccessDialog, FailDialog,
     ForgottenDialog DEF Next, XhrStep

LEMMA DialogHolds == Spec => []DialogInv
<1>. QED
  BY InitDialog, StepDialog, TypesHold, PTL DEF Spec

(* The upload dialog never claims to be sending when nothing it has sent is  *)
(* awaited, for any number of uploads started side by side.                  *)
THEOREM SendingIsReal == Spec => []UploadingIsReal
<1>1. DialogInv => UploadingIsReal
  BY DEF DialogInv
<1>. QED
  BY <1>1, DialogHolds, PTL

(* The create dialog's buttons never stay disabled with nothing under way.   *)
THEOREM ButtonsComeBack == Spec => []BusyExplained
<1>1. DialogInv => BusyExplained
  BY DEF DialogInv
<1>. QED
  BY <1>1, DialogHolds, PTL

(* When all is answered the dialog shows a result exactly when the server    *)
(* has stored an upload of it.                                               *)
THEOREM OutcomeIsTrue == Spec => []OutcomeTruthful
<1>1. TypeInv /\ DialogInv => OutcomeTruthful
  BY DEF TypeInv, ScreenTypes, DialogInv, Stored, OutcomeTruthful, Waiting, Own
<1>. QED
  BY <1>1, DialogHolds, TypesHold, PTL
=============================================================================
