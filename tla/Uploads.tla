------------------------------- MODULE Uploads -------------------------------
(***************************************************************************)
(* The two dialogs that send a source: UploadModal on the page of an app,   *)
(* and CreateAppModal, which makes an app first.  A dialog may be closed     *)
(* while its requests are under way; uploadSource() goes on and reports to   *)
(* a dialog that may be gone, and the server takes what it was sent whether  *)
(* or not anyone still waits for the answer.                                 *)
(***************************************************************************)
EXTENDS Integers, FiniteSets

CONSTANTS
  Existing,   \* the app whose page holds the upload dialog
  New,        \* the apps the create dialog may make
  None,
  MaxXhrs,    \* uploads in flight
  MaxPosts    \* requests for a new app in flight

ASSUME UploadsAssumption ==
  /\ Existing \notin New
  /\ None \notin New \cup {Existing}
  /\ MaxXhrs \in Nat \ {0}
  /\ MaxPosts \in Nat \ {0}

VARIABLES
  dialog,     \* the dialog that is open
  file,       \* whether a file is chosen
  progress,   \* the phase of its progress, or "none"
  error,      \* upload dialog: whether an error is shown
  result,     \* upload dialog: whether the result is shown
  created,    \* create dialog: the app it has made; its second step shows
  busy,       \* create dialog: its buttons are disabled
  posts,      \* slots of POST /api/apps
  xhrs,       \* slots of uploadSource()
  apps,       \* server: the apps there are
  stored,     \* history: the server has stored an upload of the upload dialog
  unheard     \* history: an answer to the upload dialog was lost

screen == <<dialog, file, progress, error, result, created, busy>>
vars == <<screen, posts, xhrs, apps, stored, unheard>>

AllApps == New \cup {Existing}
Slots == 1 .. MaxXhrs
PostSlots == 1 .. MaxPosts

(* mine: the dialog that sent it is still open.  heard: the answer counts.   *)
NoXhr == [stage |-> "idle", from |-> "upload", app |-> Existing, mine |-> FALSE,
          heard |-> FALSE]
NoPost == [stage |-> "idle", service |-> FALSE, app |-> None, mine |-> FALSE]
Under == {"sending", "sent", "processing"}

Init ==
  /\ dialog = "closed"
  /\ file = FALSE
  /\ progress = "none"
  /\ error = FALSE
  /\ result = FALSE
  /\ created = None
  /\ busy = FALSE
  /\ posts = [i \in PostSlots |-> NoPost]
  /\ xhrs = [i \in Slots |-> NoXhr]
  /\ apps = {Existing}
  /\ stored = FALSE
  /\ unheard = FALSE

Closed ==
  /\ dialog' = "closed"
  /\ file' = FALSE
  /\ progress' = "none"
  /\ error' = FALSE
  /\ result' = FALSE
  /\ created' = None
  /\ busy' = FALSE
  /\ stored' = FALSE
  /\ unheard' = FALSE

(* What is in flight for a dialog that closes goes on without it: of its     *)
(* answers only those that lead to onCreated() still do anything.            *)
OrphanPosts(slots) == [i \in PostSlots |-> [slots[i] EXCEPT !.mine = FALSE]]
OrphanXhrs(slots) ==
  [i \in Slots |-> [slots[i] EXCEPT !.mine = FALSE, !.heard = @ /\ slots[i].from = "create"]]

Open(d) ==
  /\ dialog = "closed"
  /\ dialog' = d
  /\ UNCHANGED <<file, progress, error, result, created, busy, posts, xhrs, apps, stored,
                 unheard>>

(* The cross, Escape, the space around it: whatever the dialog is doing.     *)
Close ==
  /\ dialog # "closed"
  /\ Closed
  /\ posts' = OrphanPosts(posts)
  /\ xhrs' = OrphanXhrs(xhrs)
  /\ UNCHANGED apps

-----------------------------------------------------------------------------
(* UploadModal.  The drop zone shows while there is no progress, so until    *)
(* the first event of an upload it can be started again.                     *)

DropZone == progress = "none" /\ ~result

(* A file that is no ZIP or too large is refused, and the one before stays.  *)
Select ==
  /\ dialog = "upload"
  /\ DropZone
  /\ \/ file' = FALSE /\ error' = FALSE
     \/ file' = TRUE /\ error' = FALSE
     \/ file' = file /\ error' = TRUE
  /\ UNCHANGED <<dialog, progress, result, created, busy, posts, xhrs, apps, stored, unheard>>

Send(from, app) ==
  \E i \in Slots :
    /\ xhrs[i].stage = "idle" /\ \A j \in 1 .. i - 1 : xhrs[j].stage # "idle"
    /\ xhrs' = [xhrs EXCEPT ![i] = [stage |-> "sending", from |-> from, app |-> app,
                                    mine |-> TRUE, heard |-> TRUE]]

Start ==
  /\ dialog = "upload"
  /\ file
  /\ DropZone
  /\ error' = FALSE
  /\ Send("upload", Existing)
  /\ UNCHANGED <<dialog, file, progress, result, created, busy, posts, apps, stored, unheard>>

Retry ==
  /\ dialog = "upload"
  /\ progress # "none" /\ ~result
  /\ error
  /\ progress' = "none"
  /\ UNCHANGED <<dialog, file, error, result, created, busy, posts, xhrs, apps, stored, unheard>>

-----------------------------------------------------------------------------
(* CreateAppModal.                                                           *)

Create ==
  /\ dialog = "create"
  /\ created = None
  /\ ~busy
  /\ busy' = TRUE
  /\ \E i \in PostSlots, service \in BOOLEAN :
       /\ posts[i].stage = "idle"
       /\ posts' = [posts EXCEPT ![i] = [stage |-> "asked", service |-> service,
                                         app |-> None, mine |-> TRUE]]
  /\ UNCHANGED <<dialog, file, progress, error, result, created, xhrs, apps, stored, unheard>>

(* The server makes the app, or refuses; or the request or its answer is     *)
(* lost.                                                                     *)
TakePost(i) ==
  /\ posts[i].stage = "asked"
  /\ \/ \E app \in New \ apps : /\ apps' = apps \cup {app}
                               /\ posts' = [posts EXCEPT ![i].stage = "made", ![i].app = app]
     \/ posts' = [posts EXCEPT ![i].stage = "refused"] /\ UNCHANGED apps
  /\ UNCHANGED <<screen, xhrs, stored, unheard>>

LosePost(i) ==
  /\ posts[i].stage = "made"
  /\ posts' = [posts EXCEPT ![i].stage = "refused"]
  /\ UNCHANGED <<screen, xhrs, apps, stored, unheard>>

(* onCreated(): the page closes the create dialog, be it this one or one     *)
(* opened since, and goes to the app.                                        *)
GoToApp(restPosts, restXhrs) ==
  IF dialog = "create"
  THEN /\ Closed
       /\ posts' = OrphanPosts(restPosts)
       /\ xhrs' = OrphanXhrs(restXhrs)
  ELSE /\ posts' = restPosts
       /\ xhrs' = restXhrs
       /\ UNCHANGED <<screen, stored, unheard>>

PostAnswered(i) ==
  /\ posts[i].stage \in {"made", "refused"}
  /\ LET p == posts[i]
         left == [posts EXCEPT ![i] = NoPost]
     IN IF p.stage = "made" /\ p.service
        THEN GoToApp(left, xhrs)
        ELSE /\ posts' = left
             /\ created' = IF p.mine /\ p.stage = "made" THEN p.app ELSE created
             /\ busy' = IF p.mine THEN FALSE ELSE busy
             /\ UNCHANGED <<dialog, file, progress, error, result, xhrs, stored, unheard>>
  /\ UNCHANGED apps

(* The second step: the drop zone, with no check of the file.                *)
SelectFirst ==
  /\ dialog = "create"
  /\ created # None
  /\ progress = "none"
  /\ file' \in BOOLEAN
  /\ UNCHANGED <<dialog, progress, error, result, created, busy, posts, xhrs, apps, stored,
                 unheard>>

Finish ==
  /\ dialog = "create"
  /\ created # None
  /\ file
  /\ ~busy
  /\ busy' = TRUE
  /\ Send("create", created)
  /\ UNCHANGED <<dialog, file, progress, error, result, created, posts, apps, stored, unheard>>

UploadLater ==
  /\ dialog = "create"
  /\ created # None
  /\ ~busy
  /\ Closed
  /\ posts' = OrphanPosts(posts)
  /\ xhrs' = OrphanXhrs(xhrs)
  /\ UNCHANGED apps

-----------------------------------------------------------------------------
(* uploadSource(): events of the request, then its answer.                   *)

Own(x) == x.mine /\ x.from = "upload"
Report(x, phase) == progress' = IF x.mine THEN phase ELSE progress

Progress(i) ==
  /\ xhrs[i].stage = "sending"
  /\ \E phase \in {"uploading", "processing"} : Report(xhrs[i], phase)
  /\ UNCHANGED <<dialog, file, error, result, created, busy, posts, xhrs, apps, stored, unheard>>

Sent(i) ==
  /\ xhrs[i].stage = "sending"
  /\ Report(xhrs[i], "processing")
  /\ xhrs' = [xhrs EXCEPT ![i].stage = "sent"]
  /\ UNCHANGED <<dialog, file, error, result, created, busy, posts, apps, stored, unheard>>

(* The server: one upload of an app is processed at a time; the rest of its  *)
(* checks and the extraction succeed or fail.                                *)
Take(i) ==
  /\ xhrs[i].stage = "sent"
  /\ \E stage \in {"processing", "refused"} :
       /\ stage = "processing" =>
            \A j \in Slots : xhrs[j].stage = "processing" => xhrs[j].app # xhrs[i].app
       /\ xhrs' = [xhrs EXCEPT ![i].stage = stage]
  /\ UNCHANGED <<screen, posts, apps, stored, unheard>>

Store(i) ==
  /\ xhrs[i].stage = "processing"
  /\ \/ xhrs' = [xhrs EXCEPT ![i].stage = "completed"] /\ stored' = (stored \/ Own(xhrs[i]))
     \/ xhrs' = [xhrs EXCEPT ![i].stage = "refused"] /\ UNCHANGED stored
  /\ UNCHANGED <<screen, posts, apps, unheard>>

(* Nobody waits any longer.                                                  *)
Forgotten(i) ==
  /\ xhrs[i].stage \in {"completed", "refused"}
  /\ ~xhrs[i].heard
  /\ xhrs' = [xhrs EXCEPT ![i] = NoXhr]
  /\ UNCHANGED <<screen, posts, apps, stored, unheard>>

(* Mutant: any answer is a success.                                          *)
Answers(x) == x.stage \in {"completed", "refused"}
(* A status from 200 to 299.                                                 *)
Succeeds(x) == x.stage = "completed"

Success(i) ==
  /\ xhrs[i].heard
  /\ Succeeds(xhrs[i])
  /\ LET x == xhrs[i]
         left == [xhrs EXCEPT ![i] = NoXhr]
     IN IF x.from = "create"
        THEN GoToApp(posts, left)
        ELSE /\ Report(x, "completed")
             /\ result' = (result \/ x.mine)
             /\ xhrs' = left
             /\ UNCHANGED <<dialog, file, error, created, busy, posts, stored, unheard>>
  /\ UNCHANGED apps

(* Mutants: the progress stays as it was, or gets a phase there is not; the  *)
(* error is not shown; the button stays disabled.                            *)
PhaseUnknown == "error"
PhaseKept == progress
ErrorKept(x) == error
BusyKept(x) == busy

(* The catch clauses: the upload dialog marks its progress as failed, if     *)
(* there is any; the create dialog leaves it as it was.                      *)
PhaseFailed == IF progress = "none" THEN "none" ELSE "failed"
ErrorShown(x) == x.from = "upload"
BusyEnded(x) == IF x.from = "create" THEN FALSE ELSE busy

Fail(x) ==
  IF x.mine
  THEN /\ progress' = IF x.from = "upload" THEN PhaseFailed ELSE progress
       /\ error' = ErrorShown(x)
       /\ busy' = BusyEnded(x)
  ELSE UNCHANGED <<progress, error, busy>>

Failure(i) ==
  /\ xhrs[i].heard
  /\ xhrs[i].stage = "refused"
  /\ Fail(xhrs[i])
  /\ xhrs' = [xhrs EXCEPT ![i] = NoXhr]
  /\ UNCHANGED <<dialog, file, result, created, posts, apps, stored, unheard>>

(* onerror: the connection breaks.  What has been sent the server may still  *)
(* take.                                                                     *)
Break(i) ==
  /\ xhrs[i].heard
  /\ xhrs[i].stage # "idle"
  /\ Fail(xhrs[i])
  /\ \/ xhrs' = [xhrs EXCEPT ![i] = NoXhr] /\ xhrs[i].stage \in {"sending", "completed", "refused"}
     \/ xhrs' = [xhrs EXCEPT ![i].heard = FALSE] /\ xhrs[i].stage \in {"sent", "processing"}
  /\ unheard' = (unheard \/ (Own(xhrs[i]) /\ xhrs[i].stage # "sending"))
  /\ UNCHANGED <<dialog, file, result, created, posts, apps, stored>>

XhrStep(i) ==
  \/ Sent(i) \/ Take(i) \/ Store(i) \/ Forgotten(i) \/ Success(i) \/ Failure(i)

Next ==
  \/ \E d \in {"upload", "create"} : Open(d)
  \/ Close
  \/ Select \/ Start \/ Retry
  \/ Create \/ SelectFirst \/ Finish \/ UploadLater
  \/ \E i \in PostSlots : TakePost(i) \/ LosePost(i) \/ PostAnswered(i)
  \/ \E i \in Slots : XhrStep(i) \/ Progress(i) \/ Break(i)

Spec == Init /\ [][Next]_vars

(* The browser sends, the server works, answers arrive.                      *)
FairSpec == Spec /\ \A i \in Slots : WF_vars(XhrStep(i))

-----------------------------------------------------------------------------
(* Properties.                                                               *)

(* The types of the state.                                                   *)
TypeOK ==
  /\ dialog \in {"closed", "upload", "create"}
  /\ progress \in {"none", "uploading", "processing", "completed", "failed"}
  /\ {file, error, result, busy, stored, unheard} \subseteq BOOLEAN
  /\ created \in New \cup {None}
  /\ posts \in [PostSlots -> [stage : {"idle", "asked", "made", "refused"},
                              service : BOOLEAN, app : New \cup {None}, mine : BOOLEAN]]
  /\ xhrs \in [Slots -> [stage : {"idle", "completed", "refused"} \cup Under,
                         from : {"upload", "create"}, app : AllApps,
                         mine : BOOLEAN, heard : BOOLEAN]]
  /\ apps \subseteq AllApps

Waiting == {i \in Slots : xhrs[i].mine /\ xhrs[i].heard}

(* The upload dialog says that it sends or that the server works only while  *)
(* an upload of its own is awaited, however many were started and whichever  *)
(* of them fails first.                                                      *)
UploadingIsReal ==
  (dialog = "upload" /\ ~result /\ progress \in {"uploading", "processing"}) => Waiting # {}

(* Once every upload of the upload dialog has been answered it shows a result *)
(* exactly when the server has stored one of them: a second start refused    *)
(* beside a first that succeeds does not read as a failure, nor a failure as *)
(* a result.                                                                 *)
OutcomeTruthful ==
  (dialog = "upload" /\ Waiting = {} /\ ~unheard) => (result <=> stored)

(* The create dialog's buttons are disabled only while a request of its own  *)
(* is awaited.                                                               *)
BusyExplained ==
  busy => (Waiting # {} \/ \E i \in PostSlots : posts[i].mine)

(* An upload of the upload dialog ends in a result or an error on the        *)
(* screen, or the dialog is closed.                                          *)
OutcomeShown ==
  (dialog = "upload" /\ Waiting # {}) ~> (dialog # "upload" \/ result \/ error)
=============================================================================
