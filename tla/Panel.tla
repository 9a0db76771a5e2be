-------------------------------- MODULE Panel --------------------------------
(***************************************************************************)
(* The page of the panel (Home and AuthView): how it starts, the form for    *)
(* the first account or for a login, the session cookie, and the refreshes   *)
(* of what all the views show, which may overlap each other and a logout.    *)
(*                                                                         *)
(* api() awaits twice: the headers of an answer, with which the browser       *)
(* applies the cookie it sets, and its body, which the page acts on.         *)
(***************************************************************************)
EXTENDS Integers, SequencesExt

CONSTANTS
  None,
  Asked,         \* a refresh that awaits its answer
  Refused,       \* a refresh sent without a session
  MaxVersion,    \* changes of what the server would answer
  MaxRefreshes,  \* refreshes in flight
  MaxLogouts,    \* logouts in flight
  MaxFaults      \* requests that fail on their way

ASSUME PanelAssumption ==
  /\ {None, Asked, Refused} \cap Int = {}
  /\ Asked # Refused
  /\ MaxVersion \in Nat
  /\ MaxRefreshes \in Nat \ {0}
  /\ MaxLogouts \in Nat
  /\ MaxFaults \in Nat

VARIABLES
  account,        \* server: whether there is an administrator
  version,        \* server: of the apps, the metrics and the rest
  cookie,         \* browser: whether it holds a session
  boot,           \* page: what the start waits for, or "ready"
  setupRequired,  \* page
  user,           \* page: whether it has one
  submit,         \* page: the form's request, or "none"
  logouts,        \* page: logouts that await their headers
  leaving,        \* page: logouts that await their body
  refreshes,      \* page: refreshes in flight, the oldest first
  apps,           \* page: the version shown, or None for no apps
  metrics,        \* page: the version shown, or None
  faults,         \* failed requests so far
  strayed,        \* history: since the page was opened another browser has set the
                  \* panel up, the session has ended elsewhere, or a request of the
                  \* start or of the form has failed
  crossed         \* history: since then the headers of a login have come between
                  \* those and the body of a logout, or the other way round, or the
                  \* body of a logout was lost

server == <<account, version>>
session == <<cookie, user>>
form == <<setupRequired, submit>>
exits == <<logouts, leaving>>
shown == <<apps, metrics>>
history == <<faults, strayed, crossed>>
vars == <<server, session, boot, form, exits, refreshes, shown, history>>

Versions == 0 .. MaxVersion

Init ==
  /\ account \in BOOLEAN
  /\ version = 0
  /\ cookie \in BOOLEAN
  /\ cookie => account
  /\ boot = "status"
  /\ setupRequired = FALSE
  /\ user = FALSE
  /\ submit = "none"
  /\ logouts = 0
  /\ leaving = 0
  /\ refreshes = <<>>
  /\ apps = None
  /\ metrics = None
  /\ faults = 0
  /\ strayed = FALSE
  /\ crossed = FALSE

(* A request of the page fails on its way.                                   *)
Fault == faults < MaxFaults /\ faults' = faults + 1

-----------------------------------------------------------------------------
(* refreshBase(): four requests, and all of them or none are shown.  A       *)
(* session is a signed token: the server forgets none.                       *)

AskRefresh ==
  IF Len(refreshes) < MaxRefreshes
  THEN Append(refreshes, IF cookie THEN Asked ELSE Refused)
  ELSE refreshes

(* The effect on a new user: a first refresh, then one every ten seconds.    *)
(* Mutant: only the first.                                                   *)
TickNever == FALSE
Tick ==
  /\ user
  /\ Len(refreshes) < MaxRefreshes
  /\ refreshes' = AskRefresh
  /\ UNCHANGED <<server, session, boot, form, exits, shown, history>>

AnswerRefresh(i) ==
  /\ refreshes[i] = Asked
  /\ refreshes' = [refreshes EXCEPT ![i] = version]
  /\ UNCHANGED <<server, session, boot, form, exits, shown, history>>

(* Whether there is still a user, or whether another refresh was asked later *)
(* and answered sooner, is not looked at.                                    *)
DeliverRefresh(i) ==
  /\ refreshes[i] \in Versions
  /\ apps' = refreshes[i]
  /\ metrics' = refreshes[i]
  /\ refreshes' = RemoveAt(refreshes, i)
  /\ UNCHANGED <<server, session, boot, form, exits, history>>

(* A refusal, too, ends nothing but the refresh.                             *)
DropRefresh(i) ==
  /\ \/ refreshes[i] = Refused /\ UNCHANGED history
     \/ refreshes[i] # Refused /\ Fault /\ UNCHANGED <<strayed, crossed>>
  /\ refreshes' = RemoveAt(refreshes, i)
  /\ UNCHANGED <<server, session, boot, form, exits, shown>>

-----------------------------------------------------------------------------
(* boot().                                                                   *)

(* /api/auth/status: without an account there is nobody to ask for.          *)
BootStatus ==
  /\ boot = "status"
  /\ setupRequired' = ~account
  /\ boot' = IF account THEN "me" ELSE "ready"
  /\ UNCHANGED <<server, session, submit, exits, refreshes, shown, history>>

(* /api/auth/me.                                                             *)
BootMe ==
  /\ boot = "me"
  /\ boot' = "ready"
  /\ user' = cookie
  /\ refreshes' = IF cookie THEN AskRefresh ELSE refreshes
  /\ UNCHANGED <<server, cookie, form, exits, shown, history>>

(* The page is ready whatever has become of its requests.                    *)
BootFails ==
  /\ boot # "ready"
  /\ boot' = "ready"
  /\ Fault
  /\ strayed' = TRUE
  /\ UNCHANGED <<server, session, form, exits, refreshes, shown, crossed>>

(* The page is opened anew; the requests of the old one go unanswered.       *)
Open ==
  /\ boot = "ready"
  /\ boot' = "status"
  /\ setupRequired' = FALSE
  /\ user' = FALSE
  /\ submit' = "none"
  /\ logouts' = 0
  /\ leaving' = 0
  /\ refreshes' = <<>>
  /\ apps' = None
  /\ metrics' = None
  /\ strayed' = FALSE
  /\ crossed' = FALSE
  /\ UNCHANGED <<server, cookie, faults>>

-----------------------------------------------------------------------------
(* AuthView: the form for the first account or for a login.                  *)

FormShown == boot = "ready" /\ ~user

Submit ==
  /\ FormShown
  /\ submit = "none"
  /\ submit' = IF setupRequired THEN "setup" ELSE "login"
  /\ UNCHANGED <<server, session, boot, setupRequired, exits, refreshes, shown, history>>

(* setup() makes the account when there is none; login() takes the right     *)
(* password of one.                                                          *)
Setup ==
  /\ submit = "setup"
  /\ account' = TRUE
  /\ submit' = IF account THEN "refused" ELSE "accepted"
  /\ UNCHANGED <<version, session, boot, setupRequired, exits, refreshes, shown, history>>

Login ==
  /\ submit = "login"
  /\ submit' \in {"refused"} \cup (IF account THEN {"accepted"} ELSE {})
  /\ UNCHANGED <<server, session, boot, setupRequired, exits, refreshes, shown, history>>

(* Mutants: the form for the first account comes back after a logout; the    *)
(* setter is called without a value.                                         *)
SetupKept == setupRequired
SetupUndefined == None
SetupDone == FALSE

(* The headers of an accepted form bring the cookie, ...                      *)
Entered ==
  /\ submit = "accepted"
  /\ submit' = "entered"
  /\ cookie' = TRUE
  /\ crossed' = (crossed \/ leaving > 0)
  /\ UNCHANGED <<server, user, boot, setupRequired, exits, refreshes, shown, faults, strayed>>

(* ... and the body the user.                                                 *)
Authenticated ==
  /\ submit = "entered"
  /\ submit' = "none"
  /\ user' = TRUE
  /\ setupRequired' = SetupDone
  /\ refreshes' = AskRefresh
  /\ UNCHANGED <<server, cookie, boot, exits, shown, history>>

(* The cookie of a body that is lost stays.                                   *)
SubmitFails ==
  /\ \/ submit = "refused" /\ UNCHANGED history
     \/ submit \notin {"none", "refused"} /\ Fault /\ strayed' = TRUE /\ UNCHANGED crossed
  /\ submit' = "none"
  /\ UNCHANGED <<server, session, boot, setupRequired, exits, refreshes, shown>>

-----------------------------------------------------------------------------
(* logout().  Nothing keeps the button from being pressed again.             *)

(* Mutant: the page forgets the user before it asks.                         *)
LogoutAtOnce ==
  /\ boot = "ready" /\ user
  /\ logouts + leaving < MaxLogouts
  /\ logouts' = logouts + 1
  /\ user' = FALSE
  /\ UNCHANGED <<server, cookie, boot, form, leaving, refreshes, shown, history>>

Logout ==
  /\ boot = "ready" /\ user
  /\ logouts + leaving < MaxLogouts
  /\ logouts' = logouts + 1
  /\ UNCHANGED <<server, session, boot, form, leaving, refreshes, shown, history>>

(* The headers take the cookie, whoever's it is by now, ...                   *)
LogoutEntered ==
  /\ logouts > 0
  /\ logouts' = logouts - 1
  /\ leaving' = leaving + 1
  /\ cookie' = FALSE
  /\ crossed' = (crossed \/ submit = "entered")
  /\ UNCHANGED <<server, user, boot, form, refreshes, shown, faults, strayed>>

(* Mutant: the metrics stay.                                                 *)
MetricsKept == metrics
MetricsCleared == None

(* ... and the body the user and what was shown to it.                        *)
LogoutAnswered ==
  /\ leaving > 0
  /\ leaving' = leaving - 1
  /\ user' = FALSE
  /\ apps' = None
  /\ metrics' = MetricsCleared
  /\ UNCHANGED <<server, cookie, boot, form, logouts, refreshes, history>>

(* Lost before its headers it does nothing, after them the cookie is gone.    *)
LogoutFails ==
  /\ \/ logouts > 0 /\ logouts' = logouts - 1 /\ UNCHANGED <<leaving, crossed>>
     \/ leaving > 0 /\ leaving' = leaving - 1 /\ crossed' = TRUE /\ UNCHANGED logouts
  /\ Fault
  /\ UNCHANGED <<server, session, boot, form, refreshes, shown, strayed>>

-----------------------------------------------------------------------------
(* What happens elsewhere.                                                   *)

Change ==
  /\ version < MaxVersion
  /\ version' = version + 1
  /\ UNCHANGED <<account, session, boot, form, exits, refreshes, shown, history>>

OtherSetsUp ==
  /\ ~account
  /\ account' = TRUE
  /\ strayed' = TRUE
  /\ UNCHANGED <<version, session, boot, form, exits, refreshes, shown, faults, crossed>>

(* The session runs out, or another tab of the browser logs out.             *)
Expire ==
  /\ cookie
  /\ cookie' = FALSE
  /\ strayed' = TRUE
  /\ UNCHANGED <<server, user, boot, form, exits, refreshes, shown, faults, crossed>>

Refresh(i) == AnswerRefresh(i) \/ DeliverRefresh(i) \/ DropRefresh(i)

Next ==
  \/ BootStatus \/ BootMe \/ BootFails \/ Open
  \/ Submit \/ Setup \/ Login \/ Entered \/ Authenticated \/ SubmitFails
  \/ Logout \/ LogoutEntered \/ LogoutAnswered \/ LogoutFails
  \/ Tick \/ \E i \in DOMAIN refreshes : Refresh(i)
  \/ Change \/ OtherSetsUp \/ Expire

Spec == Init /\ [][Next]_vars

(* The timer ticks, and a request is answered or fails at last.              *)
FairSpec ==
  /\ Spec
  /\ WF_vars(Tick)
  /\ WF_vars(refreshes # <<>> /\ Refresh(1))

-----------------------------------------------------------------------------
(* Properties.                                                               *)

(* The types of the state.                                                   *)
TypeOK ==
  /\ account \in BOOLEAN /\ version \in Versions /\ cookie \in BOOLEAN
  /\ boot \in {"status", "me", "ready"}
  /\ setupRequired \in BOOLEAN /\ user \in BOOLEAN
  /\ submit \in {"none", "setup", "login", "accepted", "refused", "entered"}
  /\ logouts \in Nat /\ leaving \in Nat /\ logouts + leaving <= MaxLogouts
  /\ refreshes \in Seq({Asked, Refused} \cup Versions) /\ Len(refreshes) <= MaxRefreshes
  /\ apps \in Versions \cup {None} /\ metrics \in Versions \cup {None}
  /\ faults \in 0 .. MaxFaults /\ strayed \in BOOLEAN /\ crossed \in BOOLEAN

(* The form asks for a first account exactly when there is none, also after   *)
(* a logout, unless somebody else has made one meanwhile or a request of the *)
(* start or the form has failed: then only opening the page anew puts it     *)
(* right.                                                                    *)
FormFits ==
  (FormShown /\ submit = "none" /\ ~strayed) => (setupRequired <=> ~account)

(* Once all bodies have come the page has a user exactly when the browser    *)
(* has a session, in whatever order logins and logouts are answered, a logout *)
(* that outlives the next login included; unless the headers of the one came *)
(* between the headers and the body of the other, or a body was lost.         *)
AwaitsBody == submit = "entered" \/ leaving > 0
SessionsAgree ==
  (boot = "ready" /\ ~AwaitsBody /\ ~strayed /\ ~crossed) => (user <=> cookie)

(* What the views are drawn from is complete: they never show an empty list  *)
(* of apps that was not loaded, also when the next user comes.               *)
NothingHalfShown == metrics # None => apps # None

(* While a user stays logged in the page comes to show what the server has   *)
(* and keeps to it, although answers may overtake each other or fail.        *)
Converges == <>[](user /\ cookie) => <>[](apps = version)
=============================================================================
