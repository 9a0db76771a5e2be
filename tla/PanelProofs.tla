----------------------------- MODULE PanelProofs -----------------------------
(***************************************************************************)
(* Proofs about Panel, for any number of refreshes, logouts and failures.    *)
(***************************************************************************)
EXTENDS Panel, TLAPS

Answers == {Asked, Refused} \cup Versions

-----------------------------------------------------------------------------
(* Types.                                                                    *)

LEMMA VersionTypes ==
  /\ 0 \in Versions /\ Versions \subseteq Int
  /\ None \notin Versions /\ Asked \notin Versions /\ Refused \notin Versions
BY PanelAssumption DEF Versions

(* What RemoveAt leaves of a sequence is a shorter one of the same values.   *)
LEMMA RemoveAtType ==
  ASSUME NEW S, NEW s \in Seq(S), NEW i \in DOMAIN s
  PROVE  RemoveAt(s, i) \in Seq(S) /\ Len(RemoveAt(s, i)) <= Len(s)
<1>1. i \in 1 .. Len(s) /\ Len(s) \in Nat
  OBVIOUS
<1>2. /\ SubSeq(s, 1, i - 1) \in Seq(S) /\ Len(SubSeq(s, 1, i - 1)) = i - 1
      /\ SubSeq(s, i + 1, Len(s)) \in Seq(S) /\ Len(SubSeq(s, i + 1, Len(s))) = Len(s) - i
  BY <1>1
<1>. QED
  BY <1>1, <1>2 DEF RemoveAt

LEMMA AskRefreshType ==
  ASSUME TypeOK
  PROVE  AskRefresh \in Seq(Answers) /\ Len(AskRefresh) <= MaxRefreshes
BY PanelAssumption DEF TypeOK, AskRefresh, Answers

LEMMA InitTypes == Init => TypeOK
<1>. SUFFICES ASSUME Init PROVE TypeOK
  OBVIOUS
<1>1. /\ account \in BOOLEAN /\ cookie \in BOOLEAN /\ setupRequired \in BOOLEAN
      /\ user \in BOOLEAN /\ strayed \in BOOLEAN /\ crossed \in BOOLEAN
  BY Zenon DEF Init
<1>2. /\ version \in Versions /\ faults \in 0 .. MaxFaults
      /\ logouts \in Nat /\ leaving \in Nat /\ logouts + leaving <= MaxLogouts
  BY PanelAssumption, VersionTypes DEF Init
<1>3. refreshes \in Seq({Asked, Refused} \cup Versions) /\ Len(refreshes) <= MaxRefreshes
  BY PanelAssumption DEF Init
<1>4. /\ boot \in {"status", "me", "ready"} /\ submit \in {"none", "setup", "login", "accepted", "refused", "entered"}
      /\ apps \in Versions \cup {None} /\ metrics \in Versions \cup {None}
  BY DEF Init
<1>. QED
  BY <1>1, <1>2, <1>3, <1>4, Zenon DEF TypeOK

LEMMA StepTypes == TypeOK /\ [Next]_vars => TypeOK'
<1>. SUFFICES ASSUME TypeOK, [Next]_vars PROVE TypeOK'
  OBVIOUS
<1>. USE PanelAssumption, VersionTypes DEF TypeOK, server, session, form, exits, shown, history
<1>1. CASE UNCHANGED vars
  BY <1>1 DEF vars
<1>2. CASE BootStatus
  BY <1>2 DEF BootStatus
<1>3. CASE BootMe
  BY <1>3, AskRefreshType DEF BootMe, Answers
<1>4. CASE BootFails
  BY <1>4 DEF BootFails, Fault
<1>5. CASE Open
  <2>1. /\ account' \in BOOLEAN /\ cookie' \in BOOLEAN /\ setupRequired' \in BOOLEAN
        /\ user' \in BOOLEAN /\ strayed' \in BOOLEAN /\ crossed' \in BOOLEAN
    BY <1>5, Zenon DEF Open
  <2>2. (/\ version \in Versions /\ faults \in 0 .. MaxFaults
         /\ logouts \in Nat /\ leaving \in Nat /\ logouts + leaving <= MaxLogouts)'
    BY <1>5 DEF Open
  <2>3. (refreshes \in Seq({Asked, Refused} \cup Versions) /\ Len(refreshes) <= MaxRefreshes)'
    BY <1>5 DEF Open
  <2>4. (/\ boot \in {"status", "me", "ready"}
         /\ submit \in {"none", "setup", "login", "accepted", "refused", "entered"}
         /\ apps \in Versions \cup {None} /\ metrics \in Versions \cup {None})'
    BY <1>5 DEF Open
  <2>. QED
    BY <2>1, <2>2, <2>3, <2>4, Zenon DEF TypeOK
<1>6. CASE Submit
  BY <1>6 DEF Submit
<1>7. CASE Setup
  BY <1>7 DEF Setup
<1>8. CASE Login
  BY <1>8 DEF Login
<1>9. CASE Entered
  <2>1. cookie' \in BOOLEAN /\ crossed' \in BOOLEAN
    BY <1>9, Zenon DEF Entered
  <2>2. submit' \in {"none", "setup", "login", "accepted", "refused", "entered"}
    BY <1>9 DEF Entered
  <2>3. UNCHANGED <<account, version, user, boot, setupRequired, logouts, leaving, refreshes, apps, metrics,
                    faults, strayed>>
    BY <1>9 DEF Entered
  <2>. QED
    BY <2>1, <2>2, <2>3
<1>10. CASE Authenticated
  <2>1. setupRequired' \in BOOLEAN /\ user' \in BOOLEAN
    BY <1>10, Zenon DEF Authenticated, SetupDone
  <2>2. (refreshes \in Seq({Asked, Refused} \cup Versions) /\ Len(refreshes) <= MaxRefreshes)'
    BY <1>10, AskRefreshType DEF Authenticated, Answers
  <2>3. submit' \in {"none", "setup", "login", "accepted", "refused", "entered"}
    BY <1>10 DEF Authenticated
  <2>4. UNCHANGED <<account, version, cookie, boot, logouts, leaving, apps, metrics, faults, strayed, crossed>>
    BY <1>10 DEF Authenticated
  <2>. QED
    BY <2>1, <2>2, <2>3, <2>4
<1>11. CASE SubmitFails
  <2>1. strayed' \in BOOLEAN
    BY <1>11, Zenon DEF SubmitFails
  <2>2. faults' \in 0 .. MaxFaults
    BY <1>11 DEF SubmitFails, Fault
  <2>3. submit' \in {"none", "setup", "login", "accepted", "refused", "entered"}
    BY <1>11 DEF SubmitFails
  <2>4. UNCHANGED <<account, version, cookie, user, boot, setupRequired, logouts, leaving, refreshes, apps,
                    metrics, crossed>>
    BY <1>11 DEF SubmitFails
  <2>. QED
    BY <2>1, <2>2, <2>3, <2>4
<1>12. CASE Logout
  BY <1>12 DEF Logout
<1>13. CASE LogoutEntered
  <2>1. cookie' \in BOOLEAN /\ crossed' \in BOOLEAN
    BY <1>13, Zenon DEF LogoutEntered
  <2>2. UNCHANGED <<account, version, user, boot, setupRequired, submit, refreshes, apps, metrics, faults, strayed>>
    BY <1>13 DEF LogoutEntered
  <2>3. (logouts \in Nat /\ leaving \in Nat /\ logouts + leaving <= MaxLogouts)'
    BY <1>13 DEF LogoutEntered
  <2>. QED
    BY <2>1, <2>2, <2>3
<1>14. CASE LogoutAnswered
  <2>1. user' \in BOOLEAN
    BY <1>14, Zenon DEF LogoutAnswered
  <2>2. (logouts \in Nat /\ leaving \in Nat /\ logouts + leaving <= MaxLogouts)'
    BY <1>14 DEF LogoutAnswered
  <2>3. apps' \in Versions \cup {None} /\ metrics' \in Versions \cup {None}
    BY <1>14 DEF LogoutAnswered, MetricsCleared
  <2>4. UNCHANGED <<account, version, cookie, boot, setupRequired, submit, refreshes, faults, strayed,
                    crossed>>
    BY <1>14 DEF LogoutAnswered
  <2>. QED
    BY <2>1, <2>2, <2>3, <2>4
<1>15. CASE LogoutFails
  <2>1. crossed' \in BOOLEAN
    BY <1>15, Zenon DEF LogoutFails
  <2>2. (logouts \in Nat /\ leaving \in Nat /\ logouts + leaving <= MaxLogouts)' /\ faults' \in 0 .. MaxFaults
    BY <1>15 DEF LogoutFails, Fault
  <2>3. UNCHANGED <<account, version, cookie, user, boot, setupRequired, submit, refreshes, apps, metrics, strayed>>
    BY <1>15 DEF LogoutFails
  <2>. QED
    BY <2>1, <2>2, <2>3
<1>16. CASE Tick
  BY <1>16, AskRefreshType DEF Tick, Answers
<1>17. ASSUME NEW i \in DOMAIN refreshes, AnswerRefresh(i) PROVE TypeOK'
  BY <1>17 DEF AnswerRefresh
<1>18. ASSUME NEW i \in DOMAIN refreshes, DeliverRefresh(i) PROVE TypeOK'
  BY <1>18, RemoveAtType DEF DeliverRefresh
<1>19. ASSUME NEW i \in DOMAIN refreshes, DropRefresh(i) PROVE TypeOK'
  BY <1>19, RemoveAtType DEF DropRefresh, Fault
<1>20. CASE Change
  BY <1>20 DEF Change, Versions
<1>21. CASE OtherSetsUp
  BY <1>21 DEF OtherSetsUp
<1>22. CASE Expire
  BY <1>22 DEF Expire
<1>. QED
  BY <1>1, <1>2, <1>3, <1>4, <1>5, <1>6, <1>7, <1>8, <1>9, <1>10, <1>11, <1>12, <1>13,
     <1>14, <1>15, <1>16, <1>17, <1>18, <1>19, <1>20, <1>21, <1>22 DEF Next, Refresh

(* Every variable of the page, the browser and the server keeps its type.    *)
THEOREM TypeCorrect == Spec => []TypeOK
<1>. QED
  BY InitTypes, StepTypes, PTL DEF Spec

-----------------------------------------------------------------------------
(* What the form and the session say.                                        *)

(* Before the page is ready there is neither a user nor a form.              *)
Starting ==
  /\ boot # "ready" => ~user /\ submit = "none" /\ logouts = 0 /\ leaving = 0
  /\ boot = "me" => account /\ ~setupRequired

(* A session, and an accepted form, come from the account.                   *)
Accounted == (cookie => account) /\ (submit \in {"accepted", "entered"} => account)

(* The form that was sent is the one that fitted, and what setup() made is    *)
(* no longer asked for when its answer has come.                             *)
Fitting ==
  (boot = "ready" /\ ~strayed) =>
    /\ submit \in {"none", "refused"} => (setupRequired <=> ~account)
    /\ submit = "setup" => ~account /\ setupRequired
    /\ submit = "login" => account /\ ~setupRequired

(* While a body is awaited the cookie is what that body will say, if no      *)
(* answer of the other kind comes between.                                   *)
Agreeing ==
  (boot = "ready" /\ ~strayed /\ ~crossed) =>
    /\ submit = "entered" => cookie /\ leaving = 0
    /\ leaving > 0 => ~cookie
    /\ ~AwaitsBody => (user <=> cookie)

SessionInv == Starting /\ Accounted /\ Fitting /\ Agreeing

LEMMA InitSession == Init => SessionInv
BY DEF Init, SessionInv, Starting, Accounted, Fitting, Agreeing

LEMMA StepSession == TypeOK /\ SessionInv /\ [Next]_vars => SessionInv'
<1>. SUFFICES ASSUME TypeOK, SessionInv, [Next]_vars PROVE SessionInv'
  OBVIOUS
<1>. USE DEF TypeOK, SessionInv, Starting, Accounted, Fitting, Agreeing, AwaitsBody,
             server, session, form, exits, shown, history
<1>1. CASE UNCHANGED vars
  BY <1>1 DEF vars
<1>2. CASE BootStatus
  BY <1>2 DEF BootStatus
<1>3. CASE BootMe
  BY <1>3 DEF BootMe
<1>4. CASE BootFails
  BY <1>4 DEF BootFails
<1>5. CASE Open
  BY <1>5 DEF Open
<1>6. CASE Submit
  BY <1>6 DEF Submit, FormShown
<1>7. CASE Setup
  BY <1>7 DEF Setup
<1>8. CASE Login
  BY <1>8 DEF Login
<1>9. CASE Entered
  <2>1. ~crossed' => (~crossed /\ ~(leaving > 0))
    BY <1>9, Zenon DEF Entered
  <2>2. Starting' /\ Accounted' /\ Fitting'
    BY <1>9 DEF Entered
  <2>3. Agreeing'
    BY <1>9, <2>1 DEF Entered
  <2>. QED
    BY <2>2, <2>3
<1>10. CASE Authenticated
  BY <1>10 DEF Authenticated, SetupDone
<1>11. CASE SubmitFails
  BY <1>11 DEF SubmitFails
<1>12. CASE Logout
  BY <1>12 DEF Logout
<1>13. CASE LogoutEntered
  BY <1>13 DEF LogoutEntered
<1>14. CASE LogoutAnswered
  BY <1>14 DEF LogoutAnswered
<1>15. CASE LogoutFails
  BY <1>15, PanelAssumption DEF LogoutFails, Fault
<1>16. CASE Tick \/ Change \/ OtherSetsUp \/ Expire
  BY <1>16 DEF Tick, Change, OtherSetsUp, Expire
<1>17. ASSUME NEW i \in DOMAIN refreshes, Refresh(i) PROVE SessionInv'
  BY <1>17 DEF Refresh, AnswerRefresh, DeliverRefresh, DropRefresh, Fault
<1>. QED
  BY <1>1, <1>2, <1>3, <1>4, <1>5, <1>6, <1>7, <1>8, <1>9, <1>10, <1>11, <1>12, <1>13,
     <1>14, <1>15, <1>16, <1>17 DEF Next

LEMMA SessionHolds == Spec => []SessionInv
<1>. QED
  BY InitSession, StepSession, TypeCorrect, PTL DEF Spec

(* For any number of logouts, logins and refreshes in flight, and although   *)
(* the cookie changes with the headers of an answer and the page only with   *)
(* its body, the two agree once no body is awaited, unless one was lost or a *)
(* login's and a logout's crossed.                                           *)
THEOREM PageAndBrowserAgree == Spec => []SessionsAgree
<1>1. SessionInv => SessionsAgree
  BY DEF SessionInv, Agreeing, SessionsAgree
<1>. QED
  BY <1>1, SessionHolds, PTL

(* The form asks for a first account exactly when there is none.             *)
THEOREM FormIsRight == Spec => []FormFits
<1>1. SessionInv => FormFits
  BY DEF SessionInv, Fitting, FormFits, FormShown
<1>. QED
  BY <1>1, SessionHolds, PTL

-----------------------------------------------------------------------------
(* What the views are drawn from.                                            *)

(* The views never show apps that were not loaded.                           *)
THEOREM ShownIsWhole == Spec => []NothingHalfShown
<1>1. Init => NothingHalfShown
  BY DEF Init, NothingHalfShown
<1>2. NothingHalfShown /\ [Next]_vars => NothingHalfShown'
  <2>. SUFFICES ASSUME NothingHalfShown, [Next]_vars PROVE NothingHalfShown'
    OBVIOUS
  <2>. USE VersionTypes DEF NothingHalfShown, server, session, form, exits, shown, history
  <2>1. CASE UNCHANGED <<apps, metrics>>
    BY <2>1
  <2>2. CASE Open \/ LogoutAnswered
    BY <2>2 DEF Open, LogoutAnswered, MetricsCleared
  <2>3. ASSUME NEW i \in DOMAIN refreshes, DeliverRefresh(i) PROVE NothingHalfShown'
    BY <2>3 DEF DeliverRefresh
  <2>. QED
    BY <2>1, <2>2, <2>3 DEF Next, vars, Refresh, BootStatus, BootMe, BootFails, Submit, Setup,
       Login, Entered, Authenticated, SubmitFails, Logout, LogoutEntered, LogoutFails, Tick, AnswerRefresh, DropRefresh,
       Change, OtherSetsUp, Expire
<1>. QED
  BY <1>1, <1>2, PTL DEF Spec
=============================================================================
