--------------------------- MODULE AdminPanelProofs ---------------------------
(***************************************************************************)
(* The admin panel, for any users, requests, processes, limits, calls in   *)
(* flight, leads, files, pages, labels and documents: the login routes of  *)
(* the server, the session of a page, its views, and the knowledge base    *)
(* that is filled through it.  They share nothing; each has an inductive   *)
(* invariant of its own.                                                   *)
(***************************************************************************)
EXTENDS AdminLogin, PanelSession, PanelViews, Knowledge, FiniteSetTheorems, TLAPS

-----------------------------------------------------------------------------
(***************************************************************************)
(* The login routes.  Neither limit nor second factor needs more of the    *)
(* types than the requests, the records and the clock.                     *)
(***************************************************************************)

LoginTypes ==
    /\ areq \in [AuthRequests -> AuthRequest]
    /\ totp \in [Names -> Totp \union {NoTotp}]
    /\ failed \subseteq AuthRequests
    /\ age \in [AuthRequests -> Ages]
    /\ peak \in Nat

\* The steps of a login are a login's.
LoginsOnly ==
    \A r \in AuthRequests : areq[r].step \in {"check", "limit", "authenticate", "record"} => areq[r].kind = "login"

\* A confirm that has verified its code will enable a secret that was
\* confirmed, or one that was set up behind its back.
ConfirmsHoldASecret ==
    \A r \in AuthRequests : areq[r].step = "enable" =>
        /\ totp[areq[r].name].exists
        /\ totp[areq[r].name].secret \in confirmed \union crossed

\* Each login under way may add a failure to those in the window: together
\* they were within the limit when the last of them passed the check.
Counted == InWindow \union PastCheck

FailuresAreCounted ==
    Cardinality(Counted) < MaxFailures + peak /\ Cardinality(PastCheck) <= peak

LoginInv ==
    /\ LoginTypes /\ LoginsOnly /\ ConfirmsHoldASecret /\ FailuresAreCounted /\ EnabledSecretIsConfirmed

-----------------------------------------------------------------------------
(* The requests.                                                           *)

\* A request before and after it is at work.
LEMMA BlankType ==
  ASSUME NEW r \in AuthRequests
  PROVE  /\ Blank(r) \in AuthRequest /\ Blank(r).step = "idle"
         /\ Ended(r) \in AuthRequest /\ Ended(r).step = "done"
<1> DEFINE k == CHOOSE x \in AuthKinds : TRUE
           n == CHOOSE x \in Names : TRUE
           p == CHOOSE x \in Processes : TRUE
           w == CHOOSE x \in Passwords : TRUE
<1>1. k \in AuthKinds /\ n \in Names /\ p \in Processes /\ w \in Passwords
  BY AuthConstants
<1> HIDE DEF k, n, p, w
<1>2. Blank(r) = [kind |-> k, name |-> n, proc |-> p, pass |-> w, code |-> r, active |-> TRUE, step |-> "idle"]
  BY DEF Blank, k, n, p, w
<1>3. Blank(r) \in AuthRequest /\ Blank(r).step = "idle"
  BY <1>1, <1>2 DEF AuthRequest, AuthSteps
<1> QED BY <1>3 DEF Ended, AuthRequest, AuthSteps

\* One request goes to another step.
Moves(r, s) ==
    /\ areq' \in [AuthRequests -> AuthRequest]
    /\ \A q \in AuthRequests : q # r => areq'[q] = areq[q]
    /\ areq'[r].step = s
    /\ s # "done" => areq'[r].kind = areq[r].kind /\ areq'[r].name = areq[r].name

LEMMA StepMoves ==
  ASSUME LoginTypes, NEW r \in AuthRequests, NEW s \in AuthSteps, Step(r, s)
  PROVE  Moves(r, s)
<1>1. CASE s = "done"
  <2>1. areq' = [areq EXCEPT ![r] = Ended(r)]
    BY <1>1 DEF Step
  <2> QED BY <1>1, <2>1, BlankType DEF LoginTypes, Moves
<1>2. CASE s # "done"
  <2> DEFINE n == [areq[r] EXCEPT !.step = s]
  <2>1. areq' = [areq EXCEPT ![r] = n]
    BY <1>2 DEF Step
  <2>2. n \in AuthRequest /\ n.step = s /\ n.kind = areq[r].kind /\ n.name = areq[r].name
    BY DEF LoginTypes, AuthRequest
  <2> HIDE DEF n
  <2> QED BY <2>1, <2>2 DEF LoginTypes, Moves
<1> QED BY <1>1, <1>2

\* Sets of requests are finite.
LEMMA RequestsAreFinite ==
  ASSUME NEW S \in SUBSET AuthRequests
  PROVE  IsFiniteSet(S) /\ Cardinality(S) \in Nat
<1>1. IsFiniteSet(AuthRequests)
  BY FS_Interval, AuthConstants DEF AuthRequests
<1>2. IsFiniteSet(S)
  BY <1>1, FS_Subset
<1> QED BY <1>2, FS_CardinalityType

\* Fewer failures and logins are within what more of them were.
LEMMA CountedShrinks ==
  ASSUME LoginInv, LoginTypes', peak' = peak, Counted' \subseteq Counted, PastCheck' \subseteq PastCheck
  PROVE  FailuresAreCounted'
<1>1. /\ Counted \subseteq AuthRequests /\ PastCheck \subseteq AuthRequests
      /\ Counted' \subseteq AuthRequests /\ PastCheck' \subseteq AuthRequests
  BY DEF LoginInv, LoginTypes, Counted, InWindow, PastCheck
<1>2. Cardinality(Counted') <= Cardinality(Counted) /\ Cardinality(PastCheck') <= Cardinality(PastCheck)
  BY <1>1, RequestsAreFinite, FS_Subset
<1>3. /\ Cardinality(Counted) \in Nat /\ Cardinality(PastCheck) \in Nat
      /\ Cardinality(Counted') \in Nat /\ Cardinality(PastCheck') \in Nat
  BY <1>1, RequestsAreFinite
<1> QED BY <1>2, <1>3, AuthConstants DEF LoginInv, LoginTypes, FailuresAreCounted

\* A step that writes no record of a second factor, records no failure of a
\* login that was not under way, and leaves nobody about to enable.
LEMMA OtherStep ==
  ASSUME LoginInv, LoginTypes', LoginsOnly', UNCHANGED <<totp, confirmed, crossed, peak>>,
         Counted' \subseteq Counted, PastCheck' \subseteq PastCheck,
         \A q \in AuthRequests : areq'[q].step = "enable" => areq'[q] = areq[q]
  PROVE  LoginInv'
<1>1. FailuresAreCounted'
  BY CountedShrinks
<1>2. ConfirmsHoldASecret'
  BY DEF LoginInv, ConfirmsHoldASecret
<1>3. EnabledSecretIsConfirmed'
  BY DEF LoginInv, EnabledSecretIsConfirmed
<1> QED BY <1>1, <1>2, <1>3 DEF LoginInv

\* A request goes on, within a login or to its end.
LEMMA MoveStep ==
  ASSUME LoginInv, NEW r \in AuthRequests, NEW s \in AuthSteps \ {"enable", "check"}, Step(r, s),
         s \in {"limit", "authenticate", "record"} => areq[r].step \in {"limit", "authenticate"},
         UNCHANGED <<totp, failed, age, confirmed, crossed, peak>>
  PROVE  LoginInv'
<1>1. Moves(r, s)
  BY StepMoves DEF LoginInv
<1>2. LoginTypes'
  BY <1>1 DEF LoginInv, LoginTypes, Moves
<1>3. LoginsOnly'
  BY <1>1 DEF LoginInv, LoginsOnly, Moves
<1>4. PastCheck' \subseteq PastCheck
  <2> SUFFICES ASSUME NEW q \in AuthRequests, areq'[q].step \in {"limit", "authenticate", "record"},
                      areq'[q].kind = "login"
               PROVE  q \in PastCheck
    BY DEF PastCheck
  <2> QED BY <1>1 DEF Moves, PastCheck, LoginInv, LoginsOnly
<1>5. Counted' \subseteq Counted
  BY <1>4 DEF Counted, InWindow
<1>6. \A q \in AuthRequests : areq'[q].step = "enable" => areq'[q] = areq[q]
  BY <1>1 DEF Moves
<1> QED BY <1>2, <1>3, <1>4, <1>5, <1>6, OtherStep

-----------------------------------------------------------------------------
(* The login.                                                              *)

\* A request arrives; none starts past the check or about to enable.
LEMMA ArriveKeepsInv ==
  ASSUME LoginInv, NEW r \in AuthRequests, NEW kind \in AuthKinds, NEW n \in Names, NEW p \in Processes,
         NEW w \in Passwords, NEW c \in AuthRequests, NEW on \in BOOLEAN, Arrive(r, kind, n, p, w, c, on)
  PROVE  LoginInv'
<1> DEFINE s == FirstAuthStep(kind)
           a == [kind |-> kind, name |-> n, proc |-> p, pass |-> w, code |-> c, active |-> on, step |-> s]
<1>1. s \in {"check", "verify", "upsert", "read", "exists", "target"} /\ (s = "check" => kind = "login")
  BY AuthConstants DEF FirstAuthStep
<1>2. s \in AuthSteps
  BY <1>1 DEF AuthSteps
<1>3. areq' = [areq EXCEPT ![r] = a] /\ UNCHANGED <<totp, failed, age, confirmed, crossed, peak>>
  BY DEF Arrive
<1> HIDE DEF s
<1>4. a \in AuthRequest /\ a.step = s /\ a.kind = kind
  BY <1>2 DEF AuthRequest
<1> HIDE DEF a
<1>5. /\ areq' \in [AuthRequests -> AuthRequest] /\ areq'[r] = a
      /\ \A q \in AuthRequests : q # r => areq'[q] = areq[q]
  BY <1>3, <1>4 DEF LoginInv, LoginTypes
<1>6. LoginTypes'
  BY <1>3, <1>5 DEF LoginInv, LoginTypes
<1>7. LoginsOnly'
  BY <1>1, <1>4, <1>5 DEF LoginInv, LoginsOnly
<1>8. PastCheck' \subseteq PastCheck
  BY <1>1, <1>4, <1>5 DEF PastCheck
<1>9. Counted' \subseteq Counted
  BY <1>3, <1>8 DEF Counted, InWindow
<1>10. \A q \in AuthRequests : areq'[q].step = "enable" => areq'[q] = areq[q]
  BY <1>1, <1>4, <1>5
<1> QED BY <1>3, <1>6, <1>7, <1>8, <1>9, <1>10, OtherStep

\* The lockout is checked: the failures in the window are below the limit,
\* and the logins past the check no more than ever.
LEMMA CheckLockoutKeepsInv ==
  ASSUME LoginInv, NEW r \in AuthRequests, CheckLockout(r)
  PROVE  LoginInv'
<1> DEFINE s == IF Cardinality(InWindow) >= MaxFailures THEN "done" ELSE "limit"
<1>1. /\ areq[r].step = "check" /\ Step(r, s) /\ CountPastCheck
      /\ UNCHANGED <<totp, failed, age, confirmed, crossed>>
  BY DEF CheckLockout
<1>2. s \in AuthSteps /\ s \in {"done", "limit"} /\ (s = "limit" => ~(Cardinality(InWindow) >= MaxFailures))
  BY DEF AuthSteps
<1> HIDE DEF s
<1>3. Moves(r, s)
  BY <1>1, <1>2, StepMoves DEF LoginInv
<1>4. PastCheck' \in SUBSET AuthRequests /\ InWindow \in SUBSET AuthRequests
  BY DEF PastCheck, InWindow, LoginInv, LoginTypes
<1>5. /\ IsFiniteSet(PastCheck') /\ Cardinality(PastCheck') \in Nat
      /\ IsFiniteSet(InWindow) /\ Cardinality(InWindow) \in Nat
  BY <1>4, RequestsAreFinite
<1>6. peak' \in Nat /\ peak' >= peak /\ Cardinality(PastCheck') <= peak'
  BY <1>1, <1>5 DEF CountPastCheck, LoginInv, LoginTypes
<1>7. LoginTypes'
  BY <1>1, <1>3, <1>6 DEF LoginInv, LoginTypes, Moves
<1>8. LoginsOnly'
  BY <1>1, <1>2, <1>3 DEF LoginInv, LoginsOnly, Moves
<1>9. InWindow' = InWindow
  BY <1>1 DEF InWindow
<1>10. Cardinality(Counted') < MaxFailures + peak'
  <2>1. CASE s = "limit"
    <3>1. Cardinality(InWindow) < MaxFailures
      BY <1>2, <1>5, <2>1, AuthConstants
    <3>2. Cardinality(InWindow \union PastCheck') =
            Cardinality(InWindow) + Cardinality(PastCheck') - Cardinality(InWindow \cap PastCheck')
      BY <1>5, FS_Union
    <3>3. Cardinality(InWindow \cap PastCheck') \in Nat
      BY <1>4, RequestsAreFinite
    <3>4. Counted' = InWindow \union PastCheck'
      BY <1>9 DEF Counted
    <3> QED BY <1>5, <1>6, <3>1, <3>2, <3>3, <3>4, AuthConstants
  <2>2. CASE s = "done"
    <3>1. PastCheck' \subseteq PastCheck
      BY <1>3, <2>2 DEF PastCheck, Moves
    <3>2. Counted' \subseteq Counted /\ Counted \in SUBSET AuthRequests
      BY <1>4, <1>9, <3>1 DEF Counted, PastCheck
    <3>3. Cardinality(Counted') <= Cardinality(Counted) /\ Cardinality(Counted') \in Nat /\ Cardinality(Counted) \in Nat
      BY <3>2, RequestsAreFinite, FS_Subset
    <3> QED BY <1>6, <3>3, AuthConstants DEF LoginInv, LoginTypes, FailuresAreCounted
  <2> QED BY <1>2, <2>1, <2>2
<1>11. FailuresAreCounted'
  BY <1>6, <1>10 DEF FailuresAreCounted
<1>12. ConfirmsHoldASecret' /\ EnabledSecretIsConfirmed'
  BY <1>1, <1>2, <1>3 DEF LoginInv, ConfirmsHoldASecret, EnabledSecretIsConfirmed, Moves
<1> QED BY <1>7, <1>8, <1>11, <1>12 DEF LoginInv

\* A failure is recorded: the login that was counted is counted on.
LEMMA RecordFailureKeepsInv ==
  ASSUME LoginInv, NEW r \in AuthRequests, RecordFailure(r)
  PROVE  LoginInv'
<1>1. /\ areq[r].step = "record" /\ Step(r, "done") /\ failed' = failed \union {r}
      /\ UNCHANGED <<totp, age, confirmed, crossed, peak>>
  BY DEF RecordFailure
<1>2. Moves(r, "done")
  BY <1>1, StepMoves DEF LoginInv, AuthSteps
<1>3. LoginTypes'
  BY <1>1, <1>2 DEF LoginInv, LoginTypes, Moves
<1>4. LoginsOnly'
  BY <1>2 DEF LoginInv, LoginsOnly, Moves
<1>5. PastCheck' \subseteq PastCheck /\ r \in PastCheck
  BY <1>1, <1>2 DEF PastCheck, Moves, LoginInv, LoginsOnly
<1>6. Counted' \subseteq Counted
  BY <1>1, <1>5 DEF Counted, InWindow
<1>7. \A q \in AuthRequests : areq'[q].step = "enable" => areq'[q] = areq[q]
  BY <1>2 DEF Moves
<1> QED BY <1>1, <1>3, <1>4, <1>5, <1>6, <1>7, OtherStep

\* Time passes: failures leave the window.
LEMMA TimePassesKeepsInv ==
  ASSUME LoginInv, NEW r \in AuthRequests, TimePasses(r)
  PROVE  LoginInv'
<1> DEFINE a == IF age[r] = "minute" THEN "window" ELSE "past"
<1>1. /\ age[r] # "past" /\ age' = [age EXCEPT ![r] = a]
      /\ UNCHANGED <<totp, failed, areq, confirmed, crossed, peak>>
  BY DEF TimePasses
<1>2. a \in Ages
  BY DEF Ages
<1> HIDE DEF a
<1>3. LoginTypes' /\ \A q \in AuthRequests : q # r => age'[q] = age[q]
  BY <1>1, <1>2 DEF LoginInv, LoginTypes
<1>4. LoginsOnly'
  BY <1>1 DEF LoginInv, LoginsOnly
<1>5. PastCheck' = PastCheck
  BY <1>1 DEF PastCheck
<1>6. Counted' \subseteq Counted
  BY <1>1, <1>3, <1>5 DEF Counted, InWindow, LoginInv, LoginTypes
<1> QED BY <1>1, <1>3, <1>4, <1>5, <1>6, OtherStep

\* A process restarts: its requests end.
LEMMA RestartProcessKeepsInv ==
  ASSUME LoginInv, NEW p \in Processes, RestartProcess(p)
  PROVE  LoginInv'
<1>1. /\ areq' = [r \in AuthRequests |->
                    IF areq[r].proc = p /\ areq[r].step # "idle" THEN Ended(r) ELSE areq[r]]
      /\ UNCHANGED <<totp, failed, age, confirmed, crossed, peak>>
  BY DEF RestartProcess
<1>2. \A q \in AuthRequests : areq'[q] = areq[q] \/ (areq'[q] \in AuthRequest /\ areq'[q].step = "done")
  BY <1>1, BlankType
<1>3. LoginTypes'
  BY <1>1, <1>2, BlankType DEF LoginInv, LoginTypes
<1>4. LoginsOnly'
  BY <1>2 DEF LoginInv, LoginsOnly
<1>5. PastCheck' \subseteq PastCheck
  BY <1>2 DEF PastCheck
<1>6. Counted' \subseteq Counted
  BY <1>1, <1>5 DEF Counted, InWindow
<1>7. \A q \in AuthRequests : areq'[q].step = "enable" => areq'[q] = areq[q]
  BY <1>2
<1> QED BY <1>1, <1>3, <1>4, <1>5, <1>6, <1>7, OtherStep

-----------------------------------------------------------------------------
(* The second factor.                                                      *)

\* A record of a second factor is written: the logins are as they were.
LEMMA FactorStep ==
  ASSUME LoginInv, NEW r \in AuthRequests, NEW s \in {"enable", "done"}, Step(r, s),
         totp' \in [Names -> Totp \union {NoTotp}], UNCHANGED <<failed, age, peak>>
  PROVE  LoginTypes' /\ LoginsOnly' /\ FailuresAreCounted' /\ Moves(r, s)
<1>1. Moves(r, s)
  BY StepMoves DEF LoginInv, AuthSteps
<1>2. LoginTypes'
  BY <1>1 DEF LoginInv, LoginTypes, Moves
<1>3. LoginsOnly'
  BY <1>1 DEF LoginInv, LoginsOnly, Moves
<1>4. PastCheck' \subseteq PastCheck
  BY <1>1 DEF PastCheck, Moves
<1>5. Counted' \subseteq Counted
  BY <1>4 DEF Counted, InWindow
<1> QED BY <1>1, <1>2, <1>3, <1>4, <1>5, CountedShrinks

\* A code is verified against the secret of the moment.
LEMMA VerifyCodeKeepsInv ==
  ASSUME LoginInv, NEW r \in AuthRequests, VerifyCode(r)
  PROVE  LoginInv'
<1> DEFINE t == totp[areq[r].name]
<1>1. areq[r].step = "read" /\ UNCHANGED <<totp, failed, age, crossed, peak>> /\ areq[r].name \in Names
  BY DEF VerifyCode, LoginInv, LoginTypes, AuthRequest
<1>2. CASE t.exists /\ t.secret = areq[r].code
  <2>1. Step(r, "enable") /\ confirmed' = confirmed \union {t.secret}
    BY <1>2 DEF VerifyCode
  <2>2. LoginTypes' /\ LoginsOnly' /\ FailuresAreCounted' /\ Moves(r, "enable")
    BY <1>1, <2>1, FactorStep DEF LoginInv, LoginTypes
  <2>3. ConfirmsHoldASecret'
    BY <1>1, <1>2, <2>1, <2>2 DEF LoginInv, ConfirmsHoldASecret, Moves
  <2>4. EnabledSecretIsConfirmed'
    BY <1>1, <2>1 DEF LoginInv, EnabledSecretIsConfirmed
  <2> QED BY <2>2, <2>3, <2>4 DEF LoginInv
<1>3. CASE ~(t.exists /\ t.secret = areq[r].code)
  <2>1. Step(r, "done") /\ confirmed' = confirmed
    BY <1>3 DEF VerifyCode
  <2> QED BY <1>1, <2>1, MoveStep DEF AuthSteps
<1> QED BY <1>2, <1>3

\* A new secret is not in force; who is about to enable it will be excepted.
LEMMA SetupTwoFactorKeepsInv ==
  ASSUME LoginInv, NEW r \in AuthRequests, SetupTwoFactor(r)
  PROVE  LoginInv'
<1> DEFINE n == areq[r].name
           t == [exists |-> TRUE, secret |-> r, enabled |-> FALSE]
<1>1. /\ areq[r].step = "upsert" /\ n \in Names /\ Step(r, "done")
      /\ totp' = [totp EXCEPT ![n] = t]
      /\ crossed' = IF Confirming(n) # {} THEN crossed \union {r} ELSE crossed
      /\ UNCHANGED <<failed, age, confirmed, peak>>
  BY DEF SetupTwoFactor, LoginInv, LoginTypes, AuthRequest
<1>2. t \in Totp /\ t.exists /\ t.secret = r /\ ~t.enabled
  BY DEF Totp
<1> HIDE DEF t
<1>3. /\ totp' \in [Names -> Totp \union {NoTotp}] /\ totp'[n] = t
      /\ \A m \in Names : m # n => totp'[m] = totp[m]
  BY <1>1, <1>2 DEF LoginInv, LoginTypes
<1>4. LoginTypes' /\ LoginsOnly' /\ FailuresAreCounted' /\ Moves(r, "done")
  BY <1>1, <1>3, FactorStep
<1>5. ConfirmsHoldASecret'
  <2> SUFFICES ASSUME NEW q \in AuthRequests, areq'[q].step = "enable"
               PROVE  /\ totp'[areq'[q].name].exists
                      /\ totp'[areq'[q].name].secret \in confirmed' \union crossed'
    BY DEF ConfirmsHoldASecret
  <2>1. areq'[q] = areq[q] /\ areq[q].step = "enable" /\ areq[q].name \in Names
    BY <1>4 DEF Moves, LoginInv, LoginTypes, AuthRequest
  <2>2. CASE areq[q].name = n
    <3>1. Confirming(n) # {}
      BY <2>1, <2>2 DEF Confirming
    <3> QED BY <1>1, <1>2, <1>3, <2>1, <2>2, <3>1
  <2>3. CASE areq[q].name # n
    BY <1>1, <1>3, <2>1, <2>3 DEF LoginInv, ConfirmsHoldASecret
  <2> QED BY <2>2, <2>3
<1>6. EnabledSecretIsConfirmed'
  BY <1>1, <1>2, <1>3 DEF LoginInv, EnabledSecretIsConfirmed
<1> QED BY <1>4, <1>5, <1>6 DEF LoginInv

\* The record is enabled with the secret it has by now.
LEMMA EnableTwoFactorKeepsInv ==
  ASSUME LoginInv, NEW r \in AuthRequests, EnableTwoFactor(r)
  PROVE  LoginInv'
<1> DEFINE n == areq[r].name
           t == [totp[n] EXCEPT !.enabled = TRUE]
<1>1. /\ areq[r].step = "enable" /\ n \in Names /\ Step(r, "done")
      /\ totp' = [totp EXCEPT ![n] = t]
      /\ UNCHANGED <<failed, age, confirmed, crossed, peak>>
  BY DEF EnableTwoFactor, LoginInv, LoginTypes, AuthRequest
<1>2. totp[n].exists /\ totp[n].secret \in confirmed \union crossed
  BY <1>1 DEF LoginInv, ConfirmsHoldASecret
<1>3. totp[n] \in Totp
  <2>1. ~NoTotp.exists
    BY DEF NoTotp
  <2>2. totp[n] # NoTotp
    BY <1>2, <2>1
  <2> QED BY <1>1, <2>2 DEF LoginInv, LoginTypes
<1>4. t \in Totp /\ t.exists /\ t.secret = totp[n].secret
  BY <1>2, <1>3 DEF Totp
<1> HIDE DEF t
<1>5. /\ totp' \in [Names -> Totp \union {NoTotp}] /\ totp'[n] = t
      /\ \A m \in Names : m # n => totp'[m] = totp[m]
  BY <1>1, <1>4 DEF LoginInv, LoginTypes
<1>6. LoginTypes' /\ LoginsOnly' /\ FailuresAreCounted' /\ Moves(r, "done")
  BY <1>1, <1>5, FactorStep
<1>7. ConfirmsHoldASecret'
  <2> SUFFICES ASSUME NEW q \in AuthRequests, areq'[q].step = "enable"
               PROVE  /\ totp'[areq'[q].name].exists
                      /\ totp'[areq'[q].name].secret \in confirmed' \union crossed'
    BY DEF ConfirmsHoldASecret
  <2>1. areq'[q] = areq[q] /\ areq[q].step = "enable" /\ areq[q].name \in Names
    BY <1>6 DEF Moves, LoginInv, LoginTypes, AuthRequest
  <2> QED BY <1>1, <1>2, <1>4, <1>5, <2>1 DEF LoginInv, ConfirmsHoldASecret
<1>8. EnabledSecretIsConfirmed'
  BY <1>1, <1>2, <1>4, <1>5 DEF LoginInv, EnabledSecretIsConfirmed
<1> QED BY <1>6, <1>7, <1>8 DEF LoginInv

-----------------------------------------------------------------------------
(* The other steps of a request write neither failures nor records of a    *)
(* second factor.                                                          *)

LEMMA LoginStepKeepsInv ==
  ASSUME LoginInv, NEW r \in AuthRequests,
         \/ CheckMinute(r) \/ Authenticate(r) \/ RecordSuccess(r) \/ IssueToken(r) \/ UpdateLastLogin(r)
  PROVE  LoginInv'
<1>1. CASE CheckMinute(r)
  <2> DEFINE s == IF Cardinality(InMinute(areq[r].proc)) >= MaxPerMinute THEN "done" ELSE "authenticate"
  <2>1. /\ areq[r].step = "limit" /\ Step(r, s)
        /\ UNCHANGED <<totp, failed, age, confirmed, crossed, peak>>
    BY <1>1 DEF CheckMinute
  <2>2. s \in AuthSteps \ {"enable", "check"}
    BY DEF AuthSteps
  <2> HIDE DEF s
  <2> QED BY <2>1, <2>2, MoveStep
<1>2. CASE Authenticate(r)
  <2>1. /\ areq[r].step = "authenticate"
        /\ Step(r, "record_ok") \/ Step(r, "record")
        /\ UNCHANGED <<totp, failed, age, confirmed, crossed, peak>>
    BY <1>2 DEF Authenticate
  <2> QED BY <2>1, MoveStep DEF AuthSteps
<1>3. CASE RecordSuccess(r)
  BY <1>3, MoveStep DEF RecordSuccess, AuthSteps
<1>4. CASE IssueToken(r)
  <2>1. /\ Step(r, "done") \/ Step(r, "last_login")
        /\ UNCHANGED <<totp, failed, age, confirmed, crossed, peak>>
    BY <1>4 DEF IssueToken
  <2> QED BY <2>1, MoveStep DEF AuthSteps
<1>5. CASE UpdateLastLogin(r)
  BY <1>5, MoveStep DEF UpdateLastLogin, AuthSteps
<1> QED BY <1>1, <1>2, <1>3, <1>4, <1>5

LEMMA UserStepKeepsInv ==
  ASSUME LoginInv, NEW r \in AuthRequests,
         \/ CompleteTwoFactor(r) \/ FindUser(r) \/ CreateUser(r) \/ FindTarget(r) \/ WriteUser(r) \/ RequestRaises(r)
  PROVE  LoginInv'
<1>1. CASE FindUser(r)
  <2>1. /\ Step(r, "done") \/ Step(r, "insert")
        /\ UNCHANGED <<totp, failed, age, confirmed, crossed, peak>>
    BY <1>1 DEF FindUser
  <2> QED BY <2>1, MoveStep DEF AuthSteps
<1>2. CASE FindTarget(r)
  <2>1. /\ Step(r, "done") \/ Step(r, "write")
        /\ UNCHANGED <<totp, failed, age, confirmed, crossed, peak>>
    BY <1>2 DEF FindTarget
  <2> QED BY <2>1, MoveStep DEF AuthSteps
<1>3. CASE CompleteTwoFactor(r) \/ CreateUser(r) \/ WriteUser(r) \/ RequestRaises(r)
  <2>1. Step(r, "done") /\ UNCHANGED <<totp, failed, age, confirmed, crossed, peak>>
    BY <1>3 DEF CompleteTwoFactor, CreateUser, WriteUser, RequestRaises
  <2> QED BY <2>1, MoveStep DEF AuthSteps
<1> QED BY <1>1, <1>2, <1>3

\* A pre-auth token expires.
LEMMA PreAuthExpiresKeepsInv ==
  ASSUME LoginInv, NEW n \in Names, PreAuthExpires(n)
  PROVE  LoginInv'
<1>1. UNCHANGED <<areq, totp, failed, age, confirmed, crossed, peak>>
  BY DEF PreAuthExpires
<1>2. LoginTypes' /\ LoginsOnly'
  BY <1>1 DEF LoginInv, LoginTypes, LoginsOnly
<1>3. PastCheck' = PastCheck /\ Counted' = Counted
  BY <1>1 DEF PastCheck, Counted, InWindow
<1> QED BY <1>1, <1>2, <1>3, OtherStep

-----------------------------------------------------------------------------

\* What every state of the logins satisfies.
THEOREM LoginInvariant == AuthSpec => []LoginInv
<1>1. AuthInit => LoginInv
  <2> SUFFICES ASSUME AuthInit PROVE LoginInv
    OBVIOUS
  <2>1. /\ areq = [r \in AuthRequests |-> Blank(r)] /\ totp = [n \in Names |-> NoTotp]
        /\ failed = {} /\ age = [r \in AuthRequests |-> "minute"] /\ peak = 0
    BY DEF AuthInit
  <2>2. \A r \in AuthRequests : areq[r] \in AuthRequest /\ areq[r].step = "idle"
    BY <2>1, BlankType
  <2>3. LoginTypes
    BY <2>1, <2>2 DEF LoginTypes, Ages
  <2>4. LoginsOnly /\ ConfirmsHoldASecret
    BY <2>2 DEF LoginsOnly, ConfirmsHoldASecret
  <2>5. PastCheck = {} /\ Counted = {}
    BY <2>1, <2>2 DEF PastCheck, Counted, InWindow
  <2>6. FailuresAreCounted
    BY <2>1, <2>5, FS_EmptySet, AuthConstants DEF FailuresAreCounted
  <2>7. EnabledSecretIsConfirmed
    BY <2>1 DEF EnabledSecretIsConfirmed, NoTotp
  <2> QED BY <2>3, <2>4, <2>6, <2>7 DEF LoginInv
<1>2. LoginInv /\ [AuthNext]_authVars => LoginInv'
  <2> SUFFICES ASSUME LoginInv, [AuthNext]_authVars PROVE LoginInv'
    OBVIOUS
  <2>1. CASE UNCHANGED authVars
    <3>1. UNCHANGED <<areq, totp, failed, age, confirmed, crossed, peak>>
      BY <2>1 DEF authVars
    <3>2. LoginTypes' /\ LoginsOnly'
      BY <3>1 DEF LoginInv, LoginTypes, LoginsOnly
    <3>3. PastCheck' = PastCheck /\ Counted' = Counted
      BY <3>1 DEF PastCheck, Counted, InWindow
    <3> QED BY <3>1, <3>2, <3>3, OtherStep
  <2>2. ASSUME NEW r \in AuthRequests,
               \E kind \in AuthKinds, n \in Names, p \in Processes, w \in Passwords, c \in AuthRequests, on \in BOOLEAN :
                  Arrive(r, kind, n, p, w, c, on)
        PROVE  LoginInv'
    BY <2>2, ArriveKeepsInv
  <2>3. ASSUME NEW r \in AuthRequests,
               \/ CheckLockout(r) \/ CheckMinute(r) \/ Authenticate(r) \/ RecordFailure(r)
               \/ RecordSuccess(r) \/ IssueToken(r) \/ UpdateLastLogin(r)
        PROVE  LoginInv'
    BY <2>3, CheckLockoutKeepsInv, RecordFailureKeepsInv, LoginStepKeepsInv
  <2>4. ASSUME NEW r \in AuthRequests,
               SetupTwoFactor(r) \/ VerifyCode(r) \/ EnableTwoFactor(r)
        PROVE  LoginInv'
    BY <2>4, SetupTwoFactorKeepsInv, VerifyCodeKeepsInv, EnableTwoFactorKeepsInv
  <2>5. ASSUME NEW r \in AuthRequests,
               \/ CompleteTwoFactor(r) \/ FindUser(r) \/ CreateUser(r) \/ FindTarget(r) \/ WriteUser(r)
               \/ RequestRaises(r)
        PROVE  LoginInv'
    BY <2>5, UserStepKeepsInv
  <2>6. ASSUME NEW r \in AuthRequests, TimePasses(r) PROVE LoginInv'
    BY <2>6, TimePassesKeepsInv
  <2>7. ASSUME NEW n \in Names, PreAuthExpires(n) PROVE LoginInv'
    BY <2>7, PreAuthExpiresKeepsInv
  <2>8. ASSUME NEW p \in Processes, RestartProcess(p) PROVE LoginInv'
    BY <2>8, RestartProcessKeepsInv
  <2> QED BY <2>1, <2>2, <2>3, <2>4, <2>5, <2>6, <2>7, <2>8 DEF AuthNext
<1> QED BY <1>1, <1>2, PTL DEF AuthSpec

\* A user keeps the shape of a row when one of its columns is written; a
\* name without a row has no columns to write.
LEMMA UserColumns ==
  ASSUME NEW u \in User \union {NoUser}, NEW b \in BOOLEAN, NEW w \in Passwords
  PROVE  /\ [u EXCEPT !.last_login = TRUE] \in User \union {NoUser}
         /\ [u EXCEPT !.is_active = b] \in User \union {NoUser}
         /\ [u EXCEPT !.password = w] \in User \union {NoUser}
<1>1. CASE u \in User
  BY <1>1 DEF User
<1>2. CASE u = NoUser
  <2>1. [u EXCEPT !.last_login = TRUE] = NoUser
    BY <1>2 DEF NoUser
  <2>2. [u EXCEPT !.is_active = b] = NoUser
    BY <1>2 DEF NoUser
  <2>3. [u EXCEPT !.password = w] = NoUser
    BY <1>2 DEF NoUser
  <2> QED BY <2>1, <2>2, <2>3
<1> QED BY <1>1, <1>2

\* The tables, the deques and the tokens keep their types.
THEOREM LoginTypesHold == AuthSpec => []AuthTypeOK
<1> DEFINE Rest == /\ user \in [Names -> User \union {NoUser}]
                   /\ attempts \in [Processes -> SUBSET AuthRequests]
                   /\ preAuth \subseteq Names /\ access \subseteq Names
                   /\ confirmed \subseteq AuthRequests /\ crossed \subseteq AuthRequests
<1>1. AuthInit => Rest
  <2> SUFFICES ASSUME AuthInit PROVE Rest
    OBVIOUS
  <2>1. user \in [Names -> User \union {NoUser}]
    <3>1. (CHOOSE w \in Passwords : TRUE) \in Passwords
      BY AuthConstants
    <3>2. [exists |-> TRUE, is_active |-> TRUE, last_login |-> FALSE,
           password |-> CHOOSE w \in Passwords : TRUE] \in User
      BY <3>1 DEF User
    <3> QED BY <3>2 DEF AuthInit
  <2> QED BY <2>1 DEF AuthInit
<1>2. LoginInv /\ Rest /\ [AuthNext]_authVars => Rest'
  <2> SUFFICES ASSUME LoginInv, Rest, [AuthNext]_authVars PROVE Rest'
    OBVIOUS
  <2>1. \A r \in AuthRequests : /\ areq[r].name \in Names /\ areq[r].proc \in Processes
                                /\ areq[r].pass \in Passwords /\ areq[r].active \in BOOLEAN
    BY DEF LoginInv, LoginTypes, AuthRequest
  <2>2. \A n \in Names : totp[n].exists => totp[n].secret \in AuthRequests
    <3> TAKE n \in Names
    <3>1. totp[n] \in Totp \union {NoTotp}
      BY DEF LoginInv, LoginTypes
    <3>2. CASE totp[n] \in Totp
      BY <3>2 DEF Totp
    <3>3. CASE totp[n] = NoTotp
      BY <3>3 DEF NoTotp
    <3> QED BY <3>1, <3>2, <3>3
  <2>3. CASE UNCHANGED <<user, attempts, preAuth, access, confirmed, crossed>>
    BY <2>3
  <2>4. ASSUME NEW r \in AuthRequests, CheckMinute(r) \/ Authenticate(r) PROVE Rest'
    BY <2>1, <2>4 DEF CheckMinute, Authenticate, InMinute
  <2>5. ASSUME NEW r \in AuthRequests, IssueToken(r) \/ CompleteTwoFactor(r) PROVE Rest'
    BY <2>1, <2>5 DEF IssueToken, CompleteTwoFactor
  <2>6. ASSUME NEW r \in AuthRequests, SetupTwoFactor(r) \/ VerifyCode(r) PROVE Rest'
    BY <2>1, <2>2, <2>6 DEF SetupTwoFactor, VerifyCode
  <2>7. ASSUME NEW r \in AuthRequests, UpdateLastLogin(r) \/ CreateUser(r) \/ WriteUser(r) PROVE Rest'
    <3> DEFINE n == areq[r].name
               u == user[n]
    <3>1. n \in Names /\ u \in User \union {NoUser} /\ areq[r].active \in BOOLEAN /\ areq[r].pass \in Passwords
      BY <2>1
    <3>2. [exists |-> TRUE, is_active |-> TRUE, last_login |-> FALSE, password |-> areq[r].pass] \in User
      BY <3>1 DEF User
    <3>3. \/ UNCHANGED user
          \/ \E v \in User \union {NoUser} : user' = [user EXCEPT ![n] = v]
      <4>1. CASE UpdateLastLogin(r)
        <5>1. user' = [user EXCEPT ![n] = [u EXCEPT !.last_login = TRUE]]
          BY <4>1 DEF UpdateLastLogin
        <5> QED BY <3>1, <5>1, UserColumns
      <4>2. CASE CreateUser(r)
        BY <3>2, <4>2 DEF CreateUser
      <4>3. CASE WriteUser(r)
        <5>1. \/ user' = [user EXCEPT ![n] = [u EXCEPT !.is_active = areq[r].active]]
              \/ user' = [user EXCEPT ![n] = [u EXCEPT !.password = areq[r].pass]]
          BY <4>3 DEF WriteUser
        <5> QED BY <3>1, <5>1, UserColumns
      <4> QED BY <2>7, <4>1, <4>2, <4>3
    <3>4. user' \in [Names -> User \union {NoUser}]
      BY <3>1, <3>3
    <3>5. /\ UNCHANGED <<attempts, preAuth, confirmed, crossed>>
          /\ access' \subseteq Names
      BY <2>7, <3>1 DEF UpdateLastLogin, CreateUser, WriteUser
    <3> QED BY <3>4, <3>5
  <2>8. ASSUME NEW n \in Names, PreAuthExpires(n) PROVE Rest'
    BY <2>8 DEF PreAuthExpires
  <2>9. ASSUME NEW p \in Processes, RestartProcess(p) PROVE Rest'
    BY <2>9 DEF RestartProcess
  <2>10. ASSUME NEW r \in AuthRequests,
                \/ \E kind \in AuthKinds, n \in Names, p \in Processes, w \in Passwords, c \in AuthRequests, on \in BOOLEAN :
                      Arrive(r, kind, n, p, w, c, on)
                \/ CheckLockout(r) \/ RecordFailure(r) \/ RecordSuccess(r) \/ EnableTwoFactor(r)
                \/ FindUser(r) \/ FindTarget(r) \/ TimePasses(r) \/ RequestRaises(r)
         PROVE  UNCHANGED <<user, attempts, preAuth, access, confirmed, crossed>>
    BY <2>10 DEF Arrive, CheckLockout, RecordFailure, RecordSuccess, EnableTwoFactor, FindUser,
                 FindTarget, TimePasses, RequestRaises
  <2>11. CASE UNCHANGED authVars
    BY <2>3, <2>11 DEF authVars
  <2> HIDE DEF Rest
  <2> QED BY <2>3, <2>4, <2>5, <2>6, <2>7, <2>8, <2>9, <2>10, <2>11 DEF AuthNext
<1>3. LoginInv /\ Rest => AuthTypeOK
  BY DEF LoginInv, LoginTypes, AuthTypeOK
<1> HIDE DEF Rest
<1> QED BY <1>1, <1>2, <1>3, LoginInvariant, PTL DEF AuthSpec

\* Failures in the window stay below the limit and the logins that overlapped.
THEOREM FailuresStayBounded == AuthSpec => []FailuresAreBounded
<1>1. ASSUME LoginInv PROVE FailuresAreBounded
  <2>1. InWindow \in SUBSET AuthRequests /\ Counted \in SUBSET AuthRequests /\ InWindow \subseteq Counted
    BY <1>1 DEF LoginInv, LoginTypes, InWindow, PastCheck, Counted
  <2>2. /\ Cardinality(InWindow) <= Cardinality(Counted)
        /\ Cardinality(InWindow) \in Nat /\ Cardinality(Counted) \in Nat
    BY <2>1, RequestsAreFinite, FS_Subset
  <2> QED BY <1>1, <2>2, AuthConstants DEF LoginInv, LoginTypes, FailuresAreCounted, FailuresAreBounded
<1> QED BY <1>1, LoginInvariant, PTL

\* A second factor in force was confirmed, or set up behind a confirm's back.
THEOREM EnabledSecretsAreConfirmed == AuthSpec => []EnabledSecretIsConfirmed
<1>1. LoginInv => EnabledSecretIsConfirmed
  BY DEF LoginInv
<1> QED BY <1>1, LoginInvariant, PTL

-----------------------------------------------------------------------------
(***************************************************************************)
(* The session of the panel                                                *)
(***************************************************************************)

\* A call answered 401 was made with a token the server does not accept, and
\* no call was made with a token that has not been issued.
CallsAreTrue ==
    \A c \in PanelCalls :
        /\ call[c].token \in 0..issued
        /\ call[c].status = "401" => call[c].token \notin valid

\* The form is lost only to a login that succeeded; the login's own call is
\* in flight only after that.
FormIsGivenBack ==
    /\ login = "idle" /\ ~granted => form
    /\ \A c \in PanelCalls : InFlight(c) /\ call[c].by = "login" => granted

PanelInv == PanelTypeOK /\ TimersFollowTheTab /\ CallsAreTrue /\ FormIsGivenBack

LEMMA CallTypes ==
  ASSUME PanelTypeOK
  PROVE  /\ token \in 0..MaxTokens /\ issued \in Nat /\ MaxTokens \in Nat /\ issued <= MaxTokens
         /\ NoCallHere \in CallRecord
  BY PanelConstants DEF PanelTypeOK, NoCallHere, CallRecord

\* What a call put in flight looks like.
LEMMA IssueFacts ==
  ASSUME NEW cs \in [PanelCalls -> CallRecord], NEW c \in PanelCalls, NEW t \in 0..MaxTokens,
         NEW by \in {"view", "login", "start"}
  PROVE  /\ Issue(cs, c, t, by) \in [PanelCalls -> CallRecord]
         /\ Issue(cs, c, t, by)[c].token = t /\ Issue(cs, c, t, by)[c].by = by
         /\ Issue(cs, c, t, by)[c].status = "sent"
         /\ \A d \in PanelCalls : d # c => Issue(cs, c, t, by)[d] = cs[d]
  BY DEF Issue, CallRecord

\* A call that is made, with a token that was issued.
LEMMA CallMade ==
  ASSUME PanelInv, NEW c \in PanelCalls, NEW t \in 0..issued, NEW by \in {"view", "login", "start"},
         call' = Issue(call, c, t, by), valid' = valid, issued' = issued, granted' = granted,
         by = "login" => granted
  PROVE  /\ call' \in [PanelCalls -> CallRecord] /\ CallsAreTrue'
         /\ \A d \in PanelCalls : InFlight(d)' /\ call'[d].by = "login" => granted'
<1>1. t \in 0..MaxTokens /\ call \in [PanelCalls -> CallRecord]
  BY CallTypes DEF PanelInv, PanelTypeOK
<1>2. /\ call' \in [PanelCalls -> CallRecord]
      /\ call'[c].token = t /\ call'[c].by = by /\ call'[c].status = "sent"
      /\ \A d \in PanelCalls : d # c => call'[d] = call[d]
  BY <1>1, IssueFacts
<1>3. CallsAreTrue'
  BY <1>2 DEF PanelInv, CallsAreTrue
<1>4. \A d \in PanelCalls : InFlight(d)' /\ call'[d].by = "login" => granted'
  BY <1>2 DEF PanelInv, FormIsGivenBack, InFlight
<1> QED
  BY <1>2, <1>3, <1>4

\* A call that is over.
LEMMA CallOver ==
  ASSUME PanelInv, NEW c \in PanelCalls, call' = [call EXCEPT ![c] = NoCallHere],
         valid' = valid, issued' = issued, granted' = granted
  PROVE  /\ call' \in [PanelCalls -> CallRecord] /\ CallsAreTrue'
         /\ \A d \in PanelCalls : InFlight(d)' /\ call'[d].by = "login" => granted'
<1>1. /\ call \in [PanelCalls -> CallRecord] /\ NoCallHere \in CallRecord /\ issued \in Nat
      /\ NoCallHere.token = 0 /\ NoCallHere.status = "free"
  BY CallTypes DEF PanelInv, PanelTypeOK, NoCallHere
<1>2. /\ call' \in [PanelCalls -> CallRecord] /\ call'[c] = NoCallHere
      /\ \A d \in PanelCalls : d # c => call'[d] = call[d]
  BY <1>1
<1>3. CallsAreTrue'
  BY <1>1, <1>2 DEF PanelInv, CallsAreTrue
<1>4. \A d \in PanelCalls : InFlight(d)' /\ call'[d].by = "login" => granted'
  BY <1>1, <1>2 DEF PanelInv, FormIsGivenBack, InFlight
<1> QED
  BY <1>2, <1>3, <1>4

LEMMA PanelStep == PanelInv /\ [PanelNext]_panelVars => PanelInv'
<1> SUFFICES ASSUME PanelInv, [PanelNext]_panelVars PROVE PanelInv'
  OBVIOUS
<1> USE DEF PanelInv
<1>1. CASE UNCHANGED panelVars
  BY <1>1 DEF panelVars, PanelTypeOK, TimersFollowTheTab, CallsAreTrue, FormIsGivenBack, InFlight
<1>2. CASE SubmitLogin \/ LoginRefused \/ LoginNeedsCode
  BY <1>2 DEF SubmitLogin, LoginRefused, LoginNeedsCode, PanelTypeOK, TimersFollowTheTab,
              CallsAreTrue, FormIsGivenBack, InFlight
<1>3. ASSUME NEW c \in PanelCalls, LoginGranted(c)
      PROVE  PanelInv'
  <2>1. /\ call \in [PanelCalls -> CallRecord] /\ issued \in Nat /\ issued + 1 \in 0..MaxTokens
        /\ issued' = issued + 1 /\ call' = Issue(call, c, issued + 1, "login") /\ granted'
        /\ valid \subseteq 1..issued /\ valid' = valid \cup {issued + 1}
    BY <1>3, CallTypes DEF LoginGranted, PanelTypeOK
  <2>2. /\ call' \in [PanelCalls -> CallRecord]
        /\ call'[c].token = issued + 1 /\ call'[c].status = "sent"
        /\ \A d \in PanelCalls : d # c => call'[d] = call[d]
    BY <2>1, IssueFacts
  <2>3. PanelTypeOK'
    <3>1. token' \in 0..issued' /\ issued' \in 0..MaxTokens /\ valid' \subseteq 1..issued'
      BY <1>3, <2>1 DEF LoginGranted
    <3>2. /\ preAuthTok' \in BOOLEAN /\ login' \in {"idle", "password", "code", "brand"}
          /\ granted' \in BOOLEAN
      BY <1>3, Zenon DEF LoginGranted
    <3>3. UNCHANGED <<screen, form, start, tab, timers, lost>>
      BY <1>3 DEF LoginGranted
    <3> QED
      BY <2>2, <3>1, <3>2, <3>3 DEF PanelTypeOK
  <2>4. TimersFollowTheTab'
    BY <1>3 DEF LoginGranted, TimersFollowTheTab
  <2>5. CallsAreTrue'
    BY <2>1, <2>2 DEF CallsAreTrue
  <2>6. FormIsGivenBack'
    BY <2>1 DEF FormIsGivenBack
  <2> QED
    BY <2>3, <2>4, <2>5, <2>6
<1>4. ASSUME NEW c \in PanelCalls, Reload(c)
      PROVE  PanelInv'
  <2> DEFINE none == [d \in PanelCalls |-> NoCallHere]
  <2>1. none \in [PanelCalls -> CallRecord] /\ \A d \in PanelCalls : none[d] = NoCallHere
    BY CallTypes
  <2>2. NoCallHere.token = 0 /\ NoCallHere.status = "free"
    BY DEF NoCallHere
  <2>3. /\ call' = IF token = 0 THEN none ELSE Issue(none, c, token, "start")
        /\ token' = token /\ valid' = valid /\ issued' = issued
    BY <1>4 DEF Reload
  <2> HIDE DEF none
  <2>4. CASE token = 0
    <3>1. call' \in [PanelCalls -> CallRecord] /\ \A d \in PanelCalls : call'[d] = NoCallHere
      BY <2>1, <2>3, <2>4
    <3>2. PanelTypeOK'
      BY <1>4, <3>1 DEF Reload, PanelTypeOK, Tabs, Loading, Refreshed
    <3>3. TimersFollowTheTab' /\ FormIsGivenBack'
      BY <1>4, <2>2, <3>1 DEF Reload, TimersFollowTheTab, FormIsGivenBack, InFlight
    <3>4. CallsAreTrue'
      BY <2>2, <2>3, <3>1, CallTypes DEF CallsAreTrue
    <3> QED
      BY <3>2, <3>3, <3>4
  <2>5. CASE token # 0
    <3>1. /\ call' \in [PanelCalls -> CallRecord]
          /\ call'[c].token = token /\ call'[c].status = "sent" /\ call'[c].by = "start"
          /\ \A d \in PanelCalls : d # c => call'[d] = NoCallHere
      BY <2>1, <2>3, <2>5, IssueFacts, CallTypes
    <3>2. PanelTypeOK'
      BY <1>4, <3>1 DEF Reload, PanelTypeOK, Tabs, Loading, Refreshed
    <3>3. TimersFollowTheTab' /\ FormIsGivenBack'
      BY <1>4, <2>2, <3>1 DEF Reload, TimersFollowTheTab, FormIsGivenBack, InFlight
    <3>4. CallsAreTrue'
      <4>1. token \in 0..issued /\ 0 \in 0..issued
        BY CallTypes DEF PanelTypeOK
      <4> QED
        BY <2>2, <2>3, <3>1, <4>1 DEF CallsAreTrue
    <3> QED
      BY <3>2, <3>3, <3>4
  <2> QED
    BY <2>4, <2>5
<1>5. ASSUME NEW c \in PanelCalls, NEW t \in Tabs, SelectTab(t, c)
      PROVE  PanelInv'
  <2>1. /\ token \in 0..issued
        /\ call' = Issue(call, c, token, "view") \/ call' = call
    BY <1>5 DEF SelectTab, PanelTypeOK
  <2>2. /\ call' \in [PanelCalls -> CallRecord] /\ CallsAreTrue'
        /\ \A d \in PanelCalls : InFlight(d)' /\ call'[d].by = "login" => granted'
    <3>1. CASE call' = Issue(call, c, token, "view")
      BY <1>5, <2>1, <3>1, CallMade DEF SelectTab
    <3>2. CASE call' = call
      BY <1>5, <3>2 DEF SelectTab, PanelTypeOK, CallsAreTrue, FormIsGivenBack, InFlight
    <3> QED
      BY <2>1, <3>1, <3>2
  <2>3. PanelTypeOK' /\ TimersFollowTheTab' /\ FormIsGivenBack'
    BY <1>5, <2>2 DEF SelectTab, PanelTypeOK, TimersFollowTheTab, FormIsGivenBack, TimersOf
  <2> QED
    BY <2>2, <2>3
<1>6. ASSUME NEW c \in PanelCalls, Press(c) \/ \E t \in Tabs : TimerFires(t, c)
      PROVE  PanelInv'
  <2>1. /\ call' = Issue(call, c, token, "view") /\ token \in 0..issued
        /\ UNCHANGED <<token, issued, valid, screen, form, preAuthTok, login, start, tab, timers,
                       granted, lost>>
    BY <1>6 DEF Press, TimerFires, PanelTypeOK
  <2>2. /\ call' \in [PanelCalls -> CallRecord] /\ CallsAreTrue'
        /\ \A d \in PanelCalls : InFlight(d)' /\ call'[d].by = "login" => granted'
    BY <2>1, CallMade
  <2>3. PanelTypeOK' /\ TimersFollowTheTab' /\ FormIsGivenBack'
    BY <2>1, <2>2 DEF PanelTypeOK, TimersFollowTheTab, FormIsGivenBack
  <2> QED
    BY <2>2, <2>3
<1>7. ASSUME NEW c \in PanelCalls, ServerAnswers(c)
      PROVE  PanelInv'
  <2> DEFINE answer == IF call[c].token \in valid THEN "200" ELSE "401"
  <2>1. /\ call \in [PanelCalls -> CallRecord] /\ call[c] \in CallRecord /\ call[c].status = "sent"
        /\ call' = [call EXCEPT ![c].status = answer]
    BY <1>7 DEF ServerAnswers, PanelTypeOK
  <2>2. /\ call' \in [PanelCalls -> CallRecord] /\ call'[c].status = answer
        /\ call'[c].token = call[c].token /\ call'[c].by = call[c].by
        /\ \A d \in PanelCalls : d # c => call'[d] = call[d]
    BY <2>1 DEF CallRecord
  <2>3. CallsAreTrue'
    BY <1>7, <2>2 DEF ServerAnswers, CallsAreTrue
  <2>4. PanelTypeOK' /\ TimersFollowTheTab'
    BY <1>7, <2>2 DEF ServerAnswers, PanelTypeOK, TimersFollowTheTab
  <2>5. FormIsGivenBack'
    BY <1>7, <2>1, <2>2 DEF ServerAnswers, FormIsGivenBack, InFlight
  <2> QED
    BY <2>3, <2>4, <2>5
<1>8. ASSUME NEW c \in PanelCalls, ViewAnswer(c)
      PROVE  PanelInv'
  <2>1. /\ call' \in [PanelCalls -> CallRecord] /\ CallsAreTrue'
        /\ \A d \in PanelCalls : InFlight(d)' /\ call'[d].by = "login" => granted'
    BY <1>8, CallOver DEF ViewAnswer
  <2>2. PanelTypeOK'
    <3>1. token' \in 0..issued /\ UNCHANGED <<issued, valid, form, login, start, tab, granted>>
      BY <1>8, CallTypes DEF ViewAnswer, PanelTypeOK
    <3>2. timers' \subseteq Refreshed /\ screen' \in {"login", "panel"}
      BY <1>8 DEF ViewAnswer, PanelTypeOK
    <3>3. preAuthTok' \in BOOLEAN /\ lost' \in BOOLEAN
      BY <1>8, Zenon DEF ViewAnswer, PanelTypeOK
    <3> QED
      BY <2>1, <3>1, <3>2, <3>3 DEF PanelTypeOK
  <2>3. TimersFollowTheTab' /\ FormIsGivenBack'
    BY <1>8, <2>1 DEF ViewAnswer, TimersFollowTheTab, FormIsGivenBack
  <2> QED
    BY <2>1, <2>2, <2>3
<1>9. ASSUME NEW c \in PanelCalls, BrandAnswer(c)
      PROVE  PanelInv'
  <2>1. token' \in 0..issued /\ call' = Issue(call, c, token', "view")
    BY <1>9, CallTypes DEF BrandAnswer, PanelTypeOK
  <2>2. /\ call' \in [PanelCalls -> CallRecord] /\ CallsAreTrue'
        /\ \A d \in PanelCalls : InFlight(d)' /\ call'[d].by = "login" => granted'
    BY <1>9, <2>1, CallMade DEF BrandAnswer
  <2>3. PanelTypeOK'
    BY <1>9, <2>1, <2>2 DEF BrandAnswer, PanelTypeOK, TimersOf, Refreshed, Tabs, Loading
  <2>4. TimersFollowTheTab' /\ FormIsGivenBack'
    BY <1>9, <2>2 DEF BrandAnswer, TimersFollowTheTab, FormIsGivenBack
  <2> QED
    BY <2>2, <2>3, <2>4
<1>10. ASSUME NEW t \in 1..MaxTokens, TokenExpires(t)
       PROVE  PanelInv'
  BY <1>10 DEF TokenExpires, PanelTypeOK, TimersFollowTheTab, CallsAreTrue, FormIsGivenBack, InFlight
<1> QED
  BY <1>1, <1>2, <1>3, <1>4, <1>5, <1>6, <1>7, <1>8, <1>9, <1>10 DEF PanelNext

LEMMA PanelInitInv == PanelInit => PanelInv
<1> SUFFICES ASSUME PanelInit PROVE PanelInv
  OBVIOUS
<1>1. NoCallHere.token = 0 /\ NoCallHere.status = "free" /\ NoCallHere \in CallRecord
  BY PanelConstants DEF NoCallHere, CallRecord
<1>2. call \in [PanelCalls -> CallRecord] /\ \A c \in PanelCalls : call[c] = NoCallHere
  BY <1>1 DEF PanelInit
<1>3. /\ token \in 0..issued /\ issued \in 0..MaxTokens /\ valid \subseteq 1..issued
      /\ tab \in Tabs /\ timers \subseteq Refreshed
  BY PanelConstants DEF PanelInit, Tabs, Loading, Refreshed
<1>4. PanelTypeOK
  BY <1>2, <1>3 DEF PanelInit, PanelTypeOK
<1>5. TimersFollowTheTab /\ FormIsGivenBack
  BY <1>1, <1>2 DEF PanelInit, TimersFollowTheTab, FormIsGivenBack, InFlight
<1>6. CallsAreTrue
  BY <1>1, <1>2, <1>3 DEF PanelInit, CallsAreTrue
<1> QED
  BY <1>4, <1>5, <1>6 DEF PanelInv

\* The token, the calls in flight and the rest of the page have their types.
THEOREM PanelTypes == PanelSpec => []PanelTypeOK
<1>1. PanelInv => PanelTypeOK
  BY DEF PanelInv
<1> QED
  BY <1>1, PanelInitInv, PanelStep, PTL DEF PanelSpec

\* One tab at most polls the server, the one that is shown, and none behind
\* the login screen, whatever calls end the session and in whichever order.
THEOREM OnlyTheTabPolls == PanelSpec => []TimersFollowTheTab
<1>1. PanelInv => TimersFollowTheTab
  BY DEF PanelInv
<1> QED
  BY <1>1, PanelInitInv, PanelStep, PTL DEF PanelSpec

\* Until a login has succeeded, the form can be filled in whenever it is on
\* the screen and no login is under way.
THEOREM FormStaysUsable == PanelSpec => []FormIsUsable
<1>1. PanelInv => FormIsUsable
  BY DEF PanelInv, FormIsGivenBack, FormIsUsable
<1> QED
  BY <1>1, PanelInitInv, PanelStep, PTL DEF PanelSpec

\* A token the server accepts is dropped only by the 401 of a call that was
\* made with another token.
THEOREM ValidTokensAreKept == PanelSpec => ValidTokenIsKept
<1> DEFINE Kept == (token \in valid /\ token' = 0) =>
                       \E c \in PanelCalls : call[c].status = "401" /\ call[c].token # token
<1>1. PanelInv /\ [PanelNext]_panelVars => [Kept]_panelVars
  <2> SUFFICES ASSUME PanelInv, PanelNext, token \in valid, token' = 0
               PROVE  \E c \in PanelCalls : call[c].status = "401" /\ call[c].token # token
    OBVIOUS
  <2>1. token # 0 /\ issued + 1 # 0
    BY CallTypes DEF PanelInv, PanelTypeOK
  <2>2. PICK c \in PanelCalls : (ViewAnswer(c) \/ BrandAnswer(c)) /\ call[c].status = "401"
    BY <2>1 DEF PanelNext, SubmitLogin, LoginRefused, LoginNeedsCode, LoginGranted, Reload, SelectTab,
                TimerFires, Press, ServerAnswers, ViewAnswer, BrandAnswer, TokenExpires
  <2>3. call[c].token \notin valid
    BY <2>2 DEF PanelInv, CallsAreTrue
  <2> QED
    BY <2>2, <2>3
<1> QED
  BY <1>1, PanelInitInv, PanelStep, PTL DEF PanelSpec, ValidTokenIsKept

-----------------------------------------------------------------------------
(***************************************************************************)
(* The views of the panel                                                  *)
(***************************************************************************)

TraceCalls == [op : {"trace"}, lead : Leads \cup {None}]
ControlCalls == [op : {"control"}, take : BOOLEAN]
FileCalls == [op : {"read", "generate", "text"}, file : Files]
SourceCalls == [op : {"load", "write"}]
AuditCalls == [op : {"audit"}, offset : 0..Pages]

\* The handlers that begin a view afresh.
Fresh == {"trace", "read", "load", "audit"}

AtMostOneOpen == \A s, t \in Slots : sent[s] # Free /\ sent[t] # Free => s = t

\* The lead asked for and the button, while nothing overlaps: a search or a
\* press is alone, and a press is of a button that was true.
ConversationInv ==
    /\ page \in Conversation
    /\ sent \in [Slots -> {Free} \cup TraceCalls \cup ControlCalls]
    /\ ~mixed =>
         /\ AtMostOneOpen
         /\ \A s \in Slots : sent[s].op = "trace" => sent[s].lead = page.asked
         /\ \A s \in Slots : sent[s].op = "control" => page.card /\ sent[s].take = ~page.human
         /\ page.card /\ (\A s \in Slots : sent[s].op # "trace") =>
               page.search /\ page.lead = page.asked /\ (page.button => page.take = ~page.human)

\* A call of the generator is about the file that is selected, also while the
\* file is read and templates are generated at once.
CsvInv ==
    /\ page \in Csv
    /\ sent \in [Slots -> {Free} \cup FileCalls]
    /\ ~mixed =>
         /\ \A s \in Slots : sent[s] # Free => sent[s].file = page.file
         /\ \A s \in Slots : sent[s].op = "text" => page.blob = sent[s].file
         /\ page.blob # None => page.blob = page.file
         /\ page.preview # None => page.preview = page.blob
         /\ (\A s \in Slots : sent[s].op # "read") => page.shown = page.file

\* A write holds knowledgeLoading, and no load is under way to reset it.
KnowledgeViewInv ==
    /\ page \in Sources
    /\ sent \in [Slots -> {Free} \cup SourceCalls]
    /\ ~mixed => \A s \in Slots : sent[s].op = "write" =>
         /\ page.loading
         /\ \A t \in Slots : sent[t].op # "load" /\ (sent[t].op = "write" => s = t)

\* auditOffset is that of the call under way.
AuditInv ==
    /\ page \in Audit
    /\ sent \in [Slots -> {Free} \cup AuditCalls]
    /\ ~mixed =>
         /\ AtMostOneOpen
         /\ \A s \in Slots : sent[s].op = "audit" => sent[s].offset = page.offset
         /\ (\A s \in Slots : sent[s] = Free) => page.label = page.entries

ViewInv ==
    /\ view \in Views /\ mixed \in BOOLEAN
    /\ view = "conversation" => ConversationInv
    /\ view = "csv" => CsvInv
    /\ view = "knowledge" => KnowledgeViewInv
    /\ view = "audit" => AuditInv

\* Calls are told apart by what they ask for.
LEMMA CallKinds ==
  /\ Free.op = "free"
  /\ \A x \in TraceCalls : x.op = "trace" /\ x.lead \in Leads \cup {None} /\ x # Free
  /\ \A x \in ControlCalls : x.op = "control" /\ x.take \in BOOLEAN /\ x # Free
  /\ \A x \in FileCalls : x.op \in {"read", "generate", "text"} /\ x.file \in Files /\ x # Free
  /\ \A x \in SourceCalls : x.op \in {"load", "write"} /\ x # Free
  /\ \A x \in AuditCalls : x.op = "audit" /\ x.offset \in 0..Pages /\ x # Free
<1>1. Free.op = "free"
  BY DEF Free
<1>2. \A x \in TraceCalls : x.op = "trace" /\ x.lead \in Leads \cup {None} /\ x # Free
  BY <1>1 DEF TraceCalls
<1>3. \A x \in ControlCalls : x.op = "control" /\ x.take \in BOOLEAN /\ x # Free
  BY <1>1 DEF ControlCalls
<1>4. \A x \in FileCalls : x.op \in {"read", "generate", "text"} /\ x.file \in Files /\ x # Free
  BY <1>1 DEF FileCalls
<1>5. \A x \in SourceCalls : x.op \in {"load", "write"} /\ x # Free
  BY <1>1 DEF SourceCalls
<1>6. \A x \in AuditCalls : x.op = "audit" /\ x.offset \in 0..Pages /\ x # Free
  BY <1>1 DEF AuditCalls
<1> QED
  BY <1>1, <1>2, <1>3, <1>4, <1>5, <1>6

\* Asking: the call is in its slot.
LEMMA AskFacts ==
  ASSUME NEW C, sent \in [Slots -> C], NEW s \in Slots, NEW what \in C,
         sent' = [sent EXCEPT ![s] = what]
  PROVE  /\ sent' \in [Slots -> C]
         /\ sent'[s] = what /\ \A t \in Slots : t # s => sent'[t] = sent[t]
  OBVIOUS

\* An answer: the slot is free.
LEMMA AnsweredFacts ==
  ASSUME NEW C, sent \in [Slots -> {Free} \cup C], NEW s \in Slots, Answered(s)
  PROVE  /\ sent' \in [Slots -> {Free} \cup C]
         /\ sent'[s] = Free /\ \A t \in Slots : t # s => sent'[t] = sent[t]
         /\ view' = view /\ mixed' = mixed
  BY DEF Answered

-----------------------------------------------------------------------------
(* The audit log.                                                          *)

LEMMA AuditStep ==
  ASSUME view = "audit", AuditInv, mixed \in BOOLEAN, ViewNext
  PROVE  AuditInv' /\ view' = view /\ mixed' \in BOOLEAN
<1>1. \A s \in Slots : sent[s] = Free \/ sent[s] \in AuditCalls
  BY DEF AuditInv
<1>2. \A s \in Slots : sent[s].op \in {"free", "audit"} /\ (sent[s].op = "free" <=> sent[s] = Free)
  BY <1>1, CallKinds
<1>3. PICK s \in Slots : (\E offset \in 0..Pages : TurnPage(s, offset)) \/ AuditAnswer(s)
  BY <1>2 DEF ViewNext, SearchLead, TraceAnswer, PressControl, ControlAnswer, PickFile, FileRead,
              GenerateTemplates, GenerateAnswer, PreviewShown, LoadSources, WriteSource, WriteAnswer,
              LoadAnswer, ResetCsv
<1>4. ASSUME NEW offset \in 0..Pages, TurnPage(s, offset)
      PROVE  AuditInv' /\ view' = view /\ mixed' \in BOOLEAN
  <2> DEFINE what == [op |-> "audit", offset |-> offset]
  <2>1. what \in AuditCalls /\ what.op = "audit" /\ what.offset = offset
    BY DEF AuditCalls
  <2>2. /\ sent' = [sent EXCEPT ![s] = what] /\ view' = view
        /\ page' = [page EXCEPT !.offset = offset]
    BY <1>4 DEF TurnPage, Ask
  <2>3. mixed' \in BOOLEAN /\ (~mixed' => Open = {})
    BY <1>4, Zenon DEF TurnPage, Ask
  <2> HIDE DEF what
  <2>4. /\ sent' \in [Slots -> {Free} \cup AuditCalls]
        /\ sent'[s] = what /\ \A t \in Slots : t # s => sent'[t] = sent[t]
    BY <2>1, <2>2, AskFacts DEF AuditInv
  <2>5. page' \in Audit /\ page'.offset = offset
    BY <2>2 DEF AuditInv, Audit
  <2>6. ~mixed' => \A t \in Slots : sent[t] = Free
    BY <2>3 DEF Open
  <2> QED
    BY <2>1, <2>2, <2>3, <2>4, <2>5, <2>6, CallKinds DEF AuditInv, AtMostOneOpen
<1>5. CASE AuditAnswer(s)
  <2>1. sent[s].op = "audit" /\ Answered(s) /\ sent[s] \in AuditCalls /\ sent[s].offset \in 0..Pages
    BY <1>1, <1>5, CallKinds DEF AuditAnswer
  <2>2. /\ sent' \in [Slots -> {Free} \cup AuditCalls]
        /\ sent'[s] = Free /\ \A t \in Slots : t # s => sent'[t] = sent[t]
        /\ view' = view /\ mixed' = mixed
    BY <2>1, AnsweredFacts DEF AuditInv
  <2>3. /\ page' \in Audit /\ page'.offset = page.offset
        /\ \/ page'.entries = sent[s].offset /\ page'.label = page.offset
           \/ page'.entries = page'.label
    <3>1. CASE page' = [page EXCEPT !.entries = None, !.label = None]
      BY <3>1 DEF AuditInv, Audit
    <3>2. ASSUME NEW full \in BOOLEAN,
                 page' = [page EXCEPT !.entries = sent[s].offset, !.label = page.offset,
                                      !.prev = page.offset # 0, !.next = full]
          PROVE  page' \in Audit /\ page'.offset = page.offset
                 /\ page'.entries = sent[s].offset /\ page'.label = page.offset
      BY <2>1, <3>2 DEF AuditInv, Audit
    <3> QED
      BY <1>5, <3>1, <3>2 DEF AuditAnswer
  <2> QED
    BY <2>1, <2>2, <2>3, CallKinds DEF AuditInv, AtMostOneOpen
<1> QED
  BY <1>3, <1>4, <1>5

-----------------------------------------------------------------------------
(* The knowledge sources.                                                  *)

LEMMA KnowledgeStep ==
  ASSUME view = "knowledge", KnowledgeViewInv, mixed \in BOOLEAN, ViewNext
  PROVE  KnowledgeViewInv' /\ view' = view /\ mixed' \in BOOLEAN
<1>1. \A s \in Slots : sent[s] = Free \/ sent[s] \in SourceCalls
  BY DEF KnowledgeViewInv
<1>2. \A s \in Slots : sent[s].op \in {"free", "load", "write"} /\ (sent[s].op = "free" <=> sent[s] = Free)
  BY <1>1, CallKinds
<1>3. PICK s \in Slots : LoadSources(s) \/ WriteSource(s) \/ WriteAnswer(s) \/ LoadAnswer(s)
  BY <1>2 DEF ViewNext, SearchLead, TraceAnswer, PressControl, ControlAnswer, PickFile, FileRead,
              GenerateTemplates, GenerateAnswer, PreviewShown, TurnPage, AuditAnswer, ResetCsv
<1>4. CASE LoadSources(s)
  <2> DEFINE load == [op |-> "load"]
  <2>1. load \in SourceCalls /\ load.op = "load"
    BY DEF SourceCalls
  <2>2. sent' = [sent EXCEPT ![s] = load] /\ view' = view /\ page' \in Sources
    BY <1>4 DEF LoadSources, Sources, Ask
  <2>3. mixed' \in BOOLEAN /\ (~mixed' => Awaiting("write") = {})
    BY <1>4, Zenon DEF LoadSources, Ask
  <2> HIDE DEF load
  <2>4. /\ sent' \in [Slots -> {Free} \cup SourceCalls]
        /\ sent'[s] = load /\ \A t \in Slots : t # s => sent'[t] = sent[t]
    BY <2>1, <2>2, AskFacts DEF KnowledgeViewInv
  <2>5. ~mixed' => \A t \in Slots : sent[t].op # "write"
    BY <2>3 DEF Awaiting
  <2> QED
    BY <2>1, <2>2, <2>3, <2>4, <2>5 DEF KnowledgeViewInv
<1>5. CASE WriteSource(s)
  <2> DEFINE write == [op |-> "write"]
  <2>1. write \in SourceCalls /\ write.op = "write"
    BY DEF SourceCalls
  <2>2. /\ sent' = [sent EXCEPT ![s] = write] /\ view' = view
        /\ page' \in Sources /\ page'.loading /\ ~page.loading
    BY <1>5 DEF WriteSource, Sources, Ask
  <2>3. mixed' = (Awaiting("load") # {} \/ (mixed /\ ~(Open = {} /\ write.op \in Fresh)))
    BY <1>5 DEF WriteSource, Ask, Fresh
  <2>4. write.op \notin Fresh
    BY <2>1 DEF Fresh
  <2> HIDE DEF write
  <2>5. mixed' \in BOOLEAN /\ (~mixed' => ~mixed /\ Awaiting("load") = {})
    BY <2>3, <2>4, Zenon
  <2>6. /\ sent' \in [Slots -> {Free} \cup SourceCalls]
        /\ sent'[s] = write /\ \A t \in Slots : t # s => sent'[t] = sent[t]
    BY <2>1, <2>2, AskFacts DEF KnowledgeViewInv
  <2>7. ~mixed' => \A t \in Slots : sent[t].op # "load"
    BY <2>5 DEF Awaiting
  <2> QED
    BY <2>1, <2>2, <2>5, <2>6, <2>7 DEF KnowledgeViewInv
<1>6. CASE WriteAnswer(s)
  <2>1. sent[s].op = "write" /\ sent[s] \in SourceCalls
    BY <1>1, <1>6, CallKinds DEF WriteAnswer
  <2>2. CASE page' = [loading |-> FALSE] /\ Answered(s)
    <3>1. /\ sent' \in [Slots -> {Free} \cup SourceCalls]
          /\ sent'[s] = Free /\ \A t \in Slots : t # s => sent'[t] = sent[t]
          /\ view' = view /\ mixed' = mixed
      BY <2>2, AnsweredFacts DEF KnowledgeViewInv
    <3>2. page' \in Sources
      BY <2>2 DEF Sources
    <3> QED
      BY <2>1, <3>1, <3>2, CallKinds DEF KnowledgeViewInv
  <2>3. CASE /\ page' = [loading |-> TRUE]
             /\ sent' = [sent EXCEPT ![s].op = "load"]
             /\ mixed' = (mixed \/ Awaiting("write") # {s})
             /\ view' = view
    <3>1. [sent[s] EXCEPT !.op = "load"] \in SourceCalls /\ [sent[s] EXCEPT !.op = "load"].op = "load"
      BY <2>1 DEF SourceCalls
    <3>2. /\ sent' \in [Slots -> {Free} \cup SourceCalls]
          /\ sent'[s].op = "load" /\ \A t \in Slots : t # s => sent'[t] = sent[t]
      BY <2>3, <3>1 DEF KnowledgeViewInv
    <3>3. mixed' \in BOOLEAN /\ (~mixed' => ~mixed)
      BY <2>3, Zenon
    <3>4. page' \in Sources
      BY <2>3 DEF Sources
    <3> QED
      BY <2>1, <2>3, <3>2, <3>3, <3>4 DEF KnowledgeViewInv
  <2> QED
    BY <1>6, <2>2, <2>3 DEF WriteAnswer
<1>7. CASE LoadAnswer(s)
  <2>1. sent[s].op = "load" /\ Answered(s) /\ page' \in Sources
    BY <1>7 DEF LoadAnswer, Sources
  <2>2. /\ sent' \in [Slots -> {Free} \cup SourceCalls]
        /\ sent'[s] = Free /\ \A t \in Slots : t # s => sent'[t] = sent[t]
        /\ view' = view /\ mixed' = mixed
    BY <2>1, AnsweredFacts DEF KnowledgeViewInv
  <2> QED
    BY <2>1, <2>2, CallKinds DEF KnowledgeViewInv
<1> QED
  BY <1>3, <1>4, <1>5, <1>6, <1>7

-----------------------------------------------------------------------------
(* The CSV generator.                                                      *)

LEMMA CsvStep ==
  ASSUME view = "csv", CsvInv, mixed \in BOOLEAN, ViewNext
  PROVE  CsvInv' /\ view' = view /\ mixed' \in BOOLEAN
<1>1. \A s \in Slots : sent[s] = Free \/ sent[s] \in FileCalls
  BY DEF CsvInv
<1>2. \A s \in Slots : /\ sent[s].op \in {"free", "read", "generate", "text"}
                       /\ sent[s].op = "free" <=> sent[s] = Free
  BY <1>1, CallKinds
<1>3. \/ \E s \in Slots : \/ \E f \in Files : PickFile(s, f)
                          \/ FileRead(s) \/ GenerateTemplates(s) \/ GenerateAnswer(s) \/ PreviewShown(s)
      \/ ResetCsv
  BY <1>2 DEF ViewNext, SearchLead, TraceAnswer, PressControl, ControlAnswer, LoadSources, WriteSource,
              WriteAnswer, LoadAnswer, TurnPage, AuditAnswer
<1>4. ASSUME mixed' = (mixed \/ Open # {})
      PROVE  mixed' \in BOOLEAN /\ (~mixed' => ~mixed /\ Open = {})
  BY <1>4, Zenon
<1>5. CASE ResetCsv
  <2>1. /\ page' \in Csv /\ page'.blob = None /\ page'.preview = None /\ page'.shown = page'.file
        /\ sent' = sent /\ view' = view
    BY <1>5 DEF ResetCsv, CsvInv, Csv
  <2>2. mixed' \in BOOLEAN /\ (~mixed' => ~mixed /\ \A s \in Slots : sent[s] = Free)
    BY <1>4, <1>5 DEF ResetCsv, Open
  <2> QED
    BY <2>1, <2>2, <1>2 DEF CsvInv
<1>6. ASSUME NEW s \in Slots, NEW f \in Files, PickFile(s, f)
      PROVE  CsvInv' /\ view' = view /\ mixed' \in BOOLEAN
  <2> DEFINE what == [op |-> "read", file |-> f]
  <2>1. what \in FileCalls /\ what.op = "read" /\ what.file = f
    BY DEF FileCalls
  <2>2. CASE Ask(s, what, Open # {}) /\ page' = [page EXCEPT !.file = f, !.blob = None, !.preview = None]
    <3>1. sent' = [sent EXCEPT ![s] = what] /\ view' = view
      BY <2>2 DEF Ask
    <3>2. mixed' \in BOOLEAN /\ (~mixed' => Open = {})
      BY <2>2, Zenon DEF Ask
    <3>3. page' \in Csv /\ page'.file = f /\ page'.blob = None /\ page'.preview = None
      BY <2>2 DEF CsvInv, Csv
    <3> HIDE DEF what
    <3>4. /\ sent' \in [Slots -> {Free} \cup FileCalls]
          /\ sent'[s] = what /\ \A t \in Slots : t # s => sent'[t] = sent[t]
      BY <2>1, <3>1, AskFacts DEF CsvInv
    <3>5. ~mixed' => \A t \in Slots : sent[t] = Free
      BY <3>2 DEF Open
    <3> QED
      BY <2>1, <3>1, <3>2, <3>3, <3>4, <3>5, CallKinds DEF CsvInv
  <2>3. CASE /\ page' = [page EXCEPT !.blob = None, !.preview = None] /\ UNCHANGED <<view, sent>>
             /\ mixed' = (mixed \/ Open # {})
    <3>1. /\ page' \in Csv /\ page'.file = page.file /\ page'.shown = page.shown
          /\ page'.blob = None /\ page'.preview = None
      BY <2>3 DEF CsvInv, Csv
    <3>2. mixed' \in BOOLEAN /\ (~mixed' => ~mixed /\ \A t \in Slots : sent[t] = Free)
      BY <1>4, <2>3 DEF Open
    <3> QED
      BY <1>2, <2>3, <3>1, <3>2 DEF CsvInv
  <2> QED
    BY <1>6, <2>2, <2>3 DEF PickFile
<1>7. ASSUME NEW s \in Slots, FileRead(s)
      PROVE  CsvInv' /\ view' = view /\ mixed' \in BOOLEAN
  <2>1. sent[s].op = "read" /\ Answered(s) /\ sent[s] \in FileCalls /\ sent[s] # Free /\ sent[s].file \in Files
    BY <1>1, <1>7, CallKinds DEF FileRead
  <2>2. /\ page' \in Csv /\ page'.shown = sent[s].file
        /\ page'.file = page.file /\ page'.blob = page.blob /\ page'.preview = page.preview
    BY <1>7, <2>1 DEF FileRead, CsvInv, Csv
  <2>3. /\ sent' \in [Slots -> {Free} \cup FileCalls]
        /\ sent'[s] = Free /\ \A t \in Slots : t # s => sent'[t] = sent[t]
        /\ view' = view /\ mixed' = mixed
    BY <2>1, AnsweredFacts DEF CsvInv
  <2> QED
    BY <2>1, <2>2, <2>3, CallKinds DEF CsvInv
<1>8. ASSUME NEW s \in Slots, GenerateTemplates(s)
      PROVE  CsvInv' /\ view' = view /\ mixed' \in BOOLEAN
  <2> DEFINE what == [op |-> "generate", file |-> page.file]
  <2>1. page.file \in Files /\ what \in FileCalls /\ what.op = "generate" /\ what.file = page.file
    BY <1>8 DEF GenerateTemplates, FileCalls, CsvInv, Csv
  <2>2. sent' = [sent EXCEPT ![s] = what] /\ sent[s] = Free /\ view' = view
    BY <1>8 DEF GenerateTemplates, Ask
  <2>3. mixed' = (FALSE \/ (mixed /\ ~(Open = {} /\ what.op \in Fresh)))
    BY <1>8 DEF GenerateTemplates, Ask, Fresh
  <2>4. what.op \notin Fresh
    BY <2>1 DEF Fresh
  <2>5. /\ page' \in Csv /\ page'.file = page.file /\ page'.shown = page.shown
        /\ page'.blob = page.blob /\ page'.preview = page.preview
    BY <1>8 DEF GenerateTemplates, CsvInv, Csv
  <2> HIDE DEF what
  <2>6. mixed' \in BOOLEAN /\ (~mixed' => ~mixed)
    BY <2>3, <2>4, Zenon
  <2>7. /\ sent' \in [Slots -> {Free} \cup FileCalls]
        /\ sent'[s] = what /\ \A t \in Slots : t # s => sent'[t] = sent[t]
    BY <2>1, <2>2, AskFacts DEF CsvInv
  <2> QED
    BY <2>1, <2>2, <2>5, <2>6, <2>7, CallKinds DEF CsvInv
<1>9. ASSUME NEW s \in Slots, GenerateAnswer(s)
      PROVE  CsvInv' /\ view' = view /\ mixed' \in BOOLEAN
  <2>1. sent[s].op = "generate" /\ sent[s] \in FileCalls /\ sent[s] # Free /\ sent[s].file \in Files
    BY <1>1, <1>9, CallKinds DEF GenerateAnswer
  <2>2. CASE page' = [page EXCEPT !.generate = TRUE] /\ Answered(s)
    <3>1. /\ page' \in Csv /\ page'.file = page.file /\ page'.shown = page.shown
          /\ page'.blob = page.blob /\ page'.preview = page.preview
      BY <2>2 DEF CsvInv, Csv
    <3>2. /\ sent' \in [Slots -> {Free} \cup FileCalls]
          /\ sent'[s] = Free /\ \A t \in Slots : t # s => sent'[t] = sent[t]
          /\ view' = view /\ mixed' = mixed
      BY <2>2, AnsweredFacts DEF CsvInv
    <3> QED
      BY <2>1, <3>1, <3>2, CallKinds DEF CsvInv
  <2>3. CASE /\ page' = [page EXCEPT !.blob = sent[s].file]
             /\ sent' = [sent EXCEPT ![s].op = "text"]
             /\ UNCHANGED <<view, mixed>>
    <3> DEFINE what == [sent[s] EXCEPT !.op = "text"]
    <3>1. what \in FileCalls /\ what.op = "text" /\ what.file = sent[s].file
      BY <2>1 DEF FileCalls
    <3>2. sent' = [sent EXCEPT ![s] = what]
      BY <2>3
    <3>3. /\ page' \in Csv /\ page'.file = page.file /\ page'.shown = page.shown
          /\ page'.blob = sent[s].file /\ page'.preview = page.preview
      BY <2>1, <2>3 DEF CsvInv, Csv
    <3> HIDE DEF what
    <3>4. /\ sent' \in [Slots -> {Free} \cup FileCalls]
          /\ sent'[s] = what /\ \A t \in Slots : t # s => sent'[t] = sent[t]
      BY <3>1, <3>2, AskFacts DEF CsvInv
    <3>5. ~mixed => /\ sent[s].file = page.file
                    /\ \A t \in Slots : sent'[t] # Free => sent'[t].file = page.file
      BY <2>1, <3>1, <3>4 DEF CsvInv
    <3>6. ~mixed' => \A t \in Slots : sent'[t].op = "text" => page'.blob = sent'[t].file
      BY <2>3, <3>3, <3>5, CallKinds
    <3> QED
      BY <2>1, <2>3, <3>1, <3>3, <3>4, <3>5, <3>6 DEF CsvInv
  <2> QED
    BY <1>9, <2>2, <2>3 DEF GenerateAnswer
<1>10. ASSUME NEW s \in Slots, PreviewShown(s)
       PROVE  CsvInv' /\ view' = view /\ mixed' \in BOOLEAN
  <2>1. /\ sent[s].op = "text" /\ Answered(s) /\ sent[s] \in FileCalls
        /\ sent[s] # Free /\ sent[s].file \in Files
    BY <1>1, <1>10, CallKinds DEF PreviewShown
  <2>2. /\ page' \in Csv /\ page'.preview = sent[s].file
        /\ page'.file = page.file /\ page'.blob = page.blob /\ page'.shown = page.shown
    BY <1>10, <2>1 DEF PreviewShown, CsvInv, Csv
  <2>3. /\ sent' \in [Slots -> {Free} \cup FileCalls]
        /\ sent'[s] = Free /\ \A t \in Slots : t # s => sent'[t] = sent[t]
        /\ view' = view /\ mixed' = mixed
    BY <2>1, AnsweredFacts DEF CsvInv
  <2> QED
    BY <2>1, <2>2, <2>3, CallKinds DEF CsvInv
<1> QED
  BY <1>3, <1>5, <1>6, <1>7, <1>8, <1>9, <1>10

-----------------------------------------------------------------------------
(* The conversation of a lead.                                             *)

LEMMA ConversationStep ==
  ASSUME view = "conversation", ConversationInv, mixed \in BOOLEAN, ViewNext
  PROVE  ConversationInv' /\ view' = view /\ mixed' \in BOOLEAN
<1> DEFINE C == {Free} \cup TraceCalls \cup ControlCalls
<1>1. sent \in [Slots -> C] /\ \A s \in Slots : sent[s] = Free \/ sent[s] \in TraceCalls \/ sent[s] \in ControlCalls
  BY DEF ConversationInv
<1>2. \A s \in Slots : /\ sent[s].op \in {"free", "trace", "control"}
                       /\ sent[s].op = "free" <=> sent[s] = Free
                       /\ sent[s].op = "trace" => sent[s] \in TraceCalls
                       /\ sent[s].op = "control" => sent[s] \in ControlCalls
  BY <1>1, CallKinds
<1>3. ASSUME NEW s \in Slots, Answered(s)
      PROVE  /\ sent' \in [Slots -> C]
             /\ sent'[s] = Free /\ \A t \in Slots : t # s => sent'[t] = sent[t]
             /\ view' = view /\ mixed' = mixed
  BY <1>1, <1>3, AnsweredFacts
<1>4. PICK s \in Slots : \/ \E l \in Leads : SearchLead(s, l)
                         \/ TraceAnswer(s) \/ PressControl(s) \/ ControlAnswer(s)
  BY <1>2 DEF ViewNext, PickFile, FileRead, GenerateTemplates, GenerateAnswer, PreviewShown, ResetCsv,
              LoadSources, WriteSource, WriteAnswer, LoadAnswer, TurnPage, AuditAnswer
<1>5. ASSUME NEW l \in Leads, SearchLead(s, l)
      PROVE  ConversationInv' /\ view' = view /\ mixed' \in BOOLEAN
  <2> DEFINE what == [op |-> "trace", lead |-> l]
  <2>1. what \in TraceCalls /\ what.op = "trace" /\ what.lead = l
    BY DEF TraceCalls
  <2>2. sent' = [sent EXCEPT ![s] = what] /\ view' = view
    BY <1>5 DEF SearchLead, Ask
  <2>3. mixed' \in BOOLEAN /\ (~mixed' => Open = {})
    BY <1>5, Zenon DEF SearchLead, Ask
  <2>4. page' \in Conversation /\ page'.asked = l
    BY <1>5 DEF SearchLead, ConversationInv, Conversation
  <2> HIDE DEF what
  <2>5. /\ sent' \in [Slots -> C]
        /\ sent'[s] = what /\ \A t \in Slots : t # s => sent'[t] = sent[t]
    BY <1>1, <2>1, <2>2, AskFacts
  <2>6. ~mixed' => \A t \in Slots : sent[t] = Free
    BY <2>3 DEF Open
  <2> QED
    BY <2>1, <2>2, <2>3, <2>4, <2>5, <2>6, CallKinds DEF ConversationInv, AtMostOneOpen
<1>6. CASE TraceAnswer(s)
  <2>1. sent[s].op = "trace" /\ Answered(s) /\ sent[s] # Free /\ sent[s].lead \in Leads \cup {None}
    BY <1>2, <1>6, CallKinds DEF TraceAnswer
  <2>2. /\ sent' \in [Slots -> C]
        /\ sent'[s] = Free /\ \A t \in Slots : t # s => sent'[t] = sent[t]
        /\ view' = view /\ mixed' = mixed
    BY <1>3, <2>1
  <2>3. /\ page' \in Conversation /\ page'.asked = page.asked
        /\ \/ ~page'.card
           \/ page'.search /\ page'.lead = sent[s].lead /\ page'.take = ~page'.human
    <3>1. ASSUME NEW human \in BOOLEAN, page' = Shown(sent[s].lead, human)
          PROVE  /\ page' \in Conversation /\ page'.asked = page.asked
                 /\ page'.search /\ page'.lead = sent[s].lead /\ page'.take = ~page'.human
      BY <2>1, <3>1 DEF Shown, ConversationInv, Conversation
    <3>2. CASE \/ page' = [page EXCEPT !.lead = None, !.card = FALSE, !.search = TRUE]
               \/ page' = [page EXCEPT !.card = FALSE, !.search = TRUE]
      BY <3>2 DEF ConversationInv, Conversation
    <3> QED
      BY <1>6, <3>1, <3>2 DEF TraceAnswer
  <2> QED
    BY <2>1, <2>2, <2>3, CallKinds DEF ConversationInv, AtMostOneOpen
<1>7. CASE PressControl(s)
  <2> DEFINE what == [op |-> "control", take |-> ~page.human]
  <2>1. what \in ControlCalls /\ what.op = "control" /\ what.take = ~page.human
    BY DEF ControlCalls, ConversationInv, Conversation
  <2>2. sent' = [sent EXCEPT ![s] = what] /\ view' = view /\ page.card
    BY <1>7 DEF PressControl, Ask
  <2>3. mixed' = (Open # {} \/ (mixed /\ ~(Open = {} /\ what.op \in Fresh)))
    BY <1>7 DEF PressControl, Ask, Fresh
  <2>4. what.op \notin Fresh
    BY <2>1 DEF Fresh
  <2>5. /\ page' \in Conversation /\ ~page'.button /\ page'.card = page.card /\ page'.human = page.human
        /\ page'.search = page.search /\ page'.lead = page.lead /\ page'.asked = page.asked
    BY <1>7 DEF PressControl, ConversationInv, Conversation
  <2> HIDE DEF what
  <2>6. mixed' \in BOOLEAN /\ (~mixed' => ~mixed /\ Open = {})
    BY <2>3, <2>4, Zenon
  <2>7. /\ sent' \in [Slots -> C]
        /\ sent'[s] = what /\ \A t \in Slots : t # s => sent'[t] = sent[t]
    BY <1>1, <2>1, <2>2, AskFacts
  <2>8. ~mixed' => \A t \in Slots : sent[t] = Free
    BY <2>6 DEF Open
  <2> QED
    BY <2>1, <2>2, <2>5, <2>6, <2>7, <2>8, CallKinds DEF ConversationInv, AtMostOneOpen
<1>8. CASE ControlAnswer(s)
  <2>1. sent[s].op = "control" /\ sent[s] # Free /\ sent[s].take \in BOOLEAN
    BY <1>2, <1>8, CallKinds DEF ControlAnswer
  <2>2. CASE page' = [page EXCEPT !.button = TRUE, !.take = sent[s].take] /\ Answered(s)
    <3>1. /\ sent' \in [Slots -> C]
          /\ sent'[s] = Free /\ \A t \in Slots : t # s => sent'[t] = sent[t]
          /\ view' = view /\ mixed' = mixed
      BY <1>3, <2>2
    <3>2. /\ page' \in Conversation /\ page'.take = sent[s].take
          /\ page'.card = page.card /\ page'.human = page.human
          /\ page'.search = page.search /\ page'.lead = page.lead /\ page'.asked = page.asked
      BY <2>1, <2>2 DEF ConversationInv, Conversation
    <3>3. ~mixed => /\ \A t \in Slots : sent[t] # Free => t = s
                    /\ page.card /\ sent[s].take = ~page.human
                    /\ page.search /\ page.lead = page.asked
      <4>1. ~mixed => AtMostOneOpen /\ page.card /\ sent[s].take = ~page.human
        BY <2>1 DEF ConversationInv
      <4>2. ~mixed => \A t \in Slots : sent[t].op # "trace"
        BY <2>1, <4>1, CallKinds DEF AtMostOneOpen
      <4> QED
        BY <2>1, <4>1, <4>2 DEF ConversationInv, AtMostOneOpen
    <3> QED
      BY <2>1, <3>1, <3>2, <3>3, CallKinds DEF ConversationInv, AtMostOneOpen
  <2>3. CASE /\ page' = [page EXCEPT !.search = FALSE]
             /\ sent' = [sent EXCEPT ![s] = [op |-> "trace", lead |-> page.lead]]
             /\ UNCHANGED <<view, mixed>>
    <3> DEFINE what == [op |-> "trace", lead |-> page.lead]
    <3>1. what \in TraceCalls /\ what.op = "trace" /\ what.lead = page.lead
      BY DEF TraceCalls, ConversationInv, Conversation
    <3>2. sent' = [sent EXCEPT ![s] = what]
      BY <2>3
    <3>3. page' \in Conversation /\ page'.asked = page.asked
      BY <2>3 DEF ConversationInv, Conversation
    <3> HIDE DEF what
    <3>4. /\ sent' \in [Slots -> C]
          /\ sent'[s] = what /\ \A t \in Slots : t # s => sent'[t] = sent[t]
      BY <1>1, <3>1, <3>2, AskFacts
    <3>5. ~mixed => /\ \A t \in Slots : sent[t] # Free => t = s
                    /\ page.lead = page.asked
      <4>1. ~mixed => AtMostOneOpen /\ page.card
        BY <2>1 DEF ConversationInv
      <4>2. ~mixed => \A t \in Slots : sent[t].op # "trace"
        BY <2>1, <4>1, CallKinds DEF AtMostOneOpen
      <4> QED
        BY <2>1, <4>1, <4>2 DEF ConversationInv, AtMostOneOpen
    <3> QED
      BY <2>3, <3>1, <3>3, <3>4, <3>5, CallKinds DEF ConversationInv, AtMostOneOpen
  <2> QED
    BY <1>8, <2>2, <2>3 DEF ControlAnswer
<1> QED
  BY <1>4, <1>5, <1>6, <1>7, <1>8

-----------------------------------------------------------------------------

LEMMA ViewInitInv == ViewInit => ViewInv
<1> SUFFICES ASSUME ViewInit PROVE ViewInv
  OBVIOUS
<1>1. /\ view \in Views /\ mixed = FALSE /\ page = StartPage
      /\ sent = [s \in Slots |-> Free]
  BY DEF ViewInit
<1>2. \A s \in Slots : sent[s] = Free /\ sent[s].op = "free"
  BY <1>1, CallKinds
<1>3. CASE view = "conversation"
  <2>1. page = [lead |-> None, human |-> FALSE, card |-> FALSE, take |-> TRUE, button |-> TRUE,
                search |-> TRUE, asked |-> None]
    BY <1>1, <1>3, Zenon DEF StartPage
  <2>2. page \in Conversation /\ ~page.card
    BY <2>1 DEF Conversation
  <2> QED
    BY <1>1, <1>2, <1>3, <2>2 DEF ViewInv, ConversationInv, AtMostOneOpen
<1>4. CASE view = "csv"
  <2>1. page = [file |-> None, shown |-> None, blob |-> None, preview |-> None, generate |-> TRUE]
    BY <1>1, <1>4, Zenon DEF StartPage
  <2>2. page \in Csv /\ page.blob = None /\ page.preview = None /\ page.shown = page.file
    BY <2>1 DEF Csv
  <2> QED
    BY <1>1, <1>2, <1>4, <2>2 DEF ViewInv, CsvInv
<1>5. CASE view = "knowledge"
  <2>1. page = [loading |-> FALSE]
    BY <1>1, <1>5, Zenon DEF StartPage
  <2>2. page \in Sources
    BY <2>1 DEF Sources
  <2> QED
    BY <1>1, <1>2, <1>5, <2>2 DEF ViewInv, KnowledgeViewInv
<1>6. CASE view = "audit"
  <2>1. page = [offset |-> 0, entries |-> None, label |-> None, prev |-> FALSE, next |-> FALSE]
    BY <1>1, <1>6, Zenon DEF StartPage
  <2>2. page \in Audit /\ page.label = page.entries
    BY <2>1, ViewConstants DEF Audit
  <2> QED
    BY <1>1, <1>2, <1>6, <2>2 DEF ViewInv, AuditInv, AtMostOneOpen
<1> QED
  BY <1>1, <1>3, <1>4, <1>5, <1>6 DEF Views

\* What every state of a view satisfies.
THEOREM ViewInvariant == ViewSpec => []ViewInv
<1>1. ViewInv /\ [ViewNext]_viewVars => ViewInv'
  <2> SUFFICES ASSUME ViewInv, [ViewNext]_viewVars PROVE ViewInv'
    OBVIOUS
  <2>1. CASE UNCHANGED viewVars
    BY <2>1 DEF viewVars, ViewInv, ConversationInv, CsvInv, KnowledgeViewInv, AuditInv, AtMostOneOpen
  <2>2. CASE ViewNext
    <3>1. view \in Views /\ mixed \in BOOLEAN
      BY DEF ViewInv
    <3>2. CASE view = "conversation"
      BY <2>2, <3>1, <3>2, ConversationStep DEF ViewInv
    <3>3. CASE view = "csv"
      BY <2>2, <3>1, <3>3, CsvStep DEF ViewInv
    <3>4. CASE view = "knowledge"
      BY <2>2, <3>1, <3>4, KnowledgeStep DEF ViewInv
    <3>5. CASE view = "audit"
      BY <2>2, <3>1, <3>5, AuditStep DEF ViewInv
    <3> QED
      BY <3>1, <3>2, <3>3, <3>4, <3>5 DEF Views
  <2> QED
    BY <2>1, <2>2
<1> QED
  BY <1>1, ViewInitInv, PTL DEF ViewSpec

\* Each view's variables and calls have their types.
THEOREM ViewTypes == ViewSpec => []ViewTypeOK
<1>1. ASSUME ViewInv PROVE ViewTypeOK
  <2>1. sent \in [Slots -> ViewCalls]
    BY <1>1 DEF ViewInv, Views, ConversationInv, CsvInv, KnowledgeViewInv, AuditInv, ViewCalls,
                TraceCalls, ControlCalls, FileCalls, SourceCalls, AuditCalls
  <2>2. /\ view = "conversation" => page \in Conversation
        /\ view = "csv" => page \in Csv
        /\ view = "knowledge" => page \in Sources
        /\ view = "audit" => page \in Audit
        /\ view \in Views /\ mixed \in BOOLEAN
    BY <1>1 DEF ViewInv, ConversationInv, CsvInv, KnowledgeViewInv, AuditInv
  <2> QED
    BY <2>1, <2>2 DEF ViewTypeOK, Views
<1> QED
  BY <1>1, ViewInvariant, PTL

\* As long as its calls have not overlapped, what a view shows and does is
\* about what it shows.
THEOREM ViewsStayTrue == ViewSpec => []ViewsAreTrue
<1>1. ASSUME ViewInv PROVE ViewsAreTrue
  <2>1. ControlIsTrue
    BY <1>1 DEF ViewInv, ConversationInv, ControlIsTrue, Awaiting
  <2>2. DownloadIsOfTheFile
    BY <1>1 DEF ViewInv, CsvInv, DownloadIsOfTheFile, Awaiting
  <2>3. PageLabelIsTrue
    <3> SUFFICES ASSUME view = "audit", ~mixed, Awaiting("audit") = {} PROVE page.label = page.entries
      BY DEF PageLabelIsTrue
    <3>1. AuditInv
      BY <1>1 DEF ViewInv
    <3>2. \A s \in Slots : sent[s] = Free
      BY <3>1, CallKinds DEF AuditInv, Awaiting
    <3> QED
      BY <3>1, <3>2 DEF AuditInv
  <2>4. OneWriteAtATime
    <3> SUFFICES ASSUME view = "knowledge", ~mixed PROVE Cardinality(Awaiting("write")) <= 1
      BY DEF OneWriteAtATime
    <3>1. \A s, t \in Awaiting("write") : s = t
      BY <1>1 DEF ViewInv, KnowledgeViewInv, Awaiting
    <3>2. CASE Awaiting("write") = {}
      BY <3>2, FS_EmptySet
    <3>3. ASSUME NEW s \in Awaiting("write") PROVE Cardinality(Awaiting("write")) <= 1
      <4>1. Awaiting("write") = {s}
        BY <3>1, <3>3
      <4> QED
        BY <4>1, FS_Singleton
    <3> QED
      BY <3>2, <3>3
  <2> QED
    BY <2>1, <2>2, <2>3, <2>4 DEF ViewsAreTrue
<1> QED
  BY <1>1, ViewInvariant, PTL

-----------------------------------------------------------------------------
(***************************************************************************)
(* The knowledge base.  That a source is one upload rests on the pieces of *)
(* a request that wrote chunks never changing again, that it is current on *)
(* what a request past its upsert still knows of the row it wrote.         *)
(***************************************************************************)

\* Chunks are written by requests that have ended.
BatchesAreDone == \A c \in chunks : req[c.batch].step = "done"

\* A row has the label of the request it is named after, so that two labels
\* have no row in common.
RowsHaveTheirLabel ==
    \A l \in Labels : source[l].present =>
        req[source[l].id].step # "idle" /\ req[source[l].id].label = l

\* So has the row a request past its upsert writes for.
IdsHaveTheirLabel ==
    \A r \in Requests : Committed(r) =>
        req[req[r].id].step # "idle" /\ req[req[r].id].label = req[r].label

\* index_document has no transaction of its own for the row.
KindsFit == \A r \in Requests : req[r].step \in {"list", "upsert", "replace"} => req[r].kind # "index"

\* Two requests at work on a label are an overlap.
OneAtWork ==
    \A q, r \in Requests : AtWork(q) /\ AtWork(r) /\ req[q].label = req[r].label =>
        q = r \/ req[r].label \in overlapped

\* Alone on its label, a request past its upsert finds the row it wrote.
CommittedRow ==
    \A r \in Requests : Committed(r) /\ req[r].label \notin overlapped =>
        /\ source[req[r].label].present
        /\ source[req[r].label].id = req[r].id
        /\ source[req[r].label].content_hash = req[r].pieces

\* Between an upsert and its chunks a row may be ahead of them, else not.
RowsAreCurrent ==
    \A l \in Labels \ (overlapped \union broken) :
        source[l].present /\ (\A r \in Requests : Committed(r) => req[r].label # l) =>
            PiecesOf(source[l].id) = source[l].content_hash

KnowledgeInv ==
    /\ KnowledgeTypeOK /\ SourceIsOneUpload /\ BatchesAreDone /\ RowsHaveTheirLabel
    /\ IdsHaveTheirLabel /\ KindsFit /\ OneAtWork /\ CommittedRow /\ RowsAreCurrent

-----------------------------------------------------------------------------
(* One request moves.                                                      *)

\* The requests but r are as they were, r keeps its label and has left idle.
OnlyMoves(r) ==
    /\ req' \in [Requests -> Request]
    /\ \A q \in Requests : q # r => req'[q] = req[q]
    /\ req[r].step # "idle" /\ req'[r].step # "idle"
    /\ req'[r].label = req[r].label

\* Goto moves one request and changes its step alone.
LEMMA GotoMoves ==
  ASSUME KnowledgeTypeOK, NEW r \in Requests, NEW s \in Steps \ {"idle"},
         req[r].step # "idle", Goto(r, s)
  PROVE  /\ OnlyMoves(r)
         /\ req'[r].step = s /\ req'[r].pieces = req[r].pieces
         /\ req'[r].id = req[r].id /\ req'[r].kind = req[r].kind
<1> DEFINE n == [req[r] EXCEPT !.step = s]
<1>1. req[r] \in Request
  BY DEF KnowledgeTypeOK
<1>2. /\ n \in Request /\ n.step = s /\ n.label = req[r].label /\ n.pieces = req[r].pieces
      /\ n.id = req[r].id /\ n.kind = req[r].kind
  BY <1>1 DEF Request
<1>3. req' = [req EXCEPT ![r] = n]
  BY DEF Goto
<1> HIDE DEF n
<1> QED BY <1>2, <1>3 DEF KnowledgeTypeOK, OnlyMoves

\* A source that is there has a row.
LEMMA RowFields ==
  ASSUME NEW row \in SourceRow \union {Absent}, row.present
  PROVE  row.id \in Requests /\ row.content_hash \in SUBSET Piece
<1>1. ~Absent.present
  BY DEF Absent
<1>2. row # Absent
  BY <1>1
<1> QED BY <1>2 DEF SourceRow

LEMMA RowType ==
  ASSUME KnowledgeTypeOK, NEW l \in Labels, source[l].present
  PROVE  source[l].id \in Requests /\ source[l].content_hash \in SUBSET Piece
BY RowFields DEF KnowledgeTypeOK

\* Labels, chunks and requests are related by what a request keeps.
LEMMA MoveKeepsLabels ==
  ASSUME KnowledgeInv, NEW r \in Requests, OnlyMoves(r), AtWork(r)
  PROVE  /\ \A c \in chunks : c.batch # r /\ req'[c.batch] = req[c.batch]
         /\ \A l \in Labels : source[l].present =>
               req'[source[l].id].step # "idle" /\ req'[source[l].id].label = l
<1>1. \A c \in chunks : c.batch \in Requests
  BY DEF KnowledgeInv, KnowledgeTypeOK, Chunk
<1>2. \A l \in Labels : source[l].present => source[l].id \in Requests
  BY RowType DEF KnowledgeInv
<1>3. \A c \in chunks : c.batch # r /\ req'[c.batch] = req[c.batch]
  BY <1>1 DEF KnowledgeInv, BatchesAreDone, OnlyMoves, AtWork
<1>4. ASSUME NEW l \in Labels, source[l].present
      PROVE  req'[source[l].id].step # "idle" /\ req'[source[l].id].label = l
  BY <1>2, <1>4 DEF KnowledgeInv, RowsHaveTheirLabel, OnlyMoves
<1> QED BY <1>3, <1>4

\* What the invariant says of the requests outlives a move of a request at
\* work that overlaps nobody anew.
LEMMA MoveKeepsRequests ==
  ASSUME KnowledgeInv, NEW r \in Requests, OnlyMoves(r), AtWork(r), overlapped' = overlapped,
         Committed(r)' => IF Committed(r) THEN req'[r].id = req[r].id
                          ELSE /\ req'[r].id \in Requests
                               /\ req[req'[r].id].step # "idle"
                               /\ req[req'[r].id].label = req[r].label
  PROVE  IdsHaveTheirLabel' /\ OneAtWork'
<1>1. OneAtWork'
  BY DEF KnowledgeInv, OneAtWork, OnlyMoves, AtWork
<1>2. ASSUME NEW q \in Requests, Committed(q)'
      PROVE  req'[req'[q].id].step # "idle" /\ req'[req'[q].id].label = req'[q].label
  <2>1. CASE q # r
    <3>1. req'[q] = req[q] /\ Committed(q) /\ req[q].id \in Requests
      BY <1>2, <2>1 DEF OnlyMoves, Committed, KnowledgeInv, KnowledgeTypeOK, Request
    <3> QED BY <3>1 DEF KnowledgeInv, IdsHaveTheirLabel, OnlyMoves
  <2>2. CASE q = r
    <3>1. req[r].id \in Requests
      BY DEF KnowledgeInv, KnowledgeTypeOK, Request
    <3>2. /\ req'[r].id \in Requests /\ req[req'[r].id].step # "idle"
          /\ req[req'[r].id].label = req[r].label
      BY <1>2, <2>2, <3>1 DEF KnowledgeInv, IdsHaveTheirLabel
    <3> QED BY <2>2, <3>2 DEF OnlyMoves
  <2> QED BY <2>1, <2>2
<1> QED BY <1>1, <1>2 DEF IdsHaveTheirLabel

\* A step of a request that writes neither table.
LEMMA ReadStep ==
  ASSUME KnowledgeInv, NEW r \in Requests, OnlyMoves(r), AtWork(r),
         UNCHANGED <<source, chunks, overlapped>>,
         broken' = IF Committed(r) /\ ~Committed(r)' THEN broken \union {req[r].label} ELSE broken,
         Committed(r)' => Committed(r) /\ req'[r].id = req[r].id /\ req'[r].pieces = req[r].pieces,
         req'[r].step \in {"list", "upsert", "replace"} => req'[r].kind # "index"
  PROVE  KnowledgeInv'
<1>1. KnowledgeTypeOK'
  BY DEF KnowledgeInv, KnowledgeTypeOK, OnlyMoves, Request
<1>2. /\ \A c \in chunks : c.batch # r /\ req'[c.batch] = req[c.batch]
      /\ \A l \in Labels : source[l].present =>
            req'[source[l].id].step # "idle" /\ req'[source[l].id].label = l
  BY MoveKeepsLabels
<1>3. SourceIsOneUpload'
  BY <1>2 DEF KnowledgeInv, SourceIsOneUpload, PiecesOf, ChunksOf
<1>4. BatchesAreDone' /\ RowsHaveTheirLabel'
  BY <1>2 DEF KnowledgeInv, BatchesAreDone, RowsHaveTheirLabel
<1>5. IdsHaveTheirLabel' /\ OneAtWork'
  BY MoveKeepsRequests
<1>6. CommittedRow'
  BY DEF KnowledgeInv, CommittedRow, OnlyMoves, Committed
<1>7. RowsAreCurrent'
  <2> SUFFICES ASSUME NEW l \in Labels, l \notin overlapped, l \notin broken', source[l].present,
                      \A q \in Requests : Committed(q)' => req'[q].label # l
               PROVE  PiecesOf(source[l].id) = source[l].content_hash
    BY DEF RowsAreCurrent, PiecesOf, ChunksOf
  <2>1. l \notin broken
    OBVIOUS
  <2>2. \A q \in Requests : Committed(q) => req[q].label # l
    BY DEF OnlyMoves, Committed
  <2> QED BY <2>1, <2>2 DEF KnowledgeInv, RowsAreCurrent
<1>8. KindsFit'
  BY DEF KnowledgeInv, KindsFit, OnlyMoves
<1> QED BY <1>1, <1>3, <1>4, <1>5, <1>6, <1>7, <1>8 DEF KnowledgeInv

-----------------------------------------------------------------------------
(* The actions that write no table.                                        *)

\* reindex_source reads its chunks.
LEMMA ListChunksKeepsInv ==
  ASSUME KnowledgeInv, NEW r \in Requests, ListChunks(r)
  PROVE  KnowledgeInv'
<1> DEFINE pieces == {c.piece : c \in Searchable(req[r].label)}
           s == IF pieces = {} THEN "done" ELSE "upsert"
           n == [req[r] EXCEPT !.pieces = pieces, !.step = s]
<1>1. req[r] \in Request /\ req[r].step = "list"
  BY DEF KnowledgeInv, KnowledgeTypeOK, ListChunks
<1>2. pieces \subseteq Piece
  BY DEF KnowledgeInv, KnowledgeTypeOK, Searchable, ChunksOf, Chunk
<1>3. s \in {"done", "upsert"} /\ s \in Steps
  BY DEF Steps
<1>4. req' = [req EXCEPT ![r] = n] /\ UNCHANGED <<source, chunks, overlapped, broken>>
  BY DEF ListChunks
<1>5. n \in Request /\ n.step = s /\ n.label = req[r].label /\ n.kind = req[r].kind
  <2> HIDE DEF pieces, s
  <2> QED BY <1>1, <1>2, <1>3 DEF Request
<1> HIDE DEF pieces, s, n
<1>6. OnlyMoves(r) /\ AtWork(r) /\ ~Committed(r) /\ ~Committed(r)' /\ req'[r].kind # "index"
  BY <1>1, <1>3, <1>4, <1>5 DEF OnlyMoves, AtWork, Committed, KnowledgeInv, KnowledgeTypeOK, KindsFit
<1> QED BY <1>4, <1>6, ReadStep

\* The embeddings are computed.
LEMMA EmbedKeepsInv ==
  ASSUME KnowledgeInv, NEW r \in Requests, Embed(r)
  PROVE  KnowledgeInv'
<1> DEFINE s == IF req[r].kind = "index" THEN "index" ELSE "replace"
<1>1. Goto(r, s) /\ req[r].step = "embed" /\ UNCHANGED <<source, chunks, overlapped, broken>>
  BY DEF Embed
<1>2. s \in Steps \ {"idle"}
  BY DEF Steps
<1>3. /\ OnlyMoves(r) /\ req'[r].step = s /\ req'[r].pieces = req[r].pieces
      /\ req'[r].id = req[r].id /\ req'[r].kind = req[r].kind
  <2> HIDE DEF s
  <2> QED BY <1>1, <1>2, GotoMoves DEF KnowledgeInv
<1>4. AtWork(r) /\ (Committed(r)' <=> Committed(r)) /\ (req'[r].step = "replace" => req'[r].kind # "index")
  BY <1>1, <1>3 DEF AtWork, Committed
<1>5. req'[r].step \in {"list", "upsert", "replace"} => req'[r].kind # "index"
  BY <1>3, <1>4
<1> QED BY <1>1, <1>3, <1>4, <1>5, ReadStep

\* A call raises.
LEMMA RaiseKeepsInv ==
  ASSUME KnowledgeInv, NEW r \in Requests, Raise(r)
  PROVE  KnowledgeInv'
<1>1. /\ Goto(r, "failed") /\ AtWork(r) /\ req[r].step # "idle"
      /\ broken' = IF Committed(r) THEN broken \union {req[r].label} ELSE broken
      /\ UNCHANGED <<source, chunks, overlapped>>
  BY DEF Raise, AtWork
<1>2. OnlyMoves(r) /\ req'[r].step = "failed"
  BY <1>1, GotoMoves DEF KnowledgeInv, Steps
<1>3. ~Committed(r)' /\ req'[r].step \notin {"list", "upsert", "replace"}
  BY <1>2 DEF Committed
<1> QED BY <1>1, <1>2, <1>3, ReadStep

\* A request arrives: it has no row and no chunks yet, and if it is not alone
\* on its label, that is noted.
LEMMA BeginKeepsInv ==
  ASSUME KnowledgeInv, NEW r \in Requests, NEW kind \in Kinds, NEW l \in Labels, NEW d \in Docs,
         Begin(r, kind, l, d)
  PROVE  KnowledgeInv'
<1> DEFINE pieces == IF kind \in {"upload", "index"} THEN ExtractChunks(d) ELSE {}
           s == FirstStep(kind, pieces)
           n == [kind |-> kind, label |-> l, pieces |-> pieces, id |-> r, step |-> s]
<1>1. /\ req[r].step = "idle" /\ req' = [req EXCEPT ![r] = n]
      /\ overlapped' = IF Busy(l) THEN overlapped \union {l} ELSE overlapped
      /\ UNCHANGED <<source, chunks, broken>>
  BY DEF Begin
<1>2. pieces \subseteq Piece
  BY KnowledgeConstants DEF ExtractChunks, Piece
<1>3. s \in Steps /\ s # "idle" /\ s # "replace" /\ (s = "embed" => kind = "index")
      /\ (s \in {"list", "upsert", "replace"} => kind # "index")
  BY DEF FirstStep, Steps, Kinds
<1>4. n \in Request /\ n.step = s /\ n.kind = kind /\ n.label = l
  <2> HIDE DEF pieces, s
  <2> QED BY <1>2, <1>3 DEF Request
<1> HIDE DEF pieces, s, n
<1>5. /\ req' \in [Requests -> Request] /\ req'[r] = n
      /\ \A q \in Requests : q # r => req'[q] = req[q]
  BY <1>1, <1>4 DEF KnowledgeInv, KnowledgeTypeOK
<1>6. ~Committed(r)'
  BY <1>3, <1>4, <1>5 DEF Committed
<1>7. KnowledgeTypeOK'
  BY <1>1, <1>5 DEF KnowledgeInv, KnowledgeTypeOK, Request
<1>8. \A c \in chunks : c.batch # r /\ req'[c.batch] = req[c.batch]
  BY <1>1, <1>5 DEF KnowledgeInv, KnowledgeTypeOK, BatchesAreDone, Chunk
<1>9. SourceIsOneUpload' /\ BatchesAreDone'
  BY <1>1, <1>8 DEF KnowledgeInv, SourceIsOneUpload, BatchesAreDone, PiecesOf, ChunksOf
<1>10. RowsHaveTheirLabel'
  BY <1>1, <1>5, RowType DEF KnowledgeInv, RowsHaveTheirLabel
<1>11. IdsHaveTheirLabel'
  <2> SUFFICES ASSUME NEW q \in Requests, Committed(q)'
               PROVE  req'[req'[q].id].step # "idle" /\ req'[req'[q].id].label = req'[q].label
    BY DEF IdsHaveTheirLabel
  <2>1. q # r /\ req'[q] = req[q] /\ Committed(q) /\ req[q].id \in Requests
    BY <1>5, <1>6 DEF Committed, KnowledgeInv, KnowledgeTypeOK, Request
  <2>2. req[req[q].id].step # "idle" /\ req[req[q].id].label = req[q].label
    BY <2>1 DEF KnowledgeInv, IdsHaveTheirLabel
  <2> QED BY <1>1, <1>5, <2>1, <2>2
<1>12. OneAtWork'
  <2> SUFFICES ASSUME NEW p \in Requests, NEW q \in Requests, AtWork(p)', AtWork(q)',
                      req'[p].label = req'[q].label, p # q
               PROVE  req'[q].label \in overlapped'
    BY DEF OneAtWork
  <2>1. CASE p # r /\ q # r
    <3>1. AtWork(p) /\ AtWork(q) /\ req[p].label = req[q].label /\ req'[q].label = req[q].label
      BY <1>5, <2>1 DEF AtWork
    <3> QED BY <1>1, <3>1 DEF KnowledgeInv, OneAtWork
  <2>2. CASE p = r \/ q = r
    <3>1. PICK o \in {p, q} : o # r
      OBVIOUS
    <3>2. AtWork(o) /\ req[o].label = l
      BY <1>4, <1>5, <2>2, <3>1 DEF AtWork
    <3>3. Busy(l)
      BY <3>1, <3>2 DEF Busy
    <3> QED BY <1>1, <1>4, <1>5, <2>2, <3>3
  <2> QED BY <2>1, <2>2
<1>13. CommittedRow'
  BY <1>1, <1>5, <1>6 DEF KnowledgeInv, CommittedRow, Committed
<1>14. RowsAreCurrent'
  <2> SUFFICES ASSUME NEW m \in Labels, m \notin overlapped', m \notin broken, source[m].present,
                      \A q \in Requests : Committed(q)' => req'[q].label # m
               PROVE  PiecesOf(source[m].id) = source[m].content_hash
    BY <1>1 DEF RowsAreCurrent, PiecesOf, ChunksOf
  <2>1. \A q \in Requests : Committed(q) => req[q].label # m
    BY <1>1, <1>5 DEF Committed
  <2>2. m \notin overlapped
    BY <1>1
  <2> QED BY <2>1, <2>2 DEF KnowledgeInv, RowsAreCurrent
<1>15. KindsFit'
  BY <1>3, <1>4, <1>5 DEF KnowledgeInv, KindsFit
<1> QED BY <1>7, <1>9, <1>10, <1>11, <1>12, <1>13, <1>14, <1>15 DEF KnowledgeInv

-----------------------------------------------------------------------------
(* The transactions.                                                       *)

\* The row of a label that a request inserts or updates.
LEMMA RowWritten ==
  ASSUME KnowledgeInv, NEW r \in Requests, req[r].step # "idle", WriteRow(r, req[r].pieces)
  PROVE  /\ RowId(r) \in Requests /\ req[RowId(r)].step # "idle" /\ req[RowId(r)].label = req[r].label
         /\ source' \in [Labels -> SourceRow \union {Absent}]
         /\ source'[req[r].label].present
         /\ source'[req[r].label].id = RowId(r)
         /\ source'[req[r].label].content_hash = req[r].pieces
         /\ \A m \in Labels : m # req[r].label => source'[m] = source[m]
         /\ \A m \in Labels : source'[m].present =>
               /\ source'[m].id \in Requests
               /\ req[source'[m].id].step # "idle" /\ req[source'[m].id].label = m
         /\ \A m \in Labels : source[m].present => source'[m].present /\ source'[m].id = source[m].id
<1> DEFINE l == req[r].label
           id == RowId(r)
           row == [present |-> TRUE, id |-> id, content_hash |-> req[r].pieces]
<1>1. l \in Labels /\ req[r].pieces \in SUBSET Piece
  BY DEF KnowledgeInv, KnowledgeTypeOK, Request
<1>2. id \in Requests /\ req[id].step # "idle" /\ req[id].label = l
  <2>1. CASE source[l].present
    BY <1>1, <2>1, RowType DEF KnowledgeInv, RowsHaveTheirLabel, RowId
  <2>2. CASE ~source[l].present
    BY <2>2 DEF RowId
  <2> QED BY <2>1, <2>2
<1>3. source[l].present => id = source[l].id
  BY DEF RowId
<1>4. source' = [source EXCEPT ![l] = row] /\ source \in [Labels -> SourceRow \union {Absent}]
  BY DEF KnowledgeInv, KnowledgeTypeOK, WriteRow
<1> HIDE DEF id
<1>5. row \in SourceRow /\ row.present /\ row.id = id /\ row.content_hash = req[r].pieces
  BY <1>1, <1>2 DEF SourceRow
<1> HIDE DEF row
<1>6. /\ source' \in [Labels -> SourceRow \union {Absent}] /\ source'[l] = row
      /\ \A m \in Labels : m # l => source'[m] = source[m]
  BY <1>1, <1>4, <1>5
<1>7. ASSUME NEW m \in Labels, source'[m].present
      PROVE  source'[m].id \in Requests /\ req[source'[m].id].step # "idle" /\ req[source'[m].id].label = m
  BY <1>2, <1>5, <1>6, <1>7, RowType DEF KnowledgeInv, RowsHaveTheirLabel
<1>8. ASSUME NEW m \in Labels, source[m].present
      PROVE  source'[m].present /\ source'[m].id = source[m].id
  BY <1>3, <1>5, <1>6, <1>8
<1> QED BY <1>2, <1>5, <1>6, <1>7, <1>8 DEF id

\* PiecesOf, for other chunks than the present ones.
PiecesIn(cs, id) == {c.piece : c \in {d \in cs : d.owner = id}}

\* A request writes the chunks of a row: those of other rows stay, and the
\* row has the pieces of that request.
LEMMA ChunksWritten ==
  ASSUME KnowledgeInv, NEW r \in Requests, AtWork(r), OnlyMoves(r),
         req'[r].step = "done", req'[r].pieces = req[r].pieces,
         NEW id \in Requests, chunks' = (chunks \ ChunksOf(id)) \union NewChunks(r, id),
         \E l \in Labels : source'[l].present /\ source'[l].id = id,
         \A m \in Labels : source[m].present => source'[m].present /\ source'[m].id = source[m].id
  PROVE  /\ chunks' \subseteq Chunk
         /\ SourceIsOneUpload' /\ BatchesAreDone'
         /\ PiecesIn(chunks', id) = req[r].pieces
         /\ \A o \in Requests \ {id} : PiecesIn(chunks', o) = PiecesOf(o)
<1> DEFINE Made(p) == [owner |-> id, batch |-> r, piece |-> p]
<1>1. req[r].pieces \in SUBSET Piece
  BY DEF KnowledgeInv, KnowledgeTypeOK, Request
<1>2. \A p \in req[r].pieces : /\ Made(p) \in Chunk /\ Made(p).owner = id
                               /\ Made(p).batch = r /\ Made(p).piece = p
  BY <1>1 DEF Chunk
<1>3. NewChunks(r, id) = {Made(p) : p \in req[r].pieces}
  BY DEF NewChunks
<1> HIDE DEF Made
<1>4. \A c \in NewChunks(r, id) : c \in Chunk /\ c.owner = id /\ c.batch = r
  BY <1>2, <1>3
<1>5. \A c \in chunks \ ChunksOf(id) : c \in Chunk /\ c.owner # id /\ c.batch # r
  BY MoveKeepsLabels DEF ChunksOf, KnowledgeInv, KnowledgeTypeOK
<1>6. ChunksOf(id)' = NewChunks(r, id)
  BY <1>4, <1>5 DEF ChunksOf
<1>7. {c.piece : c \in NewChunks(r, id)} = req[r].pieces
  BY <1>2, <1>3
<1>8. PiecesIn(chunks', id) = req[r].pieces
  BY <1>6, <1>7 DEF PiecesIn, ChunksOf
<1>9. ASSUME NEW o \in Requests, o # id
      PROVE  ChunksOf(o)' = ChunksOf(o)
  BY <1>4, <1>9 DEF ChunksOf
<1>10. \A o \in Requests \ {id} : PiecesIn(chunks', o) = PiecesOf(o)
  BY <1>9 DEF PiecesOf, PiecesIn, ChunksOf
<1>11. BatchesAreDone'
  <2>1. \A c \in chunks \ ChunksOf(id) : req'[c.batch] = req[c.batch]
    BY MoveKeepsLabels
  <2> QED BY <1>4, <2>1 DEF KnowledgeInv, BatchesAreDone
<1>12. ASSUME NEW c \in chunks'
       PROVE  /\ \E l \in Labels : source'[l].present /\ source'[l].id = c.owner
              /\ PiecesIn(chunks', c.owner) = req'[c.batch].pieces
  <2>1. CASE c \in NewChunks(r, id)
    BY <1>4, <1>8, <2>1
  <2>2. CASE c \in chunks \ ChunksOf(id)
    <3>1. c.owner \in Requests \ {id} /\ req'[c.batch] = req[c.batch]
      BY <1>5, <2>2, MoveKeepsLabels DEF Chunk
    <3>2. /\ \E l \in Labels : source[l].present /\ source[l].id = c.owner
          /\ PiecesOf(c.owner) = req[c.batch].pieces
      BY <2>2 DEF KnowledgeInv, SourceIsOneUpload
    <3>3. PiecesIn(chunks', c.owner) = PiecesOf(c.owner)
      BY <1>10, <3>1
    <3> QED BY <3>1, <3>2, <3>3
  <2> QED BY <2>1, <2>2
<1>13. ASSUME NEW c \in chunks', NEW d \in chunks', c.owner = d.owner
       PROVE  c.batch = d.batch
  <2>1. CASE c.owner = id
    BY <1>4, <1>5, <1>13, <2>1
  <2>2. CASE c.owner # id
    BY <1>4, <1>13, <2>2 DEF KnowledgeInv, SourceIsOneUpload
  <2> QED BY <2>1, <2>2
<1>14. SourceIsOneUpload'
  BY <1>12, <1>13 DEF SourceIsOneUpload, PiecesOf, PiecesIn, ChunksOf
<1> QED BY <1>4, <1>5, <1>8, <1>10, <1>11, <1>14

\* The row takes the new hash; its chunks are behind until they are replaced.
LEMMA UpsertSourceKeepsInv ==
  ASSUME KnowledgeInv, NEW r \in Requests, UpsertSource(r)
  PROVE  KnowledgeInv'
<1> DEFINE l == req[r].label
           id == RowId(r)
           n == [req[r] EXCEPT !.id = id, !.step = "embed"]
<1>1. /\ req[r].step = "upsert" /\ req[r] \in Request /\ AtWork(r) /\ ~Committed(r)
      /\ WriteRow(r, req[r].pieces)
      /\ req' = [req EXCEPT ![r] = n]
      /\ UNCHANGED <<chunks, overlapped, broken>>
  BY DEF UpsertSource, KnowledgeInv, KnowledgeTypeOK, AtWork, Committed
<1>2. /\ id \in Requests /\ req[id].step # "idle" /\ req[id].label = l
      /\ source' \in [Labels -> SourceRow \union {Absent}]
      /\ source'[l].present /\ source'[l].id = id /\ source'[l].content_hash = req[r].pieces
      /\ \A m \in Labels : m # l => source'[m] = source[m]
      /\ \A m \in Labels : source'[m].present =>
            /\ source'[m].id \in Requests
            /\ req[source'[m].id].step # "idle" /\ req[source'[m].id].label = m
      /\ \A m \in Labels : source[m].present => source'[m].present /\ source'[m].id = source[m].id
  BY <1>1, RowWritten
<1> HIDE DEF id
<1>3. /\ n \in Request /\ n.step = "embed" /\ n.id = id /\ n.label = l /\ n.pieces = req[r].pieces
      /\ n.kind # "index"
  BY <1>1, <1>2 DEF Request, Steps, KnowledgeInv, KindsFit
<1> HIDE DEF n
<1>4. OnlyMoves(r) /\ req'[r] = n
  BY <1>1, <1>3 DEF OnlyMoves, KnowledgeInv, KnowledgeTypeOK
<1>5. \A c \in chunks : c.batch # r /\ req'[c.batch] = req[c.batch]
  BY <1>1, <1>4, MoveKeepsLabels
<1>6. KnowledgeTypeOK'
  BY <1>1, <1>2, <1>4 DEF KnowledgeInv, KnowledgeTypeOK, OnlyMoves
<1>7. SourceIsOneUpload' /\ BatchesAreDone'
  <2>1. ASSUME NEW c \in chunks
        PROVE  /\ \E m \in Labels : source'[m].present /\ source'[m].id = c.owner
               /\ PiecesOf(c.owner)' = req'[c.batch].pieces
    <3>1. /\ \E m \in Labels : source[m].present /\ source[m].id = c.owner
          /\ PiecesOf(c.owner) = req[c.batch].pieces
      BY DEF KnowledgeInv, SourceIsOneUpload
    <3>2. PiecesOf(c.owner)' = PiecesOf(c.owner)
      BY <1>1 DEF PiecesOf, ChunksOf
    <3> QED BY <1>2, <1>5, <3>1, <3>2
  <2>2. SourceIsOneUpload'
    BY <1>1, <2>1 DEF KnowledgeInv, SourceIsOneUpload
  <2>3. BatchesAreDone'
    BY <1>1, <1>5 DEF KnowledgeInv, BatchesAreDone
  <2> QED BY <2>2, <2>3
<1>8. RowsHaveTheirLabel'
  <2> SUFFICES ASSUME NEW m \in Labels, source'[m].present
               PROVE  req'[source'[m].id].step # "idle" /\ req'[source'[m].id].label = m
    BY DEF RowsHaveTheirLabel
  <2> QED BY <1>2, <1>4 DEF OnlyMoves
<1>9. IdsHaveTheirLabel' /\ OneAtWork'
  BY <1>1, <1>2, <1>3, <1>4, MoveKeepsRequests
<1>10. CommittedRow'
  <2> SUFFICES ASSUME NEW q \in Requests, Committed(q)', req'[q].label \notin overlapped
               PROVE  /\ source'[req'[q].label].present
                      /\ source'[req'[q].label].id = req'[q].id
                      /\ source'[req'[q].label].content_hash = req'[q].pieces
    BY <1>1 DEF CommittedRow
  <2>1. CASE q = r
    BY <1>2, <1>3, <1>4, <2>1
  <2>2. CASE q # r
    <3>1. req'[q] = req[q] /\ Committed(q) /\ AtWork(q) /\ req[q].label \in Labels
      BY <1>4, <2>2 DEF OnlyMoves, Committed, AtWork, KnowledgeInv, KnowledgeTypeOK, Request
    <3>2. req[q].label # l
      BY <1>1, <2>2, <3>1 DEF KnowledgeInv, OneAtWork
    <3> QED BY <1>2, <3>1, <3>2 DEF KnowledgeInv, CommittedRow
  <2> QED BY <2>1, <2>2
<1>11. RowsAreCurrent'
  <2> SUFFICES ASSUME NEW m \in Labels, m \notin overlapped, m \notin broken, source'[m].present,
                      \A q \in Requests : Committed(q)' => req'[q].label # m
               PROVE  PiecesOf(source'[m].id) = source'[m].content_hash
    BY <1>1 DEF RowsAreCurrent, PiecesOf, ChunksOf
  <2>1. m # l
    BY <1>3, <1>4 DEF Committed
  <2>2. \A q \in Requests : Committed(q) => req[q].label # m
    BY <1>1, <1>4 DEF OnlyMoves, Committed
  <2> QED BY <1>2, <2>1, <2>2 DEF KnowledgeInv, RowsAreCurrent
<1>12. KindsFit'
  BY <1>3, <1>4 DEF KnowledgeInv, KindsFit, OnlyMoves
<1> QED BY <1>6, <1>7, <1>8, <1>9, <1>10, <1>11, <1>12 DEF KnowledgeInv

\* A request at work that ends takes nothing from what the others have: alone
\* on its label, it leaves no other there.
LEMMA EndKeepsCommitted ==
  ASSUME KnowledgeInv, NEW r \in Requests, AtWork(r), OnlyMoves(r), req'[r].step = "done",
         overlapped' = overlapped,
         \A m \in Labels : m # req[r].label => source'[m] = source[m]
  PROVE  IdsHaveTheirLabel' /\ OneAtWork' /\ KindsFit' /\ CommittedRow'
<1>1. ~Committed(r)'
  BY DEF Committed
<1>2. IdsHaveTheirLabel' /\ OneAtWork'
  BY <1>1, MoveKeepsRequests
<1>3. KindsFit'
  BY DEF KnowledgeInv, KindsFit, OnlyMoves
<1>4. CommittedRow'
  <2> SUFFICES ASSUME NEW q \in Requests, Committed(q)', req'[q].label \notin overlapped
               PROVE  /\ source'[req'[q].label].present
                      /\ source'[req'[q].label].id = req'[q].id
                      /\ source'[req'[q].label].content_hash = req'[q].pieces
    BY DEF CommittedRow
  <2>1. q # r /\ req'[q] = req[q] /\ Committed(q) /\ AtWork(q) /\ req[q].label \in Labels
    BY <1>1 DEF OnlyMoves, Committed, AtWork, KnowledgeInv, KnowledgeTypeOK, Request
  <2>2. req[q].label # req[r].label
    BY <2>1 DEF KnowledgeInv, OneAtWork
  <2> QED BY <2>1, <2>2 DEF KnowledgeInv, CommittedRow
<1> QED BY <1>2, <1>3, <1>4

\* The labels but that of a request that ends are as current as they were.
LEMMA OthersStayCurrent ==
  ASSUME KnowledgeInv, NEW r \in Requests, OnlyMoves(r), NEW m \in Labels, m # req[r].label,
         m \notin overlapped, m \notin broken, source[m].present,
         \A q \in Requests : Committed(q)' => req'[q].label # m
  PROVE  PiecesOf(source[m].id) = source[m].content_hash
<1>1. \A q \in Requests : Committed(q) => req[q].label # m
  BY DEF OnlyMoves, Committed
<1> QED BY <1>1 DEF KnowledgeInv, RowsAreCurrent

\* The chunks of a row are replaced; alone on its label, the request that
\* replaces them has the text of the hash.
LEMMA ReplaceChunksKeepsInv ==
  ASSUME KnowledgeInv, NEW r \in Requests, ReplaceChunks(r)
  PROVE  KnowledgeInv'
<1> DEFINE l == req[r].label
           id == req[r].id
<1>1. /\ req[r].step = "replace" /\ AtWork(r) /\ l \in Labels /\ id \in Requests
      /\ chunks' = (chunks \ ChunksOf(id)) \union NewChunks(r, id)
      /\ broken' = broken \ {l}
      /\ Goto(r, "done") /\ UNCHANGED <<source, overlapped>>
  BY DEF ReplaceChunks, AtWork, KnowledgeInv, KnowledgeTypeOK, Request
<1>2. OnlyMoves(r) /\ req'[r].step = "done" /\ req'[r].pieces = req[r].pieces
  BY <1>1, GotoMoves DEF KnowledgeInv, Steps
<1>3. Committed(r) /\ \E k \in Labels : source[k].present /\ source[k].id = id
  BY <1>1 DEF ReplaceChunks, Committed, KnowledgeInv, KindsFit
<1>4. /\ chunks' \subseteq Chunk
      /\ SourceIsOneUpload' /\ BatchesAreDone'
      /\ PiecesIn(chunks', id) = req[r].pieces
      /\ \A o \in Requests \ {id} : PiecesIn(chunks', o) = PiecesOf(o)
  <2>1. \E m \in Labels : source'[m].present /\ source'[m].id = id
    BY <1>1, <1>3
  <2>2. \A m \in Labels : source[m].present => source'[m].present /\ source'[m].id = source[m].id
    BY <1>1
  <2> HIDE DEF id
  <2> QED BY <1>1, <1>2, <2>1, <2>2, ChunksWritten
<1>5. KnowledgeTypeOK'
  BY <1>1, <1>2, <1>4 DEF KnowledgeInv, KnowledgeTypeOK, OnlyMoves
<1>6. RowsHaveTheirLabel'
  BY <1>1, <1>2, MoveKeepsLabels DEF RowsHaveTheirLabel
<1>7. IdsHaveTheirLabel' /\ OneAtWork' /\ KindsFit' /\ CommittedRow'
  BY <1>1, <1>2, EndKeepsCommitted
<1>8. RowsAreCurrent'
  <2> SUFFICES ASSUME NEW m \in Labels, m \notin overlapped, m \notin broken \ {l}, source[m].present,
                      \A q \in Requests : Committed(q)' => req'[q].label # m
               PROVE  PiecesIn(chunks', source[m].id) = source[m].content_hash
    BY <1>1 DEF RowsAreCurrent, PiecesOf, ChunksOf, PiecesIn
  <2>1. CASE m = l
    <3>1. source[m].id = id /\ source[m].content_hash = req[r].pieces
      BY <1>3, <2>1 DEF KnowledgeInv, CommittedRow
    <3> QED BY <1>4, <3>1
  <2>2. CASE m # l
    <3>1. PiecesOf(source[m].id) = source[m].content_hash
      BY <1>2, <2>2, OthersStayCurrent
    <3>2. source[m].id \in Requests
      BY RowType DEF KnowledgeInv
    <3>3. source[m].id # id
      BY <1>3, <2>2 DEF KnowledgeInv, RowsHaveTheirLabel, IdsHaveTheirLabel
    <3> QED BY <1>4, <3>1, <3>2, <3>3
  <2> QED BY <2>1, <2>2
<1> QED BY <1>4, <1>5, <1>6, <1>7, <1>8 DEF KnowledgeInv

\* index_document writes the row and its chunks together.
LEMMA IndexDocumentKeepsInv ==
  ASSUME KnowledgeInv, NEW r \in Requests, IndexDocument(r)
  PROVE  KnowledgeInv'
<1> DEFINE l == req[r].label
           id == RowId(r)
<1>1. /\ req[r].step = "index" /\ AtWork(r) /\ l \in Labels
      /\ WriteRow(r, req[r].pieces)
      /\ chunks' = (chunks \ ChunksOf(id)) \union NewChunks(r, id)
      /\ broken' = broken \ {l}
      /\ Goto(r, "done") /\ UNCHANGED overlapped
  BY DEF IndexDocument, AtWork, KnowledgeInv, KnowledgeTypeOK, Request
<1>2. OnlyMoves(r) /\ req'[r].step = "done" /\ req'[r].pieces = req[r].pieces
  BY <1>1, GotoMoves DEF KnowledgeInv, Steps
<1>3. /\ id \in Requests /\ req[id].step # "idle" /\ req[id].label = l
      /\ source' \in [Labels -> SourceRow \union {Absent}]
      /\ source'[l].present /\ source'[l].id = id /\ source'[l].content_hash = req[r].pieces
      /\ \A m \in Labels : m # l => source'[m] = source[m]
      /\ \A m \in Labels : source'[m].present =>
            /\ source'[m].id \in Requests
            /\ req[source'[m].id].step # "idle" /\ req[source'[m].id].label = m
      /\ \A m \in Labels : source[m].present => source'[m].present /\ source'[m].id = source[m].id
  BY <1>1, RowWritten
<1>4. /\ chunks' \subseteq Chunk
      /\ SourceIsOneUpload' /\ BatchesAreDone'
      /\ PiecesIn(chunks', id) = req[r].pieces
      /\ \A o \in Requests \ {id} : PiecesIn(chunks', o) = PiecesOf(o)
  <2> HIDE DEF id
  <2>1. \E m \in Labels : source'[m].present /\ source'[m].id = id
    BY <1>1, <1>3
  <2> QED BY <1>1, <1>2, <1>3, <2>1, ChunksWritten
<1> HIDE DEF id
<1>5. KnowledgeTypeOK'
  BY <1>1, <1>2, <1>3, <1>4 DEF KnowledgeInv, KnowledgeTypeOK, OnlyMoves
<1>6. RowsHaveTheirLabel'
  <2> SUFFICES ASSUME NEW m \in Labels, source'[m].present
               PROVE  req'[source'[m].id].step # "idle" /\ req'[source'[m].id].label = m
    BY DEF RowsHaveTheirLabel
  <2> QED BY <1>2, <1>3 DEF OnlyMoves
<1>7. IdsHaveTheirLabel' /\ OneAtWork' /\ KindsFit' /\ CommittedRow'
  BY <1>1, <1>2, <1>3, EndKeepsCommitted
<1>8. RowsAreCurrent'
  <2> SUFFICES ASSUME NEW m \in Labels, m \notin overlapped, m \notin broken \ {l}, source'[m].present,
                      \A q \in Requests : Committed(q)' => req'[q].label # m
               PROVE  PiecesIn(chunks', source'[m].id) = source'[m].content_hash
    BY <1>1 DEF RowsAreCurrent, PiecesOf, ChunksOf, PiecesIn
  <2>1. CASE m = l
    BY <1>3, <1>4, <2>1
  <2>2. CASE m # l
    <3>1. source'[m] = source[m]
      BY <1>3, <2>2
    <3>2. PiecesOf(source[m].id) = source[m].content_hash
      BY <1>2, <2>2, <3>1, OthersStayCurrent
    <3>3. source[m].id \in Requests /\ source[m].id # id
      BY <1>3, <2>2, <3>1
    <3> QED BY <1>4, <3>1, <3>2, <3>3
  <2> QED BY <2>1, <2>2
<1> QED BY <1>4, <1>5, <1>6, <1>7, <1>8 DEF KnowledgeInv

\* A source is deleted with its chunks, and with no others.
LEMMA DeleteSourceKeepsInv ==
  ASSUME KnowledgeInv, NEW r \in Requests, DeleteSource(r)
  PROVE  KnowledgeInv'
<1> DEFINE l == req[r].label
<1>1. /\ req[r].step = "delete" /\ AtWork(r) /\ l \in Labels
      /\ chunks' = chunks \ Searchable(l)
      /\ source' = [source EXCEPT ![l] = Absent]
      /\ broken' = broken \ {l}
      /\ Goto(r, "done") /\ UNCHANGED overlapped
  BY DEF DeleteSource, AtWork, KnowledgeInv, KnowledgeTypeOK, Request
<1>2. OnlyMoves(r) /\ req'[r].step = "done"
  BY <1>1, GotoMoves DEF KnowledgeInv, Steps
<1>3. /\ source' \in [Labels -> SourceRow \union {Absent}]
      /\ ~source'[l].present
      /\ \A m \in Labels : m # l => source'[m] = source[m]
  BY <1>1 DEF KnowledgeInv, KnowledgeTypeOK, Absent
<1>4. \A c \in chunks : c \in chunks' <=> ~(source[l].present /\ c.owner = source[l].id)
  BY <1>1 DEF Searchable, ChunksOf
<1>5. chunks' \subseteq chunks
  BY <1>1
<1>6. ASSUME NEW o, source[l].present => o # source[l].id
      PROVE  PiecesIn(chunks', o) = PiecesOf(o)
  <2>1. {d \in chunks' : d.owner = o} = {d \in chunks : d.owner = o}
    BY <1>4, <1>5, <1>6
  <2> QED BY <2>1 DEF PiecesIn, PiecesOf, ChunksOf
<1>7. \A c \in chunks : c.batch # r /\ req'[c.batch] = req[c.batch]
  BY <1>1, <1>2, MoveKeepsLabels
<1>8. KnowledgeTypeOK'
  BY <1>1, <1>2, <1>3, <1>5 DEF KnowledgeInv, KnowledgeTypeOK, OnlyMoves
<1>9. ASSUME NEW c \in chunks'
      PROVE  /\ \E m \in Labels : source'[m].present /\ source'[m].id = c.owner
             /\ PiecesIn(chunks', c.owner) = req'[c.batch].pieces
  <2>1. c \in chunks /\ (source[l].present => c.owner # source[l].id)
    BY <1>4, <1>5
  <2>2. PICK m \in Labels : source[m].present /\ source[m].id = c.owner
    BY <2>1 DEF KnowledgeInv, SourceIsOneUpload
  <2>3. m # l
    BY <2>1, <2>2
  <2>4. PiecesOf(c.owner) = req[c.batch].pieces
    BY <2>1 DEF KnowledgeInv, SourceIsOneUpload
  <2>5. PiecesIn(chunks', c.owner) = PiecesOf(c.owner)
    BY <1>6, <2>1
  <2> QED BY <1>3, <1>7, <2>1, <2>2, <2>3, <2>4, <2>5
<1>10. SourceIsOneUpload'
  BY <1>5, <1>9 DEF KnowledgeInv, SourceIsOneUpload, PiecesOf, PiecesIn, ChunksOf
<1>11. BatchesAreDone'
  BY <1>5, <1>7 DEF KnowledgeInv, BatchesAreDone
<1>12. RowsHaveTheirLabel'
  <2> SUFFICES ASSUME NEW m \in Labels, source'[m].present
               PROVE  req'[source'[m].id].step # "idle" /\ req'[source'[m].id].label = m
    BY DEF RowsHaveTheirLabel
  <2>1. source'[m] = source[m]
    BY <1>3
  <2> QED BY <1>1, <1>2, <2>1, MoveKeepsLabels
<1>13. IdsHaveTheirLabel' /\ OneAtWork' /\ KindsFit' /\ CommittedRow'
  BY <1>1, <1>2, <1>3, EndKeepsCommitted
<1>14. RowsAreCurrent'
  <2> SUFFICES ASSUME NEW m \in Labels, m \notin overlapped, m \notin broken \ {l}, source'[m].present,
                      \A q \in Requests : Committed(q)' => req'[q].label # m
               PROVE  PiecesIn(chunks', source'[m].id) = source'[m].content_hash
    BY <1>1 DEF RowsAreCurrent, PiecesOf, ChunksOf, PiecesIn
  <2>1. m # l /\ source'[m] = source[m]
    BY <1>3
  <2>2. PiecesOf(source[m].id) = source[m].content_hash
    BY <1>2, <2>1, OthersStayCurrent
  <2>3. source[l].present => source[m].id # source[l].id
    BY <1>1, <2>1 DEF KnowledgeInv, RowsHaveTheirLabel
  <2>4. PiecesIn(chunks', source[m].id) = PiecesOf(source[m].id)
    BY <1>6, <2>3
  <2> QED BY <2>1, <2>2, <2>4
<1> QED BY <1>8, <1>10, <1>11, <1>12, <1>13, <1>14 DEF KnowledgeInv

-----------------------------------------------------------------------------
(* The theorems.                                                           *)

\* The invariant of the knowledge base: what the rows, the chunks and the
\* requests under way have to do with each other.
THEOREM KnowledgeInvariant == KnowledgeSpec => []KnowledgeInv
<1>1. KnowledgeInit => KnowledgeInv
  <2> SUFFICES ASSUME KnowledgeInit PROVE KnowledgeInv
    OBVIOUS
  <2> DEFINE any == CHOOSE l \in Labels : TRUE
  <2>1. any \in Labels
    BY KnowledgeConstants
  <2> HIDE DEF any
  <2>2. req = [r \in Requests |-> [kind |-> "upload", label |-> any, pieces |-> {}, id |-> r, step |-> "idle"]]
    BY DEF KnowledgeInit, any
  <2>3. \A r \in Requests : req[r].step = "idle" /\ req[r] \in Request
    BY <2>1, <2>2 DEF Request, Kinds, Steps
  <2>4. \A l \in Labels : source[l] = Absent /\ ~source[l].present
    BY DEF KnowledgeInit, Absent
  <2>5. chunks = {}
    BY DEF KnowledgeInit
  <2>6. KnowledgeTypeOK
    BY <2>2, <2>3 DEF KnowledgeInit, KnowledgeTypeOK
  <2>7. \A r \in Requests : ~AtWork(r) /\ ~Committed(r)
    BY <2>3 DEF AtWork, Committed
  <2>8. SourceIsOneUpload /\ BatchesAreDone
    BY <2>5 DEF SourceIsOneUpload, BatchesAreDone
  <2>9. RowsHaveTheirLabel /\ RowsAreCurrent
    BY <2>4 DEF RowsHaveTheirLabel, RowsAreCurrent
  <2>10. IdsHaveTheirLabel /\ KindsFit /\ OneAtWork /\ CommittedRow
    BY <2>3, <2>7 DEF IdsHaveTheirLabel, KindsFit, OneAtWork, CommittedRow
  <2> QED BY <2>6, <2>8, <2>9, <2>10 DEF KnowledgeInv
<1>2. KnowledgeInv /\ [KnowledgeNext]_knowledgeVars => KnowledgeInv'
  <2> SUFFICES ASSUME KnowledgeInv, [KnowledgeNext]_knowledgeVars PROVE KnowledgeInv'
    OBVIOUS
  <2>1. ASSUME NEW r \in Requests, NEW kind \in Kinds, NEW l \in Labels, NEW d \in Docs,
               Begin(r, kind, l, d)
        PROVE  KnowledgeInv'
    BY <2>1, BeginKeepsInv
  <2>2. ASSUME NEW r \in Requests, ListChunks(r) \/ Embed(r) \/ Raise(r)
        PROVE  KnowledgeInv'
    BY <2>2, ListChunksKeepsInv, EmbedKeepsInv, RaiseKeepsInv
  <2>3. ASSUME NEW r \in Requests,
               UpsertSource(r) \/ ReplaceChunks(r) \/ IndexDocument(r) \/ DeleteSource(r)
        PROVE  KnowledgeInv'
    BY <2>3, UpsertSourceKeepsInv, ReplaceChunksKeepsInv, IndexDocumentKeepsInv, DeleteSourceKeepsInv
  <2>4. CASE UNCHANGED knowledgeVars
    <3>1. /\ source' = source /\ chunks' = chunks /\ req' = req
          /\ overlapped' = overlapped /\ broken' = broken
      BY <2>4 DEF knowledgeVars
    <3>2. KnowledgeTypeOK' /\ BatchesAreDone' /\ RowsHaveTheirLabel' /\ KindsFit'
      BY <3>1 DEF KnowledgeInv, KnowledgeTypeOK, BatchesAreDone, RowsHaveTheirLabel, KindsFit
    <3>3. SourceIsOneUpload'
      BY <3>1 DEF KnowledgeInv, SourceIsOneUpload, PiecesOf, ChunksOf
    <3>4. IdsHaveTheirLabel' /\ CommittedRow'
      BY <3>1 DEF KnowledgeInv, IdsHaveTheirLabel, CommittedRow, Committed
    <3>5. OneAtWork'
      BY <3>1 DEF KnowledgeInv, OneAtWork, AtWork
    <3>6. RowsAreCurrent'
      BY <3>1 DEF KnowledgeInv, RowsAreCurrent, Committed, PiecesOf, ChunksOf
    <3> QED BY <3>2, <3>3, <3>4, <3>5, <3>6 DEF KnowledgeInv
  <2> QED BY <2>1, <2>2, <2>3, <2>4 DEF KnowledgeNext
<1> QED BY <1>1, <1>2, PTL DEF KnowledgeSpec

\* A source is never a mixture of two uploads, and no chunk outlives it.
THEOREM OneUploadPerSource == KnowledgeSpec => []SourceIsOneUpload
<1>1. KnowledgeInv => SourceIsOneUpload
  BY DEF KnowledgeInv
<1> QED BY <1>1, KnowledgeInvariant, PTL

\* Where requests did not overlap or fail, the chunks are those of the hash.
THEOREM SerialSourcesAreCurrent == KnowledgeSpec => []SerialSourceIsCurrent
<1>1. ASSUME KnowledgeInv PROVE SerialSourceIsCurrent
  <2> SUFFICES ASSUME NEW l \in Labels, l \notin overlapped, l \notin broken, source[l].present, ~Busy(l)
               PROVE  {c.piece : c \in Searchable(l)} = source[l].content_hash
    BY DEF SerialSourceIsCurrent
  <2>1. \A r \in Requests : Committed(r) => req[r].label # l
    BY DEF Busy, Committed, AtWork
  <2>2. PiecesOf(source[l].id) = source[l].content_hash
    BY <1>1, <2>1 DEF KnowledgeInv, RowsAreCurrent
  <2> QED BY <2>2 DEF PiecesOf, Searchable
<1> QED BY <1>1, KnowledgeInvariant, PTL
=============================================================================
