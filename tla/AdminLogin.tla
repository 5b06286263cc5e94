------------------------------ MODULE AdminLogin -------------------------------
(***************************************************************************)
(* The administrators' accounts: the login with its two limits on failures *)
(* (the table login_attempts and the deque of each process), the second    *)
(* factor and the management of the users (api/routers/auth.py over the    *)
(* services and repositories of core/services and                          *)
(* adapters/storage/repositories).                                         *)
(*                                                                         *)
(* Every repository call is one SERIALIZABLE transaction and one step; the *)
(* code between two awaits is one step too.  All logins come from one      *)
(* address: both limits count by address.  A password is the number of its *)
(* version, a TOTP secret is named after the setup request that drew it.   *)
(***************************************************************************)
EXTENDS Naturals, FiniteSets

CONSTANTS
    Names,         \* usernames
    MaxRequests,   \* bound: HTTP requests, numbered in the order they arrive
    Processes,     \* processes of the service
    Passwords,     \* password versions
    MaxFailures,   \* MAX_FAILURES of login_attempt_service
    MaxPerMinute,  \* _MAX_ATTEMPTS_PER_MINUTE of the router
    AuthKinds      \* the requests that may come

ASSUME AuthConstants ==
    /\ MaxRequests \in Nat
    /\ Names # {} /\ Processes # {} /\ Passwords # {} /\ AuthKinds # {}
    /\ MaxFailures \in Nat \ {0}
    /\ MaxPerMinute \in Nat \ {0}
    /\ AuthKinds \subseteq {"login", "second", "setup", "confirm", "create", "status", "password"}

VARIABLES
    user,      \* admin_users by username
    totp,      \* admin_totp by username
    failed,    \* login_attempts: the requests whose failure was recorded
    attempts,  \* _ATTEMPTS_BY_IP of each process
    age,       \* how long ago a request's failure was
    areq,      \* what each request is doing
    preAuth,   \* pre-auth tokens that have not expired, by username
    access,    \* the users that hold an access token
    confirmed, \* history: secrets a code was verified against by confirm
    crossed,   \* history: secrets set up while a confirm of the user was under way
    peak       \* history: most logins ever past the lockout check at once

authVars == <<user, totp, failed, attempts, age, areq, preAuth, access, confirmed, crossed, peak>>

-----------------------------------------------------------------------------
AuthRequests == 1..MaxRequests
Ages == {"minute", "window", "past"}
AuthSteps == {"idle", "check", "limit", "authenticate", "record", "record_ok", "totp", "last_login",
              "verify", "upsert", "read", "enable", "exists", "insert", "target", "write", "done"}

NoUser == [exists |-> FALSE]
User == [exists : {TRUE}, is_active : BOOLEAN, password : Passwords, last_login : BOOLEAN]
NoTotp == [exists |-> FALSE]
Totp == [exists : {TRUE}, secret : AuthRequests, enabled : BOOLEAN]

\* code is the secret the code in a request's form was made from.
AuthRequest == [kind : AuthKinds, name : Names, proc : Processes, pass : Passwords, code : AuthRequests,
                active : BOOLEAN, step : AuthSteps]

\* count_failures_since the last 15 minutes.
InWindow == {r \in failed : age[r] # "past"}
\* The deque once what is older than a minute has been popped.
InMinute(p) == {r \in attempts[p] : age[r] = "minute"}

PastCheck == {r \in AuthRequests :
                 areq[r].step \in {"limit", "authenticate", "record"} /\ areq[r].kind = "login"}

CountPastCheck == LET n == Cardinality(PastCheck') IN peak' = IF n > peak THEN n ELSE peak

\* A request before it comes; one that has ended keeps nothing of its form.
Blank(r) == [kind |-> CHOOSE k \in AuthKinds : TRUE, name |-> CHOOSE n \in Names : TRUE,
             proc |-> CHOOSE p \in Processes : TRUE, pass |-> CHOOSE w \in Passwords : TRUE,
             code |-> r, active |-> TRUE, step |-> "idle"]
Ended(r) == [Blank(r) EXCEPT !.step = "done"]

Step(r, s) == areq' = [areq EXCEPT ![r] = IF s = "done" THEN Ended(r) ELSE [@ EXCEPT !.step = s]]

\* The first await of each handler.
FirstAuthStep(kind) ==
    CASE kind = "login" -> "check"   [] kind = "second" -> "verify"
      [] kind = "setup" -> "upsert"  [] kind = "confirm" -> "read"
      [] kind = "create" -> "exists" [] kind \in {"status", "password"} -> "target"

AuthInit ==
    /\ user \in {[n \in Names |-> IF n \in some
                                  THEN [exists |-> TRUE, is_active |-> TRUE, last_login |-> FALSE,
                                        password |-> CHOOSE w \in Passwords : TRUE]
                                  ELSE NoUser] : some \in SUBSET Names \ {{}}}
    /\ totp = [n \in Names |-> NoTotp]
    /\ failed = {}
    /\ attempts = [p \in Processes |-> {}]
    /\ age = [r \in AuthRequests |-> "minute"]
    /\ areq = [r \in AuthRequests |-> Blank(r)]
    /\ preAuth = {}
    /\ access \in {{}, {n \in Names : user[n].exists}}
    /\ confirmed = {}
    /\ crossed = {}
    /\ peak = 0

\* A request arrives with the fields its handler reads: a pre-auth token for
\* the second step, an access token (some user's login) for the rest.
Arrive(r, kind, n, p, w, c, on) ==
    /\ areq[r].step = "idle" /\ \A q \in AuthRequests : q < r => areq[q].step # "idle"
    /\ kind = "second" => n \in preAuth
    /\ kind \notin {"login", "second"} => access # {}
    /\ kind \in {"setup", "confirm"} => n \in access
    /\ kind \in {"login", "create", "password"} \/ w = Blank(r).pass
    /\ IF kind \in {"second", "confirm"} THEN c <= r ELSE c = r
    /\ kind = "status" \/ on
    /\ areq' = [areq EXCEPT ![r] = [kind |-> kind, name |-> n, proc |-> p, pass |-> w, code |-> c,
                                    active |-> on, step |-> FirstAuthStep(kind)]]
    /\ UNCHANGED <<user, totp, failed, attempts, age, preAuth, access, confirmed, crossed, peak>>

-----------------------------------------------------------------------------
(* issue_token.                                                            *)

\* Mutant: the address is locked after one failure more.
CheckLockoutOneMore(r) ==
    /\ areq[r].step = "check"
    /\ Step(r, IF Cardinality(InWindow) > MaxFailures THEN "done" ELSE "limit")
    /\ CountPastCheck
    /\ UNCHANGED <<user, totp, failed, attempts, age, preAuth, access, confirmed, crossed>>

\* check_lockout: a locked address is refused, and the refusal not recorded.
CheckLockout(r) ==
    /\ areq[r].step = "check"
    /\ Step(r, IF Cardinality(InWindow) >= MaxFailures THEN "done" ELSE "limit")
    /\ CountPastCheck
    /\ UNCHANGED <<user, totp, failed, attempts, age, preAuth, access, confirmed, crossed>>

\* The deque is pruned and looked at.
CheckMinute(r) ==
    /\ areq[r].step = "limit"
    /\ LET p == areq[r].proc
       IN /\ attempts' = [attempts EXCEPT ![p] = InMinute(p)]
          /\ Step(r, IF Cardinality(InMinute(p)) >= MaxPerMinute THEN "done" ELSE "authenticate")
    /\ UNCHANGED <<user, totp, failed, age, preAuth, access, confirmed, crossed, peak>>

Authentic(r) ==
    LET u == user[areq[r].name]
    IN u.exists /\ u.is_active /\ u.password = areq[r].pass

\* authenticate; a failure enters the deque of the process at once.
Authenticate(r) ==
    /\ areq[r].step = "authenticate"
    /\ IF Authentic(r)
       THEN Step(r, "record_ok") /\ UNCHANGED attempts
       ELSE /\ Step(r, "record")
            /\ attempts' = [attempts EXCEPT ![areq[r].proc] = @ \union {r}]
    /\ UNCHANGED <<user, totp, failed, age, preAuth, access, confirmed, crossed, peak>>

\* record_attempt(success=False); then 401.
RecordFailure(r) ==
    /\ areq[r].step = "record"
    /\ failed' = failed \union {r}
    /\ Step(r, "done")
    /\ UNCHANGED <<user, totp, attempts, age, preAuth, access, confirmed, crossed, peak>>

\* record_attempt(success=True): a row no limit counts.
RecordSuccess(r) ==
    /\ areq[r].step = "record_ok"
    /\ Step(r, "totp")
    /\ UNCHANGED <<user, totp, failed, attempts, age, preAuth, access, confirmed, crossed, peak>>

\* The second factor is asked for when the user's record is enabled.
IssueToken(r) ==
    /\ areq[r].step = "totp"
    /\ LET n == areq[r].name
       IN IF totp[n].exists /\ totp[n].enabled
          THEN Step(r, "done") /\ preAuth' = preAuth \union {n}
          ELSE Step(r, "last_login") /\ UNCHANGED preAuth
    /\ UNCHANGED <<user, totp, failed, attempts, age, access, confirmed, crossed, peak>>

UpdateLastLogin(r) ==
    /\ areq[r].step = "last_login"
    /\ user' = [user EXCEPT ![areq[r].name].last_login = TRUE]
    /\ access' = access \union {areq[r].name}
    /\ Step(r, "done")
    /\ UNCHANGED <<totp, failed, attempts, age, preAuth, confirmed, crossed, peak>>

-----------------------------------------------------------------------------
(* The second factor.                                                      *)

\* complete_2fa_login.
CompleteTwoFactor(r) ==
    /\ areq[r].step = "verify"
    /\ LET n == areq[r].name
       IN access' = IF totp[n].exists /\ totp[n].enabled /\ totp[n].secret = areq[r].code
                    THEN access \union {n} ELSE access
    /\ Step(r, "done")
    /\ UNCHANGED <<user, totp, failed, attempts, age, preAuth, confirmed, crossed, peak>>

Confirming(n) == {r \in AuthRequests : areq[r].step = "enable" /\ areq[r].name = n}

\* Mutant: the new secret is as enabled as the old one.
SetupTwoFactorKeepsEnabled(r) ==
    /\ areq[r].step = "upsert"
    /\ LET n == areq[r].name
       IN /\ totp' = [totp EXCEPT ![n] = [exists |-> TRUE, secret |-> r, enabled |-> totp[n].exists /\ totp[n].enabled]]
          /\ crossed' = IF Confirming(n) # {} THEN crossed \union {r} ELSE crossed
    /\ Step(r, "done")
    /\ UNCHANGED <<user, failed, attempts, age, preAuth, access, confirmed, peak>>

\* setup_2fa: a new secret, not enabled, takes the place of the old record.
SetupTwoFactor(r) ==
    /\ areq[r].step = "upsert"
    /\ LET n == areq[r].name
       IN /\ totp' = [totp EXCEPT ![n] = [exists |-> TRUE, secret |-> r, enabled |-> FALSE]]
          /\ crossed' = IF Confirming(n) # {} THEN crossed \union {r} ELSE crossed
    /\ Step(r, "done")
    /\ UNCHANGED <<user, failed, attempts, age, preAuth, access, confirmed, peak>>

\* confirm_2fa reads the record and verifies the code against its secret.
VerifyCode(r) ==
    /\ areq[r].step = "read"
    /\ LET t == totp[areq[r].name]
       IN IF t.exists /\ t.secret = areq[r].code
          THEN Step(r, "enable") /\ confirmed' = confirmed \union {t.secret}
          ELSE Step(r, "done") /\ UNCHANGED confirmed
    /\ UNCHANGED <<user, totp, failed, attempts, age, preAuth, access, crossed, peak>>

\* enable reads the record again, whatever its secret is by now.
EnableTwoFactor(r) ==
    /\ areq[r].step = "enable"
    /\ totp' = [totp EXCEPT ![areq[r].name].enabled = TRUE]
    /\ Step(r, "done")
    /\ UNCHANGED <<user, failed, attempts, age, preAuth, access, confirmed, crossed, peak>>

-----------------------------------------------------------------------------
(* The management of the users.                                            *)

\* create_admin_user looks for the name, and leaves a race to the unique
\* constraint: both answers to a name that is taken are 409.
FindUser(r) ==
    /\ areq[r].step = "exists"
    /\ Step(r, IF user[areq[r].name].exists THEN "done" ELSE "insert")
    /\ UNCHANGED <<user, totp, failed, attempts, age, preAuth, access, confirmed, crossed, peak>>

CreateUser(r) ==
    /\ areq[r].step = "insert"
    /\ LET n == areq[r].name
       IN user' = IF user[n].exists THEN user
                  ELSE [user EXCEPT ![n] = [exists |-> TRUE, is_active |-> TRUE, last_login |-> FALSE,
                                            password |-> areq[r].pass]]
    /\ Step(r, "done")
    /\ UNCHANGED <<totp, failed, attempts, age, preAuth, access, confirmed, crossed, peak>>

\* set_admin_user_status, deactivate_admin_user and
\* update_admin_user_password read the target first; a user may not
\* deactivate itself, so another one must be the requester.
FindTarget(r) ==
    /\ areq[r].step = "target"
    /\ LET n == areq[r].name
           refused == /\ areq[r].kind = "status" /\ ~areq[r].active
                      /\ access \ {n} = {}
       IN Step(r, IF user[n].exists /\ ~refused THEN "write" ELSE "done")
    /\ UNCHANGED <<user, totp, failed, attempts, age, preAuth, access, confirmed, crossed, peak>>

\* set_active or update_password.
WriteUser(r) ==
    /\ areq[r].step = "write"
    /\ LET n == areq[r].name
       IN user' = IF areq[r].kind = "status"
                  THEN [user EXCEPT ![n].is_active = areq[r].active]
                  ELSE [user EXCEPT ![n].password = areq[r].pass]
    /\ Step(r, "done")
    /\ UNCHANGED <<totp, failed, attempts, age, preAuth, access, confirmed, crossed, peak>>

-----------------------------------------------------------------------------
(* Time and the processes.                                                 *)

\* A failure leaves the minute of the deque, later the 15 minutes of the table.
TimePasses(r) ==
    /\ areq[r].step = "done"
    /\ age[r] # "past"
    /\ r \in failed \union UNION {attempts[p] : p \in Processes}
    /\ age' = [age EXCEPT ![r] = IF @ = "minute" THEN "window" ELSE "past"]
    /\ UNCHANGED <<user, totp, failed, attempts, areq, preAuth, access, confirmed, crossed, peak>>

\* A pre-auth token lives five minutes.
PreAuthExpires(n) ==
    /\ n \in preAuth
    /\ preAuth' = preAuth \ {n}
    /\ UNCHANGED <<user, totp, failed, attempts, age, areq, access, confirmed, crossed, peak>>

\* A call to the database raises: the request ends there, answered 500.
RequestRaises(r) ==
    /\ areq[r].step \notin {"idle", "limit", "done"}
    /\ Step(r, "done")
    /\ UNCHANGED <<user, totp, failed, attempts, age, preAuth, access, confirmed, crossed, peak>>

\* A restart ends the requests of a process and empties its deque.
RestartProcess(p) ==
    /\ attempts' = [attempts EXCEPT ![p] = {}]
    /\ areq' = [r \in AuthRequests |->
                  IF areq[r].proc = p /\ areq[r].step # "idle" THEN Ended(r) ELSE areq[r]]
    /\ UNCHANGED <<user, totp, failed, age, preAuth, access, confirmed, crossed, peak>>

AuthNext ==
    \/ \E r \in AuthRequests :
        \/ \E kind \in AuthKinds, n \in Names, p \in Processes, w \in Passwords, c \in AuthRequests, on \in BOOLEAN :
              Arrive(r, kind, n, p, w, c, on)
        \/ CheckLockout(r) \/ CheckMinute(r) \/ Authenticate(r) \/ RecordFailure(r)
        \/ RecordSuccess(r) \/ IssueToken(r) \/ UpdateLastLogin(r)
        \/ CompleteTwoFactor(r) \/ SetupTwoFactor(r) \/ VerifyCode(r) \/ EnableTwoFactor(r)
        \/ FindUser(r) \/ CreateUser(r) \/ FindTarget(r) \/ WriteUser(r)
        \/ TimePasses(r) \/ RequestRaises(r)
    \/ \E n \in Names : PreAuthExpires(n)
    \/ \E p \in Processes : RestartProcess(p)

AuthSpec == AuthInit /\ [][AuthNext]_authVars

-----------------------------------------------------------------------------
(* Properties.                                                             *)

AuthTypeOK ==
    /\ user \in [Names -> User \union {NoUser}]
    /\ totp \in [Names -> Totp \union {NoTotp}]
    /\ failed \subseteq AuthRequests
    /\ attempts \in [Processes -> SUBSET AuthRequests]
    /\ age \in [AuthRequests -> Ages]
    /\ areq \in [AuthRequests -> AuthRequest]
    /\ preAuth \subseteq Names /\ access \subseteq Names
    /\ confirmed \subseteq AuthRequests /\ crossed \subseteq AuthRequests
    /\ peak \in Nat

\* The lockout is read before the password is verified and the failure written
\* after: logins that overlap pass the limit, but by no more than were ever
\* under way at once (check_lockout and record_attempt of issue_token).
FailuresAreBounded == Cardinality(InWindow) < MaxFailures + peak

\* A second factor that is in force is one its user has proved to hold, unless
\* a setup came between the two reads of a confirm_2fa (get, then enable).
EnabledSecretIsConfirmed ==
    \A n \in Names : totp[n].exists /\ totp[n].enabled =>
        totp[n].secret \in confirmed \union crossed
=============================================================================
