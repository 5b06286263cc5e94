------------------------------ MODULE PanelSession -----------------------------
(***************************************************************************)
(* The session of the admin panel in one browser page: the script of       *)
(* api/routers/admin_panel.py.  The token in localStorage, the two screens,*)
(* the login form with its second step, the tabs with their refresh        *)
(* timers, and the calls of apiFetch, each of which ends the session when  *)
(* it is answered 401.  Between two awaits the script runs alone, so a     *)
(* handler up to its next await is one step.                               *)
(*                                                                         *)
(* A token is the number of its login.  A call stands for any request made *)
(* with apiFetch by the tab it belongs to; what its answer shows in the    *)
(* tab is in PanelViews.                                                   *)
(***************************************************************************)
EXTENDS Naturals, FiniteSets

CONSTANTS
    PanelCalls,       \* slots for calls in flight (bound: how many at once)
    MaxTokens,   \* bound: logins that succeed
    PanelFaults  \* "network": a request may fail without an answer

ASSUME PanelConstants ==
    /\ MaxTokens \in Nat
    /\ PanelFaults \subseteq {"network"}

VARIABLES
    token,      \* localStorage: the token, 0 for none
    issued,     \* tokens issued so far: 1..issued
    valid,      \* tokens the server still accepts
    screen,     \* the screen that is shown
    form,       \* the submit button and the inputs are enabled
    preAuthTok, \* pendingPreAuthToken is set
    login,      \* where the submit handler is; "idle" is ~_loginInFlight
    start,      \* where init is
    tab,        \* currentTab
    timers,     \* tabs whose refresh timer is set
    call,       \* the calls in flight
    granted,    \* history: a login has succeeded since the page was loaded
    lost        \* history: a call got no answer

panelVars == <<token, issued, valid, screen, form, preAuthTok, login, start, tab, timers, call, granted, lost>>

-----------------------------------------------------------------------------
Refreshed == {"dashboard", "campanas", "monitor"}  \* the tabs with a timer
Loading == Refreshed \union {"knowledge", "security", "usuarios", "audit_log"}
Still == {"templates", "generador_csv", "conversaciones"} \* nothing to load
Tabs == Loading \union Still

\* What awaits the answer of a call: a view, the login or init.
NoCallHere == [status |-> "free", token |-> 0, by |-> "view"]
CallRecord == [status : {"free", "sent", "200", "401"}, token : 0..MaxTokens, by : {"view", "login", "start"}]

InFlight(c) == call[c].status # "free"

\* apiFetch sends the token of the moment it is called.
Issue(cs, c, t, by) == [cs EXCEPT ![c] = [status |-> "sent", token |-> t, by |-> by]]

\* setActiveTab as seen by the timers: only the new tab's is left.
TimersOf(t) == {t} \cap Refreshed

\* The page is opened, with whatever token localStorage holds.
PanelInit ==
    /\ token = 0
    /\ issued = 0
    /\ valid = {}
    /\ screen = "login"
    /\ form = TRUE
    /\ preAuthTok = FALSE
    /\ login = "idle"
    /\ start = "done"
    /\ tab = "dashboard"
    /\ timers = {}
    /\ call = [c \in PanelCalls |-> NoCallHere]
    /\ granted = FALSE
    /\ lost = FALSE

-----------------------------------------------------------------------------
(* Login.                                                                  *)

\* The form can be submitted while its button is enabled; it is on the screen
\* from the start, until init has shown the panel.
SubmitLogin ==
    /\ screen = "login" /\ form /\ login = "idle"
    /\ form' = FALSE
    /\ login' = IF preAuthTok THEN "code" ELSE "password"
    /\ UNCHANGED <<token, issued, valid, screen, preAuthTok, start, tab, timers, call, granted, lost>>

\* Refused, 429, any other error status, or no answer: restoreLogin.
LoginRefused ==
    /\ login \in {"password", "code"}
    /\ login' = "idle"
    /\ form' = TRUE
    /\ UNCHANGED <<token, issued, valid, screen, preAuthTok, start, tab, timers, call, granted, lost>>

\* Mutant: the form is not given back for the code.
LoginNeedsCodeLocked ==
    /\ login = "password"
    /\ preAuthTok' = TRUE
    /\ login' = "idle"
    /\ form' = form
    /\ UNCHANGED <<token, issued, valid, screen, start, tab, timers, call, granted, lost>>

\* The password is right and a second factor is asked for.
LoginNeedsCode ==
    /\ login = "password"
    /\ preAuthTok' = TRUE
    /\ login' = "idle"
    /\ form' = TRUE
    /\ UNCHANGED <<token, issued, valid, screen, start, tab, timers, call, granted, lost>>

\* setToken, then loadBrandConfig, which the handler awaits.
LoginGranted(c) ==
    /\ login \in {"password", "code"}
    /\ issued < MaxTokens
    /\ ~InFlight(c)
    /\ issued' = issued + 1
    /\ token' = issued + 1
    /\ valid' = valid \union {issued + 1}
    /\ preAuthTok' = FALSE
    /\ login' = "brand"
    /\ call' = Issue(call, c, issued + 1, "login")
    /\ granted' = TRUE
    /\ UNCHANGED <<screen, form, start, tab, timers, lost>>

\* The page is loaded again: what is not in localStorage is lost, and init
\* restores the session of the token it finds.
Reload(c) ==
    /\ screen' = "login"
    /\ form' = TRUE
    /\ preAuthTok' = FALSE
    /\ login' = "idle"
    /\ tab' = "dashboard"
    /\ timers' = {}
    /\ start' = IF token = 0 THEN "done" ELSE "brand"
    /\ call' = LET none == [d \in PanelCalls |-> NoCallHere]
               IN IF token = 0 THEN none ELSE Issue(none, c, token, "start")
    /\ granted' = FALSE
    /\ UNCHANGED <<token, issued, valid, lost>>

-----------------------------------------------------------------------------
(* The panel.                                                              *)

\* setActiveTab on a click: the other tabs' timers are stopped, its own is
\* set anew, and the tab is loaded.
SelectTab(t, c) ==
    /\ screen = "panel"
    /\ tab' = t
    /\ timers' = TimersOf(t)
    /\ IF t \in Loading
       THEN ~InFlight(c) /\ call' = Issue(call, c, token, "view")
       ELSE UNCHANGED call
    /\ UNCHANGED <<token, issued, valid, screen, form, preAuthTok, login, start, granted, lost>>

\* The refresh of a tab, which looks at currentTab before it calls.
TimerFires(t, c) ==
    /\ t \in timers /\ tab = t
    /\ ~InFlight(c)
    /\ call' = Issue(call, c, token, "view")
    /\ UNCHANGED <<token, issued, valid, screen, form, preAuthTok, login, start, tab, timers, granted, lost>>

\* A button of the tab's view.
Press(c) ==
    /\ screen = "panel"
    /\ ~InFlight(c)
    /\ call' = Issue(call, c, token, "view")
    /\ UNCHANGED <<token, issued, valid, screen, form, preAuthTok, login, start, tab, timers, granted, lost>>

-----------------------------------------------------------------------------
(* The server and the answers.                                             *)

\* get_current_user: 401 without a token it accepts.
ServerAnswers(c) ==
    /\ call[c].status = "sent"
    /\ call' = [call EXCEPT ![c].status = IF call[c].token \in valid THEN "200" ELSE "401"]
    /\ UNCHANGED <<token, issued, valid, screen, form, preAuthTok, login, start, tab, timers, granted, lost>>

TokenExpires(t) ==
    /\ t \in valid
    /\ valid' = valid \ {t}
    /\ UNCHANGED <<token, issued, screen, form, preAuthTok, login, start, tab, timers, call, granted, lost>>

\* Mutant: autoLogout leaves the timers on.
ViewAnswerKeepsTimers(c) ==
    /\ InFlight(c) /\ call[c].by = "view"
    /\ \/ /\ call[c].status = "401"
          /\ token' = 0
          /\ UNCHANGED timers
          /\ preAuthTok' = FALSE
          /\ screen' = "login"
          /\ UNCHANGED lost
       \/ /\ call[c].status = "200"
          /\ UNCHANGED <<token, timers, preAuthTok, screen, lost>>
       \/ /\ call[c].status = "sent" /\ "network" \in PanelFaults
          /\ lost' = TRUE
          /\ UNCHANGED <<token, timers, preAuthTok, screen>>
    /\ call' = [call EXCEPT ![c] = NoCallHere]
    /\ UNCHANGED <<issued, valid, form, login, start, tab, granted>>

\* Mutant: a call without an answer ends the session as well.
ViewAnswerLogsOut(c) ==
    /\ InFlight(c) /\ call[c].by = "view"
    /\ \/ /\ call[c].status = "401"
          /\ token' = 0
          /\ timers' = {}
          /\ preAuthTok' = FALSE
          /\ screen' = "login"
          /\ UNCHANGED lost
       \/ /\ call[c].status = "200"
          /\ UNCHANGED <<token, timers, preAuthTok, screen, lost>>
       \/ /\ call[c].status = "sent" /\ "network" \in PanelFaults
          /\ lost' = TRUE
          /\ token' = 0 /\ timers' = {} /\ preAuthTok' = FALSE /\ screen' = "login"
    /\ call' = [call EXCEPT ![c] = NoCallHere]
    /\ UNCHANGED <<issued, valid, form, login, start, tab, granted>>

\* The end of a call a view made: its answer is shown in the view, as is a
\* failure; 401 is autoLogout, whatever token the call was made with.
ViewAnswer(c) ==
    /\ InFlight(c) /\ call[c].by = "view"
    /\ \/ /\ call[c].status = "401"
          /\ token' = 0
          /\ timers' = {}
          /\ preAuthTok' = FALSE
          /\ screen' = "login"
          /\ UNCHANGED lost
       \/ /\ call[c].status = "200"
          /\ UNCHANGED <<token, timers, preAuthTok, screen, lost>>
       \/ /\ call[c].status = "sent" /\ "network" \in PanelFaults
          /\ lost' = TRUE
          /\ UNCHANGED <<token, timers, preAuthTok, screen>>
    /\ call' = [call EXCEPT ![c] = NoCallHere]
    /\ UNCHANGED <<issued, valid, form, login, start, tab, granted>>

\* Mutant: the panel is shown, its tab not loaded.
BrandAnswerNoLoad(c) ==
    /\ InFlight(c) /\ call[c].by # "view"
    /\ \/ call[c].status = "401" /\ token' = 0 /\ preAuthTok' = FALSE
       \/ /\ call[c].status = "200" \/ (call[c].status = "sent" /\ "network" \in PanelFaults)
          /\ UNCHANGED <<token, preAuthTok>>
    /\ screen' = "panel"
    /\ tab' = "dashboard"
    /\ timers' = TimersOf("dashboard")
    /\ call' = [call EXCEPT ![c] = NoCallHere]
    /\ IF call[c].by = "login"
       THEN login' = "idle" /\ UNCHANGED start
       ELSE start' = "done" /\ UNCHANGED login
    /\ UNCHANGED <<issued, valid, form, granted, lost>>

\* The end of loadBrandConfig, which swallows every error: autoLogout at 401,
\* but then showPanel and setActiveTab("dashboard") in any case.
BrandAnswer(c) ==
    /\ InFlight(c) /\ call[c].by # "view"
    /\ \/ call[c].status = "401" /\ token' = 0 /\ preAuthTok' = FALSE
       \/ /\ call[c].status = "200" \/ (call[c].status = "sent" /\ "network" \in PanelFaults)
          /\ UNCHANGED <<token, preAuthTok>>
    /\ screen' = "panel"
    /\ tab' = "dashboard"
    /\ timers' = TimersOf("dashboard")
    /\ call' = Issue(call, c, token', "view")
    /\ IF call[c].by = "login"
       THEN login' = "idle" /\ UNCHANGED start
       ELSE start' = "done" /\ UNCHANGED login
    /\ UNCHANGED <<issued, valid, form, granted, lost>>

PanelNext ==
    \/ SubmitLogin \/ LoginRefused \/ LoginNeedsCode
    \/ \E c \in PanelCalls :
        \/ LoginGranted(c) \/ Reload(c)
        \/ \E t \in Tabs : SelectTab(t, c) \/ TimerFires(t, c)
        \/ Press(c) \/ ServerAnswers(c) \/ ViewAnswer(c) \/ BrandAnswer(c)
    \/ \E t \in 1..MaxTokens : TokenExpires(t)

PanelSpec == PanelInit /\ [][PanelNext]_panelVars

\* The server answers what it was sent and the browser runs the handler.
PanelFairness == \A c \in PanelCalls : WF_panelVars(ServerAnswers(c)) /\ WF_panelVars(ViewAnswer(c) \/ BrandAnswer(c))

PanelFairSpec == PanelSpec /\ PanelFairness

-----------------------------------------------------------------------------
(* Properties.                                                             *)

PanelTypeOK ==
    /\ token \in 0..issued /\ issued \in 0..MaxTokens /\ valid \subseteq 1..issued
    /\ screen \in {"login", "panel"}
    /\ form \in BOOLEAN /\ preAuthTok \in BOOLEAN
    /\ login \in {"idle", "password", "code", "brand"}
    /\ start \in {"done", "brand"}
    /\ tab \in Tabs /\ timers \subseteq Refreshed
    /\ call \in [PanelCalls -> CallRecord]
    /\ granted \in BOOLEAN /\ lost \in BOOLEAN

\* One tab at most polls the server, the one that is shown, and none behind
\* the login screen (setActiveTab, the stop... calls of autoLogout).
TimersFollowTheTab == timers = IF screen = "panel" THEN TimersOf(tab) ELSE {}

\* A token the server still accepts is dropped by the answer to a call that
\* was made with another one, and by nothing else: 401 looks at no token.
ValidTokenIsKept ==
    [][(token \in valid /\ token' = 0) =>
          \E c \in PanelCalls : call[c].status = "401" /\ call[c].token # token]_panelVars

\* The login shows the panel even when the call before it ended the session:
\* the panel without a token is left again or a token comes, unless a request
\* gets no answer.
PanelWithoutTokenIsLeft == (screen = "panel" /\ token = 0) ~> (screen = "login" \/ token # 0 \/ lost)

\* "Sesion expirada. Inicia sesion nuevamente." (admin_panel.py:3359): on the
\* login screen, with no login under way, the form can be filled in again
\* whatever ended the attempts before.  Only after a login that succeeded it
\* cannot: the handler calls restoreLogin on every other path.
FormIsUsable == (screen = "login" /\ login = "idle" /\ ~granted) => form
=============================================================================
