---------------------------- MODULE InboundHandler ----------------------------
(***************************************************************************)
(* One customer's conversation: the webhook calls that run                 *)
(* InboundMessageHandler.handle (core/services/inbound_handler.py) in the  *)
(* processes of the service, with the debounce window, the state machine,  *)
(* ConversationAgent.respond, the tables they share                        *)
(* (conversation_events, silenced_users, lead_profiles, sessions) and the  *)
(* operators who take and release control through HandoffService.          *)
(*                                                                         *)
(* A step of a call runs up to its next await that reads or writes shared  *)
(* state: one database transaction or one text sent.  enqueue_operation is *)
(* a point where a call may fail; what it does to crm_outbox is the        *)
(* subject of CrmOutbox, and no step here reads it.                        *)
(***************************************************************************)
EXTENDS FsmEngine, FiniteSets

CONSTANTS
    Msgs,         \* message ids
    Kinds,        \* the kinds of message the customer may send
    Calls,        \* bound: webhook deliveries, duplicates included
    Procs,        \* processes of the service
    Requests,     \* bound: take-control and release-control requests
    StartStates,  \* states of the session found at the start, "absent" if none
    OldSession,   \* the id of that session
    NoCall,       \* a missing entry of the debounce dictionaries, no message, no process
    Faults        \* which calls may raise: "db", "wa", "llm"; "crash"

ASSUME HandlerConstants ==
    /\ Kinds \subseteq {"chat", "document", "command", "media", "unsupported", "opt_out", "handoff"}
    /\ StartStates \subseteq States \cup {"absent"}
    /\ OldSession \notin Calls
    /\ Calls \cap Requests = {}
    /\ NoCall \notin Calls \cup Procs \cup Msgs
    /\ Faults \subseteq {"db", "wa", "llm", "crash"}

VARIABLES
    kind,       \* what each message says
    events,     \* conversation_events: message ids of the inbound messages
    outbound,   \* the last two outbound_message events
    silenced,   \* whether the phone is in silenced_users
    lead,       \* lead_profiles: {} or {"row"}, with "name" when it is known
    sessions,   \* sessions, by id: the rows of the customer's lead
    call,       \* the local variables of each call of handle
    request,    \* the local variables of each take or release request
    latest, tasks, timer, window,   \* Debounce
    control,    \* history: "human" from a takeover or handoff to its release
    raced,      \* history: the races of two actors over the session, "create" and "takeover"
    overtaken   \* history: the calls that were answering when a human got control

dbVars == <<events, outbound, silenced, lead, sessions>>
windowVars == <<latest, tasks, timer, window>>
vars == <<kind, dbVars, call, request, windowVars, control, raced, overtaken>>

Window == INSTANCE Debounce WITH Keys <- Procs

-----------------------------------------------------------------------------
SessionIds == Calls \cup {OldSession}

\* Of the session's context only context["handoff"] is kept.
Session == [state : States \cup {"absent"}, context : {"plain", "handoff"}]

PCs == {"new", "append", "register", "waiting", "lead", "create_lead", "session",
        "create_session", "update_lead", "decide", "apologise", "fsm", "save", "silence",
        "unsupported", "ack", "activate", "history", "respond", "persist", "fallback",
        "persist_fallback", "ended"}

Actions == {"log_transition", "update_session", "update_crm_stage", "notify_agent"}

Call == [pc : PCs, msg : Msgs \cup {NoCall}, proc : Procs \cup {NoCall}, media : {"ok", "failed"},
         facts : SUBSET {"row", "name"}, session : SessionIds, state : States,
         context : {"plain", "handoff"}, target : States, todo : Seq(Actions),
         waited : {"no", "yes"}, sent : 0..2]

Request == [pc : {"new", "write", "done"}, new_state : {"handoff_active", "idle"},
            session : SessionIds, context : {"plain", "handoff"}]

\* The rows get_by_lead_id selects.
SessionRows == {s \in SessionIds : sessions[s].state # "absent"}

\* Two calls found no session, and each is about to create one.
BothCreate == \E c, d \in Calls :
    c # d /\ call[c].pc = "create_session" /\ call[d].pc = "create_session"

\* A call that will write the row from a copy that knows of no human.
Writing(c) == /\ call[c].pc \in {"update_lead", "decide", "fsm", "save"}
              /\ call[c].state # "handoff_active"

\* A call that has written the row and may still send a text.
Replying(c) == call[c].pc \in {"apologise", "unsupported", "ack", "history", "respond",
                               "persist", "fallback"}

\* OrchestratorAgent.classify: unsupported content and keywords first.
Intent(k) ==
    CASE k = "unsupported" -> "unsupported"
      [] k = "opt_out" -> "opt_out"
      [] k = "handoff" -> "handoff_request"
      [] OTHER -> "conversation"

FsmEvent(k) ==
    CASE Intent(k) = "opt_out" -> "opt_out_detected"
      [] Intent(k) = "handoff_request" -> "handoff_requested"
      [] OTHER -> "user_message"

\* The guards that are true of _build_fsm_context: the phone is always
\* there and is_silenced is always False.
Guards(k, facts) ==
    {"always", "has_phone_number", "is_not_silenced"}
        \cup (IF Intent(k) = "opt_out" THEN {"opt_out_detected"} ELSE {})
        \cup (IF "name" \in facts THEN {"has_name"} ELSE {})
        \cup (IF k = "document" THEN {"user_requested_document"} ELSE {})

KindOf(c) == kind[call[c].msg]

\* The local variables of handle before they are assigned.
NewCall == [pc |-> "new", msg |-> NoCall, proc |-> NoCall, media |-> "ok", facts |-> {},
            session |-> OldSession, state |-> "idle", context |-> "plain", target |-> "idle",
            todo |-> << >>, waited |-> "no", sent |-> 0]

Init ==
    /\ kind \in [Msgs -> Kinds]
    /\ events = {}
    /\ outbound = << >>
    /\ silenced = "no"
    /\ \E s \in StartStates :
        /\ sessions = [i \in SessionIds |->
              IF i = OldSession THEN [state |-> s, context |-> "plain"]
              ELSE [state |-> "absent", context |-> "plain"]]
        /\ lead = IF s = "absent" THEN {} ELSE {"row"}
        /\ control = IF s = "handoff_active" THEN "human" ELSE "bot"
    /\ call = [c \in Calls |-> NewCall]
    /\ request = [r \in Requests |-> [pc |-> "new", new_state |-> "idle",
                                      session |-> OldSession, context |-> "plain"]]
    /\ Window!DebounceInit
    /\ raced = {}
    /\ overtaken = {}

-----------------------------------------------------------------------------
(***************************************************************************)
(* handle, up to the debounce window                                       *)
(***************************************************************************)

\* A call that returns or raises leaves nothing behind but its answers.
Ended(c) == [NewCall EXCEPT !.pc = "ended", !.msg = call[c].msg, !.sent = call[c].sent]

Becomes(c, locals) == call' = [call EXCEPT ![c] = locals]

Goto(c, pc) == Becomes(c, IF pc = "ended" THEN Ended(c) ELSE [call[c] EXCEPT !.pc = pc])

\* A webhook delivery, perhaps a repeated one: parse and is_silenced.
Receive(c, m, p) ==
    /\ call[c].pc = "new"
    /\ IF silenced = "yes" THEN Goto(c, "ended")
       ELSE Becomes(c, [call[c] EXCEPT !.msg = m, !.proc = p, !.pc = "append"])
    /\ UNCHANGED <<kind, dbVars, request, windowVars, control>>

\* Mutant: the event is stored without looking at the unique index.
AppendInboundTwice(c) ==
    /\ call[c].pc = "append"
    /\ events' = events \cup {call[c].msg}
    /\ Goto(c, IF KindOf(c) = "command" THEN "lead" ELSE "register")
    /\ UNCHANGED <<kind, outbound, silenced, lead, sessions, request, windowVars, control>>

\* _enrich_event_for_processing, which may find media unreadable, and append:
\* the unique index on the message id rejects a duplicate.  A command does
\* not wait in the debounce window.
AppendInbound(c) ==
    /\ call[c].pc = "append"
    /\ events' = events \cup {call[c].msg}
    /\ \/ /\ call[c].msg \in events
          /\ Goto(c, "ended")
       \/ /\ call[c].msg \notin events
          /\ \E media \in (IF KindOf(c) = "media" THEN {"ok", "failed"} ELSE {"ok"}) :
                Becomes(c, [call[c] EXCEPT !.media = media,
                                           !.pc = IF KindOf(c) = "command" THEN "lead" ELSE "register"])
    /\ UNCHANGED <<kind, outbound, silenced, lead, sessions, request, windowVars, control>>

\* Mutant: the event is registered without starting a task for it.
EnterWindowWithoutTask(c) ==
    /\ call[c].pc = "register"
    /\ latest' = [latest EXCEPT ![call[c].proc] = c]
    /\ Goto(c, "waiting")
    /\ UNCHANGED <<kind, dbVars, request, tasks, timer, window, control>>

\* _handle_with_debounce
EnterWindow(c) ==
    /\ call[c].pc = "register"
    /\ Window!Register(c, call[c].proc)
    /\ Goto(c, "waiting")
    /\ UNCHANGED <<kind, dbVars, request, control>>

\* Mutant: should_process is taken for should_defer.
LeaveWindowInverted(c) ==
    /\ call[c].pc = "waiting"
    /\ Window!Execute(c)
    /\ Goto(c, IF timer'[c] = "fired" THEN "ended" ELSE "lead")
    /\ UNCHANGED <<kind, dbVars, request, control>>

\* _debounce_execute, and handle goes on with the lead.
LeaveWindow(c) ==
    /\ call[c].pc = "waiting"
    /\ Window!Execute(c)
    /\ Goto(c, IF timer'[c] = "fired" THEN "lead" ELSE "ended")
    /\ UNCHANGED <<kind, dbVars, request, control>>

\* The task was cancelled: deferred_for_accumulation.
Deferred(c) ==
    /\ call[c].pc = "waiting" /\ timer[c] = "cancelled"
    /\ Goto(c, "ended")
    /\ UNCHANGED <<kind, dbVars, request, windowVars, control>>

-----------------------------------------------------------------------------
(***************************************************************************)
(* handle, from the lead to the session's new state                        *)
(***************************************************************************)

\* _get_or_create_lead_profile: get_by_phone
GetLead(c) ==
    /\ call[c].pc = "lead"
    /\ Becomes(c, [call[c] EXCEPT !.facts = lead, !.pc = IF lead = {} THEN "create_lead" ELSE "session"])
    /\ UNCHANGED <<kind, dbVars, request, windowVars, control>>

\* upsert_by_phone: overwrites the row a concurrent call has created.
CreateLead(c) ==
    /\ call[c].pc = "create_lead"
    /\ \E push_name \in SUBSET {"name"} :
        /\ lead' = {"row"} \cup push_name
        /\ Becomes(c, [call[c] EXCEPT !.facts = {"row"} \cup push_name, !.pc = "session"])
    /\ UNCHANGED <<kind, events, outbound, silenced, sessions, request, windowVars, control>>

\* Mutant: a closed conversation gets a new session.
GetOpenSession(c) ==
    /\ call[c].pc = "session"
    /\ \/ /\ \A s \in SessionRows : sessions[s].state = "closed"
          /\ Goto(c, "create_session")
       \/ \E s \in SessionRows :
            /\ sessions[s].state # "closed"
            /\ Becomes(c, [call[c] EXCEPT !.session = s, !.state = sessions[s].state,
                                          !.context = sessions[s].context, !.pc = "update_lead"])
    /\ UNCHANGED <<kind, dbVars, request, windowVars, control>>

\* _get_or_create_session: get_by_lead_id raises when there are two rows.
GetSession(c) ==
    /\ call[c].pc = "session"
    /\ \/ /\ SessionRows = {}
          /\ Goto(c, "create_session")
       \/ /\ Cardinality(SessionRows) > 1
          /\ Goto(c, "ended")
       \/ \E s \in SessionRows :
            /\ SessionRows = {s}
            /\ Becomes(c, [call[c] EXCEPT !.session = s, !.state = sessions[s].state,
                                          !.context = sessions[s].context, !.pc = "update_lead"])
    /\ UNCHANGED <<kind, dbVars, request, windowVars, control>>

\* upsert of a session with a new id: nothing makes lead_id unique.
CreateSession(c) ==
    /\ call[c].pc = "create_session"
    /\ sessions' = [sessions EXCEPT ![c] = [state |-> InitialState, context |-> "plain"]]
    /\ Becomes(c, [call[c] EXCEPT !.session = c, !.state = InitialState,
                                  !.context = "plain", !.pc = "update_lead"])
    /\ UNCHANGED <<kind, events, outbound, silenced, lead, request, windowVars, control>>

\* _update_lead_profile_from_inbound: nothing new, or the copy with what the
\* message tells (perhaps the name) is written over the row.
UpdateLead(c) ==
    /\ call[c].pc = "update_lead"
    /\ \/ /\ Goto(c, "decide")
          /\ UNCHANGED lead
       \/ \E learned \in SUBSET {"name"} :
            /\ lead' = call[c].facts \cup learned
            /\ Becomes(c, [call[c] EXCEPT !.facts = call[c].facts \cup learned, !.pc = "decide"])
    /\ UNCHANGED <<kind, events, outbound, silenced, sessions, request, windowVars, control>>

\* Mutant: the state of the session is not looked at before classifying.
DecideAlways(c) ==
    LET t == ProcessEvent(call[c].state, FsmEvent(KindOf(c)), Guards(KindOf(c), call[c].facts))
    IN  /\ call[c].pc = "decide"
        /\ Becomes(c, [call[c] EXCEPT !.target = t.target, !.todo = t.actions,
                                      !.pc = IF t.actions = << >> THEN "save" ELSE "fsm"])
        /\ UNCHANGED <<kind, dbVars, request, windowVars, control>>

\* _enqueue_lead_upsert, the silence of handoff_active, the answer to
\* unreadable media, classify and the transition process_event chooses.
Decide(c) ==
    LET t == ProcessEvent(call[c].state, FsmEvent(KindOf(c)), Guards(KindOf(c), call[c].facts))
    IN  /\ call[c].pc = "decide"
        /\ \/ /\ call[c].state = "handoff_active"
              /\ Goto(c, "ended")
           \/ /\ call[c].state # "handoff_active" /\ call[c].media = "failed"
              /\ Goto(c, "apologise")
           \/ /\ call[c].state # "handoff_active" /\ call[c].media = "ok"
              /\ Becomes(c, [call[c] EXCEPT !.target = t.target, !.todo = t.actions,
                                            !.pc = IF t.actions = << >> THEN "save" ELSE "fsm"])
        /\ UNCHANGED <<kind, dbVars, request, windowVars, control>>

\* Mutant: the loop goes on when the list of actions is used up.
RunActionOnce(c) ==
    /\ call[c].pc = "fsm"
    /\ Becomes(c, [call[c] EXCEPT !.todo = Tail(call[c].todo)])
    /\ UNCHANGED <<kind, dbVars, request, windowVars, control>>

\* _execute_actions, one action at a time: update_session writes the new
\* state with the context of the copy; the others write crm_outbox or send
\* a text to the agents.
RunAction(c) ==
    /\ call[c].pc = "fsm"
    /\ sessions' = IF Head(call[c].todo) = "update_session"
                   THEN [sessions EXCEPT ![call[c].session] =
                            [state |-> call[c].target, context |-> call[c].context]]
                   ELSE sessions
    /\ Becomes(c, [call[c] EXCEPT !.todo = Tail(call[c].todo),
                                  !.pc = IF Len(call[c].todo) = 1 THEN "save" ELSE "fsm"])
    /\ UNCHANGED <<kind, events, outbound, silenced, lead, request, windowVars, control>>

\* Where handle goes after _update_session_after_response.
AfterSave(k) ==
    CASE Intent(k) = "opt_out" -> "silence"
      [] Intent(k) = "handoff_request" -> "ack"
      [] Intent(k) = "unsupported" -> "unsupported"
      [] OTHER -> "history"

\* _update_session_after_response: the whole row is written again.
SaveSession(c) ==
    /\ call[c].pc = "save"
    /\ sessions' = [sessions EXCEPT ![call[c].session] =
                        [state |-> call[c].target, context |-> call[c].context]]
    /\ Becomes(c, [call[c] EXCEPT !.state = call[c].target, !.pc = AfterSave(KindOf(c))])
    /\ UNCHANGED <<kind, events, outbound, silenced, lead, request, windowVars, control>>

-----------------------------------------------------------------------------
(***************************************************************************)
(* handle, the answer                                                      *)
(***************************************************************************)

\* send_text to the customer; a call that raises may have delivered.
SendText(c, next, onError) ==
    LET after(pc, texts) ==
            Becomes(c, [(IF pc = "ended" THEN Ended(c) ELSE call[c]) EXCEPT
                            !.pc = pc, !.sent = call[c].sent + texts])
    IN  \/ after(next, 1)
        \/ "wa" \in Faults /\ (after(onError, 0) \/ after(onError, 1))

\* _send_media_processing_failure_response and _send_unsupported_message
\* swallow the errors of send_text.
SendNotice(c) ==
    /\ call[c].pc \in {"apologise", "unsupported"}
    /\ SendText(c, "ended", "ended")
    /\ UNCHANGED <<kind, dbVars, request, windowVars, control>>

\* silence
Silence(c) ==
    /\ call[c].pc = "silence"
    /\ silenced' = "yes"
    /\ Goto(c, "ended")
    /\ UNCHANGED <<kind, events, outbound, lead, sessions, request, windowVars, control>>

\* _send_handoff_acknowledgement, which swallows the errors of send_text,
\* and _route_handoff_to_branch, which only sends to the branch.
Acknowledge(c) ==
    /\ call[c].pc = "ack"
    /\ SendText(c, "activate", "activate")
    /\ UNCHANGED <<kind, dbVars, request, windowVars, control>>

\* Mutant: the session stays in handoff_pending.
ActivateNothing(c) ==
    /\ call[c].pc = "activate"
    /\ Goto(c, "ended")
    /\ control' = "human"
    /\ UNCHANGED <<kind, dbVars, request, windowVars>>

\* _activate_handoff_session
Activate(c) ==
    /\ call[c].pc = "activate"
    /\ sessions' = [sessions EXCEPT ![call[c].session] = [state |-> "handoff_active", context |-> "handoff"]]
    /\ control' = "human"
    /\ Goto(c, "ended")
    /\ UNCHANGED <<kind, events, outbound, silenced, lead, request, windowVars>>

\* _build_recent_conversation_history: has the waiting message been sent?
ReadHistory(c) ==
    /\ call[c].pc = "history"
    /\ Becomes(c, [call[c] EXCEPT !.pc = "respond",
                                  !.waited = IF \E i \in DOMAIN outbound : outbound[i] = "wait"
                                                THEN "yes" ELSE "no"])
    /\ UNCHANGED <<kind, dbVars, request, windowVars, control>>

HandoffStates == {"handoff_pending", "handoff_active"}

\* ConversationAgent.respond: in a handoff state the waiting message, once;
\* else the answer of the model.
Respond(c) ==
    /\ call[c].pc = "respond"
    /\ \/ /\ call[c].state \in HandoffStates /\ call[c].waited = "yes"
          /\ Goto(c, "ended")
       \/ /\ call[c].state \notin HandoffStates \/ call[c].waited = "no"
          /\ SendText(c, "persist", "fallback")
       \/ /\ call[c].state \notin HandoffStates /\ "llm" \in Faults
          /\ Goto(c, "fallback")
    /\ UNCHANGED <<kind, dbVars, request, windowVars, control>>

\* The last two of the outbound events and a new one.
Remember(text) ==
    LET all == Append(outbound, text)
    IN  outbound' = IF Len(all) > 2 THEN Tail(all) ELSE all

\* _persist_outbound_event; when it raises, the failure message is sent too.
Persist(c) ==
    /\ call[c].pc = "persist"
    /\ \/ /\ Remember(IF call[c].state \in HandoffStates THEN "wait" ELSE "reply")
          /\ Goto(c, "ended")
       \/ /\ "db" \in Faults
          /\ Goto(c, "fallback")
          /\ UNCHANGED outbound
    /\ UNCHANGED <<kind, events, silenced, lead, sessions, request, windowVars, control>>

\* The except clause of respond: the failure message.
Fallback(c) ==
    /\ call[c].pc = "fallback"
    /\ SendText(c, "persist_fallback", "ended")
    /\ UNCHANGED <<kind, dbVars, request, windowVars, control>>

PersistFallback(c) ==
    /\ call[c].pc = "persist_fallback"
    /\ Remember("reply")
    /\ Goto(c, "ended")
    /\ UNCHANGED <<kind, events, silenced, lead, sessions, request, windowVars, control>>

\* A repository call raises, or notify_agent's send_text does: nothing in
\* handle catches it, the webhook answers 200 all the same.
Raises(c) ==
    /\ \/ /\ "db" \in Faults
          /\ call[c].pc \in {"append", "lead", "create_lead", "session", "create_session",
                             "update_lead", "decide", "fsm", "save", "silence", "activate",
                             "history", "persist_fallback"}
       \/ /\ "wa" \in Faults
          /\ call[c].pc = "fsm" /\ Head(call[c].todo) = "notify_agent"
    /\ Goto(c, "ended")
    /\ UNCHANGED <<kind, dbVars, request, windowVars, control>>

\* A process is stopped with the calls it was running.
Crash(p) ==
    /\ "crash" \in Faults
    /\ \E c \in Calls : call[c].proc = p /\ call[c].pc \notin {"new", "ended"}
    /\ call' = [c \in Calls |-> IF call[c].proc = p /\ call[c].pc # "new"
                                THEN Ended(c) ELSE call[c]]
    /\ Window!Restart({p})
    /\ UNCHANGED <<kind, dbVars, request, control>>

-----------------------------------------------------------------------------
(***************************************************************************)
(* HandoffService.take_control and release_control                         *)
(***************************************************************************)

\* _get_session_by_lead_id raises unless there is one row.
ReadForControl(r, new_state) ==
    /\ request[r].pc = "new"
    /\ \/ /\ Cardinality(SessionRows) # 1
          /\ request' = [request EXCEPT ![r] = [request[r] EXCEPT !.pc = "done"]]
       \/ \E s \in SessionRows :
            /\ SessionRows = {s}
            /\ request' = [request EXCEPT ![r] =
                    [pc |-> "write", new_state |-> new_state,
                     session |-> s, context |-> sessions[s].context]]
    /\ UNCHANGED <<kind, dbVars, call, windowVars, control>>

\* update_state with the context read before; the system event that follows
\* is not read by anything here.
WriteControl(r) ==
    /\ request[r].pc = "write"
    /\ sessions' = [sessions EXCEPT ![request[r].session] =
                        [state |-> request[r].new_state, context |-> request[r].context]]
    /\ control' = IF request[r].new_state = "handoff_active" THEN "human" ELSE "bot"
    /\ request' = [request EXCEPT ![r] = [request[r] EXCEPT !.pc = "done"]]
    /\ UNCHANGED <<kind, events, outbound, silenced, lead, call, windowVars>>

-----------------------------------------------------------------------------
\* The continuation of a call: the event loop runs it when its await is over.
Continue(c) ==
    \/ AppendInbound(c) \/ EnterWindow(c) \/ LeaveWindow(c) \/ Deferred(c)
    \/ GetLead(c) \/ CreateLead(c) \/ GetSession(c) \/ CreateSession(c) \/ UpdateLead(c)
    \/ Decide(c) \/ RunAction(c) \/ SaveSession(c)
    \/ SendNotice(c) \/ Silence(c) \/ Acknowledge(c) \/ Activate(c)
    \/ ReadHistory(c) \/ Respond(c) \/ Persist(c) \/ Fallback(c) \/ PersistFallback(c)

Step ==
    \/ \E c \in Calls, m \in Msgs, p \in Procs : Receive(c, m, p)
    \/ \E c \in Calls : Continue(c) \/ Raises(c)
    \/ \E p \in Procs : Crash(p)
    \/ \E r \in Requests, s \in {"handoff_active", "idle"} : ReadForControl(r, s)
    \/ \E r \in Requests : WriteControl(r)

\* The history of races: two calls create a session each, or a human gets
\* control while a call has yet to write what it read before.
Observe ==
    LET given == control = "bot" /\ control' = "human"
    IN  /\ raced' = raced \cup {race \in {"create", "takeover"} :
                        \/ race = "create" /\ BothCreate'
                        \/ race = "takeover" /\ given /\ \E c \in Calls : Writing(c)'}
        /\ overtaken' = overtaken \cup {c \in Calls : given /\ Replying(c)'}

Next == Step /\ Observe

Spec == Init /\ [][Next]_vars

(***************************************************************************)
(* The event loop runs every call to its end; a database call, a model or  *)
(* WhatsApp answers or raises, for all of them have timeouts.  Deliveries, *)
(* requests, crashes and errors are not fair.                              *)
(***************************************************************************)
FairSpec == Spec /\ \A c \in Calls : WF_vars(Continue(c) /\ Observe)

-----------------------------------------------------------------------------
TypeOK ==
    /\ kind \in [Msgs -> Kinds]
    /\ events \subseteq Msgs
    /\ outbound \in Seq({"wait", "reply"}) /\ Len(outbound) <= 2
    /\ silenced \in {"no", "yes"}
    /\ lead \subseteq {"row", "name"}
    /\ sessions \in [SessionIds -> Session]
    /\ call \in [Calls -> Call]
    /\ \A c \in Calls :
        /\ call[c].pc \notin {"new", "ended"} => call[c].msg \in Msgs /\ call[c].proc \in Procs
        /\ call[c].pc = "fsm" => call[c].todo # << >>
    /\ request \in [Requests -> Request]
    /\ control \in {"bot", "human"}
    /\ raced \subseteq {"create", "takeover"} /\ overtaken \subseteq Calls
    /\ Window!DebounceTypeOK

\* A message is answered at most once, however often and in whichever
\* process it is delivered: conversation_events rejects the duplicates.  Only
\* the failure message of respond can add a second text, after an error.
OneAnswerPerMessage ==
    \A c, d \in Calls : call[c].sent > 0 =>
        /\ call[d].sent > 0 /\ call[c].msg = call[d].msg => c = d
        /\ call[c].sent <= IF Faults \cap {"db", "wa"} = {} THEN 1 ELSE 2

\* A takeover or a handoff lasts until an operator releases it: the rows of
\* the lead stay in handoff_active whatever messages arrive, unless control
\* was given over the head of a call that had read the row and was still to
\* write it, or two calls had created a session each.
TakeoverHolds ==
    raced = {} /\ control = "human" =>
        \A s \in SessionRows : sessions[s].state = "handoff_active"

\* The customer of a conversation under human control gets no text of the
\* bot but those of the calls that were answering when control was given,
\* under the same condition.
BotIsSilentUnderControl ==
    [][\A c \in Calls : call'[c].sent > call[c].sent =>
          control = "bot" \/ c \in overtaken \/ raced # {}]_vars

\* The lead has one session unless two calls found none before either had
\* created it; two rows make get_by_lead_id raise for every message from
\* then on.
OneSessionUnlessRaced == "create" \notin raced => Cardinality(SessionRows) <= 1

\* handoff_pending, the state no message leads out of, is only passed
\* through: the call that enters it goes on to handoff_active, unless
\* something raised on the way or there was a race, however many calls read
\* the row in handoff_pending meanwhile.
NoHandoffIsLeftPending ==
    Faults = {} /\ raced = {} =>
        \A s \in SessionRows : sessions[s].state = "handoff_pending" =>
            \E c \in Calls : /\ call[c].pc \in {"fsm", "save", "ack", "activate"}
                            /\ KindOf(c) = "handoff" /\ call[c].session = s

\* Whatever handle does to the dictionaries and tasks of the debounce window,
\* Debounce allows it: a message is registered once and under its own
\* process, only its task wakes it, and errors leave the window alone.
ImplementsDebounce == Window!DebounceSpec

\* Everything that is delivered is finished: a call is deferred, answered or
\* ended, and never waits for ever in the debounce window.
EveryCallEnds == \A c \in Calls : call[c].pc # "new" ~> call[c].pc = "ended"

\* Nothing a customer writes is left without an answer: the call of a
\* stored message sends a text, or it was deferred to a later message of the
\* same burst, or the customer opted out, or a human has the conversation, or
\* overlapping calls left the lead with two sessions.
StoredIsAnswered ==
    \A c \in Calls : call[c].pc \in {"register", "lead"} ~>
        \/ call[c].sent > 0
        \/ timer[c] = "cancelled"
        \/ silenced = "yes" \/ control = "human" \/ Cardinality(SessionRows) > 1

\* No call is running.
Quiet == \A c \in Calls : call[c].pc \in {"new", "ended"}

\* test_opt_out_message_silences_user_and_skips_responder: an opt-out that
\* was received silences the phone.
OptOutIsHonoured ==
    Quiet /\ (\E m \in events : kind[m] = "opt_out") => silenced = "yes"

\* docs/PRUEBA-WHATSAPP.md:50: once control is taken, the conversation stays
\* with the human.
TakeoverIsKept ==
    control = "human" => \A s \in SessionRows : sessions[s].state = "handoff_active"

\* scalar_one_or_none in get_by_lead_id: a lead has at most one session.
OneSessionPerLead == Cardinality(SessionRows) <= 1
=============================================================================
