------------------------- MODULE InboundHandlerProofs -------------------------
(***************************************************************************)
(* What a conversation keeps for every number of deliveries, messages,     *)
(* processes and operators, and for every choice of the calls that fail.   *)
(***************************************************************************)
EXTENDS InboundHandler, FiniteSetTheorems, SequenceTheorems, TLAPS

-----------------------------------------------------------------------------
(***************************************************************************)
(* The state machine                                                       *)
(***************************************************************************)

\* A transition leads to a state and names actions, and only the customer's
\* request leads to handoff_pending.
SoundTransition(t) ==
    /\ t.target \in States
    /\ t.actions \in Seq(Actions)
    /\ t.target = "handoff_pending" => t.event = "handoff_requested"

LEMMA SoundT ==
  ASSUME NEW e, NEW g, NEW t \in States, NEW a \in Seq(Actions),
         t = "handoff_pending" => e = "handoff_requested"
  PROVE  SoundTransition(T(e, g, t, a))
  BY DEF SoundTransition, T

\* Every transition of the configuration is sound; a state has one to four.
LEMMA TransitionsAreSound ==
  ASSUME NEW s \in States
  PROVE  \E n \in 1..4 : /\ DOMAIN Transitions[s] = 1..n
                         /\ \A i \in 1..n : SoundTransition(Transitions[s][i])
<1> DEFINE L == <<"log_transition">>
           LC == <<"log_transition", "update_crm_stage">>
<1>1. L \in Seq(Actions) /\ LC \in Seq(Actions)
      /\ <<"log_transition", "notify_agent">> \in Seq(Actions)
  BY DEF Actions
<1>2. ASSUME NEW e, NEW g, NEW t \in States, t # "handoff_pending"
      PROVE  SoundTransition(T(e, g, t, L)) /\ SoundTransition(T(e, g, t, LC))
  BY <1>1, <1>2, SoundT
<1>3. /\ SoundTransition(HandoffRequested) /\ SoundTransition(OptOutDetected)
      /\ SoundTransition(Reactivation)
  BY <1>1, SoundT DEF HandoffRequested, OptOutDetected, Reactivation, States
<1>4. {"greeting", "discovery", "qualification", "catalog_navigation", "document_delivery",
       "objection_handling", "appointment_flow", "closed"} \subseteq States
  BY DEF States
<1>5. CASE s = "idle"
  <2>1. Transitions[s] = <<T("user_message", "is_not_silenced", "greeting", LC),
                           HandoffRequested, OptOutDetected>>
    BY <1>5 DEF Transitions
  <2> HIDE DEF L, LC
  <2> QED
    BY <1>2, <1>3, <1>4, <2>1
<1>6. CASE s = "greeting"
  <2>1. Transitions[s] = <<T("user_message", "is_not_silenced", "discovery", L),
                           HandoffRequested, OptOutDetected>>
    BY <1>6 DEF Transitions
  <2> HIDE DEF L, LC
  <2> QED
    BY <1>2, <1>3, <1>4, <2>1
<1>7. CASE s = "discovery"
  <2>1. Transitions[s] = <<T("user_message", "has_name", "qualification", LC),
                           T("user_message", "always", "catalog_navigation", L),
                           HandoffRequested, OptOutDetected>>
    BY <1>7 DEF Transitions
  <2> HIDE DEF L, LC
  <2> QED
    BY <1>2, <1>3, <1>4, <2>1
<1>8. CASE s = "qualification"
  <2>1. Transitions[s] = <<
                           T("user_message", "has_phone_number", "catalog_navigation", L),
                           T("user_message", "always", "objection_handling", L),
                           HandoffRequested, OptOutDetected>>
    BY <1>8 DEF Transitions
  <2> HIDE DEF L, LC
  <2> QED
    BY <1>2, <1>3, <1>4, <2>1
<1>9. CASE s = "catalog_navigation"
  <2>1. Transitions[s] = <<
                           T("user_message", "user_requested_document", "document_delivery", L),
                           HandoffRequested, OptOutDetected,
                           T("user_message", "always", "catalog_navigation", LC)>>
    BY <1>9 DEF Transitions
  <2> HIDE DEF L, LC
  <2> QED
    BY <1>2, <1>3, <1>4, <2>1
<1>10. CASE s = "document_delivery"
  <2>1. Transitions[s] = <<T("user_message", "always", "objection_handling", L),
                           T("user_message", "has_phone_number", "appointment_flow", L),
                           HandoffRequested, OptOutDetected>>
    BY <1>10 DEF Transitions
  <2> HIDE DEF L, LC
  <2> QED
    BY <1>2, <1>3, <1>4, <2>1
<1>11. CASE s = "objection_handling"
  <2>1. Transitions[s] = <<T("user_message", "always", "catalog_navigation", L),
                           T("user_message", "has_phone_number", "appointment_flow", L),
                           HandoffRequested, OptOutDetected>>
    BY <1>11 DEF Transitions
  <2> HIDE DEF L, LC
  <2> QED
    BY <1>2, <1>3, <1>4, <2>1
<1>12. CASE s = "appointment_flow"
  <2>1. Transitions[s] = <<HandoffRequested, OptOutDetected,
                           T("user_message", "has_phone_number", "closed", LC)>>
    BY <1>12 DEF Transitions
  <2> HIDE DEF L, LC
  <2> QED
    BY <1>2, <1>3, <1>4, <2>1
<1>13. CASE s = "handoff_pending"
  <2>1. Transitions[s] = <<OptOutDetected>>
    BY <1>13 DEF Transitions
  <2> HIDE DEF L, LC
  <2> QED
    BY <1>2, <1>3, <1>4, <2>1
<1>14. CASE s = "handoff_active"
  <2>1. Transitions[s] = <<OptOutDetected>>
    BY <1>14 DEF Transitions
  <2> HIDE DEF L, LC
  <2> QED
    BY <1>2, <1>3, <1>4, <2>1
<1>15. CASE s = "cooldown"
  <2>1. Transitions[s] = <<Reactivation, OptOutDetected>>
    BY <1>15 DEF Transitions
  <2> HIDE DEF L, LC
  <2> QED
    BY <1>2, <1>3, <1>4, <2>1
<1>16. CASE s = "closed"
  <2>1. Transitions[s] = <<Reactivation, HandoffRequested>>
    BY <1>16 DEF Transitions
  <2> HIDE DEF L, LC
  <2> QED
    BY <1>2, <1>3, <1>4, <2>1
<1> QED
  BY <1>5, <1>6, <1>7, <1>8, <1>9, <1>10, <1>11, <1>12, <1>13, <1>14, <1>15, <1>16 DEF States

LEMMA OnEnterFacts ==
  ASSUME NEW s
  PROVE  OnEnter(s) \in Seq(Actions)
<1>1. \/ OnEnter(s) = <<"update_session">>
      \/ OnEnter(s) = <<"update_session", "notify_agent">>
      \/ OnEnter(s) = <<"update_session", "update_crm_stage">>
  BY Zenon DEF OnEnter
<1>2. /\ <<"update_session">> \in Seq(Actions)
      /\ <<"update_session", "notify_agent">> \in Seq(Actions)
      /\ <<"update_session", "update_crm_stage">> \in Seq(Actions)
  BY DEF Actions
<1> QED
  BY <1>1, <1>2

LEMMA SmallSetHasMinimum ==
  ASSUME NEW S, S \subseteq {1, 2, 3, 4}, S # {}
  PROVE  \E i \in S : \A j \in S : i <= j
<1>1. CASE 1 \in S
  BY <1>1
<1>2. CASE 1 \notin S /\ 2 \in S
  BY <1>2
<1>3. CASE 1 \notin S /\ 2 \notin S /\ 3 \in S
  BY <1>3
<1>4. CASE S = {4}
  BY <1>4
<1> QED
  BY <1>1, <1>2, <1>3, <1>4

\* The transition process_event chooses is one of the configuration.
LEMMA ProcessEventFacts ==
  ASSUME NEW s \in States, NEW event, NEW guards
  PROVE  LET t == ProcessEvent(s, event, guards)
         IN  /\ t.target \in States
             /\ t.actions \in Seq(Actions)
             /\ t.target = "handoff_pending" => s = "handoff_pending" \/ event = "handoff_requested"
<1> DEFINE M == Matching(s, event, guards)
           first == CHOOSE i \in M : \A j \in M : i <= j
           t == ProcessEvent(s, event, guards)
<1>1. CASE M = {}
  <2>1. t = [target |-> s, actions |-> << >>]
    BY <1>1 DEF ProcessEvent
  <2> QED
    BY <2>1
<1>2. CASE M # {}
  <2>1. PICK n \in 1..4 : /\ DOMAIN Transitions[s] = 1..n
                          /\ \A i \in 1..n : SoundTransition(Transitions[s][i])
    BY TransitionsAreSound
  <2>2. M \subseteq 1..n /\ \A i \in M : Transitions[s][i].event = event
    BY <2>1 DEF Matching
  <2>3. \E i \in M : \A j \in M : i <= j
    <3> HIDE DEF M
    <3>1. M \subseteq {1, 2, 3, 4}
      BY <2>2
    <3> QED
      BY <1>2, <3>1, SmallSetHasMinimum
  <2>4. first \in M
    BY <2>3
  <2> DEFINE chosen == Transitions[s][first]
  <2>5. t = [target |-> chosen.target, actions |-> chosen.actions \o OnEnter(chosen.target)]
    BY <1>2 DEF ProcessEvent
  <2>6. SoundTransition(chosen) /\ chosen.event = event
    BY <2>1, <2>2, <2>4
  <2> HIDE DEF M, first, chosen
  <2>7. OnEnter(chosen.target) \in Seq(Actions)
    BY OnEnterFacts
  <2> QED
    BY <2>5, <2>6, <2>7 DEF SoundTransition
<1> QED
  BY <1>1, <1>2

\* The classification of a message, and where its call goes after the save.
LEMMA KindFacts ==
  ASSUME NEW k
  PROVE  /\ FsmEvent(k) = "handoff_requested" => k = "handoff"
         /\ AfterSave(k) \in {"silence", "ack", "unsupported", "history"}
         /\ k = "handoff" => AfterSave(k) = "ack"
<1>1. Intent(k) = "handoff_request" => k = "handoff"
  BY Zenon DEF Intent
<1>2. k = "handoff" => Intent(k) = "handoff_request"
  BY Zenon DEF Intent
<1>3. FsmEvent(k) = "handoff_requested" => Intent(k) = "handoff_request"
  BY Zenon DEF FsmEvent
<1>4. AfterSave(k) \in {"silence", "ack", "unsupported", "history"}
  BY Zenon DEF AfterSave
<1>5. Intent(k) = "handoff_request" => AfterSave(k) = "ack"
  BY Zenon DEF AfterSave
<1> QED
  BY <1>1, <1>2, <1>3, <1>4, <1>5

-----------------------------------------------------------------------------
(***************************************************************************)
(* Types                                                                   *)
(***************************************************************************)

\* How many texts a call may have sent at its pc: none up to the one that is
\* its answer, and a second one only as the failure message of respond.
Sending == {"activate", "persist", "fallback", "persist_fallback", "ended"}

Fits(pc, n) ==
    /\ n \in 0..2
    /\ pc \notin Sending => n = 0
    /\ pc \in {"activate", "persist", "fallback"} => n <= 1
    /\ Faults \cap {"db", "wa"} = {} => n <= 1 /\ (pc = "fallback" => n = 0)

\* The local variables a call may have at its pc.
Locals(l) ==
    /\ l \in Call
    /\ l.pc \notin {"new", "ended"} => l.msg \in Msgs /\ l.proc \in Procs
    /\ l.pc = "fsm" => l.todo # << >>
    /\ Fits(l.pc, l.sent)

CallsOK == call \in [Calls -> Call] /\ \A c \in Calls : Locals(call[c])

\* The parts of TypeOK that are not the locals of the calls.
TablesOK ==
    /\ kind \in [Msgs -> Kinds]
    /\ events \subseteq Msgs
    /\ outbound \in Seq({"wait", "reply"}) /\ Len(outbound) <= 2
    /\ silenced \in {"no", "yes"}
    /\ lead \subseteq {"row", "name"}
    /\ sessions \in [SessionIds -> Session]
    /\ request \in [Requests -> Request]
    /\ control \in {"bot", "human"}

RacesOK == raced \subseteq {"create", "takeover"} /\ overtaken \subseteq Calls

LEMMA TypeParts ==
  CallsOK /\ TablesOK /\ RacesOK /\ Window!DebounceTypeOK => TypeOK
  BY DEF TypeOK, CallsOK, TablesOK, RacesOK, Locals

\* Only the call c goes on.
Alone(c) == \A d \in Calls : d # c => call'[d] = call[d]

LEMMA BecomesFacts ==
  ASSUME CallsOK, NEW c \in Calls, NEW l, Becomes(c, l)
  PROVE  call'[c] = l /\ Alone(c)
  BY DEF CallsOK, Becomes, Alone

LEMMA BecomesOK ==
  ASSUME CallsOK, NEW c \in Calls, NEW l, Becomes(c, l), Locals(l)
  PROVE  CallsOK'
  BY DEF CallsOK, Becomes, Locals

\* A change of pc alone keeps the other local variables.
LEMMA PcFacts ==
  ASSUME NEW l \in Call, NEW pc \in PCs
  PROVE  LET n == [l EXCEPT !.pc = pc]
         IN  /\ n \in Call
             /\ n.pc = pc /\ n.msg = l.msg /\ n.proc = l.proc /\ n.session = l.session
             /\ n.state = l.state /\ n.context = l.context /\ n.target = l.target
             /\ n.todo = l.todo /\ n.sent = l.sent
<1> DEFINE n == [l EXCEPT !.pc = pc]
<1>1. n \in Call
  BY DEF Call
<1>2. n.pc = pc /\ n.msg = l.msg /\ n.proc = l.proc /\ n.session = l.session
  BY DEF Call
<1>3. n.state = l.state /\ n.context = l.context /\ n.target = l.target
  BY DEF Call
<1>4. n.todo = l.todo /\ n.sent = l.sent
  BY DEF Call
<1> QED
  BY <1>1, <1>2, <1>3, <1>4

\* What a call keeps when it ends.
LEMMA EndedFacts ==
  ASSUME NEW c, Locals(call[c])
  PROVE  /\ Locals(Ended(c))
         /\ Ended(c).pc = "ended" /\ Ended(c).msg = call[c].msg /\ Ended(c).sent = call[c].sent
<1> DEFINE m == call[c].msg
           n == call[c].sent
<1>1. m \in Msgs \cup {NoCall} /\ n \in 0..2
  BY DEF Locals, Call
<1>2. NewCall \in Call
  <2>1. /\ OldSession \in SessionIds /\ "idle" \in States /\ << >> \in Seq(Actions)
        /\ "new" \in PCs
    BY DEF PCs, SessionIds, States
  <2> QED
    BY <2>1 DEF NewCall, Call
<1>3. "ended" \in PCs
  BY DEF PCs
<1>4. Fits("ended", n)
  BY DEF Locals, Fits, Sending
<1> HIDE DEF m, n
<1>5. [NewCall EXCEPT !.pc = "ended", !.msg = m, !.sent = n] \in Call
  BY <1>1, <1>2, <1>3 DEF Call
<1>6. LET e == [NewCall EXCEPT !.pc = "ended", !.msg = m, !.sent = n]
      IN  e.pc = "ended" /\ e.msg = m /\ e.sent = n
  BY <1>2 DEF Call
<1> QED
  BY <1>4, <1>5, <1>6 DEF Locals, Ended, m, n

KeepsAnswer(c) == call'[c].msg = call[c].msg /\ call'[c].sent = call[c].sent

KeepsSession(c) ==
    call'[c].session = call[c].session /\ call'[c].state = call[c].state
    /\ call'[c].target = call[c].target

\* A call that only goes on to pc.
LEMMA GotoFacts ==
  ASSUME CallsOK, NEW c \in Calls, NEW pc \in PCs, Goto(c, pc), pc \notin {"new", "fsm"},
         pc # "ended" => call[c].pc \notin {"new", "ended"} /\ Fits(pc, call[c].sent)
  PROVE  /\ CallsOK' /\ Alone(c) /\ call'[c].pc = pc /\ KeepsAnswer(c)
         /\ pc # "ended" => KeepsSession(c)
<1>1. Locals(call[c]) /\ call[c] \in Call
  BY DEF CallsOK, Locals
<1>2. CASE pc = "ended"
  <2>1. Becomes(c, Ended(c))
    BY <1>2 DEF Goto
  <2> QED
    BY <1>1, <1>2, <2>1, EndedFacts, BecomesOK, BecomesFacts DEF KeepsAnswer
<1>3. CASE pc # "ended"
  <2> DEFINE l == [call[c] EXCEPT !.pc = pc]
  <2>1. /\ l \in Call /\ l.pc = pc /\ l.msg = call[c].msg /\ l.proc = call[c].proc
        /\ l.session = call[c].session /\ l.state = call[c].state /\ l.target = call[c].target
        /\ l.sent = call[c].sent
    BY <1>1, PcFacts
  <2>2. Becomes(c, l)
    BY <1>3 DEF Goto
  <2> HIDE DEF l
  <2>3. Locals(l)
    BY <1>1, <1>3, <2>1 DEF Locals
  <2> QED
    BY <1>3, <2>1, <2>2, <2>3, BecomesOK, BecomesFacts DEF KeepsAnswer, KeepsSession
<1> QED
  BY <1>2, <1>3

\* A call that sends a text and goes on, whether send_text raises or not.
LEMMA SendFacts ==
  ASSUME CallsOK, NEW c \in Calls, NEW next \in PCs, NEW onError \in PCs,
         SendText(c, next, onError), call[c].pc \notin {"new", "ended"},
         {next, onError} \cap {"new", "fsm"} = {},
         Fits(next, call[c].sent + 1),
         "wa" \in Faults => Fits(onError, call[c].sent) /\ Fits(onError, call[c].sent + 1)
  PROVE  /\ CallsOK' /\ Alone(c) /\ call'[c].msg = call[c].msg
         /\ call'[c].pc \in {next, onError}
         /\ call'[c].sent \in {call[c].sent, call[c].sent + 1}
         /\ call'[c].pc # "ended" => KeepsSession(c)
<1>1. Locals(call[c]) /\ call[c] \in Call
  BY DEF CallsOK, Locals
<1>2. ASSUME NEW pc \in {next, onError}, NEW texts \in {0, 1}, Fits(pc, call[c].sent + texts),
             Becomes(c, [(IF pc = "ended" THEN Ended(c) ELSE call[c]) EXCEPT
                            !.pc = pc, !.sent = call[c].sent + texts])
      PROVE  /\ CallsOK' /\ Alone(c) /\ call'[c].msg = call[c].msg /\ call'[c].pc = pc
             /\ call'[c].sent = call[c].sent + texts
             /\ pc # "ended" => KeepsSession(c)
  <2> DEFINE b == IF pc = "ended" THEN Ended(c) ELSE call[c]
             n == call[c].sent + texts
             l == [b EXCEPT !.pc = pc, !.sent = n]
  <2>1. /\ b \in Call /\ b.msg = call[c].msg
        /\ pc # "ended" => b = call[c]
    BY <1>1, EndedFacts DEF Locals
  <2>2. n \in 0..2
    BY <1>2 DEF Fits
  <2> HIDE DEF b, n
  <2>3. l \in Call
    BY <2>1, <2>2 DEF Call
  <2>4. l.pc = pc /\ l.sent = n /\ l.msg = b.msg /\ l.proc = b.proc
    BY <2>1 DEF Call
  <2>5. l.session = b.session /\ l.state = b.state /\ l.target = b.target
    BY <2>1 DEF Call
  <2>6. Becomes(c, l)
    BY <1>2 DEF b, n
  <2> HIDE DEF l
  <2>7. Fits(l.pc, l.sent)
    BY <1>2, <2>4 DEF n
  <2>8. Locals(l)
    BY <1>1, <2>1, <2>3, <2>4, <2>7 DEF Locals
  <2>9. CallsOK' /\ Alone(c) /\ call'[c] = l
    BY <2>6, <2>8, BecomesOK, BecomesFacts
  <2> QED
    BY <2>1, <2>4, <2>5, <2>9 DEF KeepsSession, n
<1>3. call[c].sent + 0 = call[c].sent
  BY <1>1 DEF Call
<1>4. CASE Becomes(c, [(IF next = "ended" THEN Ended(c) ELSE call[c]) EXCEPT
                          !.pc = next, !.sent = call[c].sent + 1])
  BY <1>2, <1>4
<1>5. CASE "wa" \in Faults /\ Becomes(c, [(IF onError = "ended" THEN Ended(c) ELSE call[c]) EXCEPT
                                             !.pc = onError, !.sent = call[c].sent + 0])
  BY <1>2, <1>3, <1>5
<1>6. CASE "wa" \in Faults /\ Becomes(c, [(IF onError = "ended" THEN Ended(c) ELSE call[c]) EXCEPT
                                             !.pc = onError, !.sent = call[c].sent + 1])
  BY <1>2, <1>6
<1> QED
  BY <1>4, <1>5, <1>6 DEF SendText

-----------------------------------------------------------------------------
(***************************************************************************)
(* What each step does to the locals of its call                           *)
(***************************************************************************)

LEMMA ReceiveFacts ==
  ASSUME CallsOK, NEW c \in Calls, NEW m \in Msgs, NEW p \in Procs, Receive(c, m, p)
  PROVE  /\ CallsOK' /\ Alone(c) /\ call[c].pc = "new" /\ call'[c].pc \in {"append", "ended"}
         /\ call'[c].sent = 0
<1>1. Locals(call[c]) /\ call[c] \in Call /\ call[c].pc = "new" /\ call[c].sent = 0
  BY DEF CallsOK, Locals, Receive, Fits, Sending
<1>2. CASE Goto(c, "ended")
  BY <1>1, <1>2, GotoFacts DEF PCs, KeepsAnswer
<1>3. CASE Becomes(c, [call[c] EXCEPT !.msg = m, !.proc = p, !.pc = "append"])
  <2> DEFINE l == [call[c] EXCEPT !.msg = m, !.proc = p, !.pc = "append"]
  <2>1. l \in Call /\ l.msg = m /\ l.proc = p /\ l.pc = "append" /\ l.sent = call[c].sent
    BY <1>1 DEF Call, PCs
  <2> HIDE DEF l
  <2>2. Locals(l)
    BY <1>1, <2>1 DEF Locals, Fits
  <2> QED
    BY <1>1, <1>3, <2>1, <2>2, BecomesOK, BecomesFacts DEF l
<1> QED
  BY <1>1, <1>2, <1>3 DEF Receive

LEMMA AppendInboundFacts ==
  ASSUME CallsOK, NEW c \in Calls, AppendInbound(c)
  PROVE  /\ CallsOK' /\ Alone(c) /\ call[c].pc = "append" /\ KeepsAnswer(c) /\ call[c].sent = 0
         /\ \/ call[c].msg \in events /\ call'[c].pc = "ended"
            \/ call[c].msg \notin events /\ call'[c].pc \in {"lead", "register"}
<1>1. Locals(call[c]) /\ call[c] \in Call /\ call[c].pc = "append" /\ call[c].sent = 0
  BY DEF CallsOK, Locals, AppendInbound, Fits, Sending
<1>2. CASE call[c].msg \in events /\ Goto(c, "ended")
  BY <1>1, <1>2, GotoFacts DEF PCs
<1>3. ASSUME NEW media \in {"ok", "failed"}, NEW pc \in {"lead", "register"},
             Becomes(c, [call[c] EXCEPT !.media = media, !.pc = pc])
      PROVE  CallsOK' /\ Alone(c) /\ KeepsAnswer(c) /\ call'[c].pc = pc
  <2> DEFINE l == [call[c] EXCEPT !.media = media, !.pc = pc]
  <2>1. l \in Call /\ l.pc = pc /\ l.sent = call[c].sent /\ l.msg = call[c].msg /\ l.proc = call[c].proc
    BY <1>1 DEF Call, PCs
  <2> HIDE DEF l
  <2>2. Locals(l)
    BY <1>1, <2>1 DEF Locals, Fits
  <2> QED
    BY <1>3, <2>1, <2>2, BecomesOK, BecomesFacts DEF l, KeepsAnswer
<1>4. CASE /\ call[c].msg \notin events
           /\ \E media \in (IF KindOf(c) = "media" THEN {"ok", "failed"} ELSE {"ok"}) :
                 Becomes(c, [call[c] EXCEPT !.media = media,
                                            !.pc = IF KindOf(c) = "command" THEN "lead" ELSE "register"])
  <2> DEFINE pc == IF KindOf(c) = "command" THEN "lead" ELSE "register"
  <2>1. PICK media \in {"ok", "failed"} : Becomes(c, [call[c] EXCEPT !.media = media, !.pc = pc])
    BY <1>4
  <2>2. pc \in {"lead", "register"}
    OBVIOUS
  <2> HIDE DEF pc
  <2> QED
    BY <1>1, <1>3, <1>4, <2>1, <2>2
<1> QED
  BY <1>1, <1>2, <1>4 DEF AppendInbound

\* The steps that only go on to another pc.
LEMMA EnterWindowFacts ==
  ASSUME CallsOK, NEW c \in Calls, EnterWindow(c)
  PROVE  CallsOK' /\ Alone(c) /\ call[c].pc = "register" /\ call'[c].pc = "waiting" /\ KeepsAnswer(c)
  BY GotoFacts DEF EnterWindow, CallsOK, Locals, Fits, Sending, PCs

LEMMA LeaveWindowFacts ==
  ASSUME CallsOK, NEW c \in Calls, LeaveWindow(c)
  PROVE  /\ CallsOK' /\ Alone(c) /\ call[c].pc = "waiting" /\ call'[c].pc \in {"lead", "ended"}
         /\ KeepsAnswer(c)
<1> DEFINE pc == IF timer'[c] = "fired" THEN "lead" ELSE "ended"
<1>1. call[c].pc = "waiting" /\ Goto(c, pc) /\ pc \in {"lead", "ended"}
  BY DEF LeaveWindow
<1> HIDE DEF pc
<1> QED
  BY <1>1, GotoFacts DEF CallsOK, Locals, Fits, Sending, PCs

LEMMA DeferredFacts ==
  ASSUME CallsOK, NEW c \in Calls, Deferred(c)
  PROVE  CallsOK' /\ Alone(c) /\ call[c].pc = "waiting" /\ call'[c].pc = "ended" /\ KeepsAnswer(c)
  BY GotoFacts DEF Deferred, PCs

LEMMA SilenceFacts ==
  ASSUME CallsOK, NEW c \in Calls, Silence(c)
  PROVE  CallsOK' /\ Alone(c) /\ call[c].pc = "silence" /\ call'[c].pc = "ended" /\ KeepsAnswer(c)
  BY GotoFacts DEF Silence, PCs

LEMMA ActivateFacts ==
  ASSUME CallsOK, NEW c \in Calls, Activate(c)
  PROVE  CallsOK' /\ Alone(c) /\ call[c].pc = "activate" /\ call'[c].pc = "ended" /\ KeepsAnswer(c)
  BY GotoFacts DEF Activate, PCs

LEMMA PersistFacts ==
  ASSUME CallsOK, NEW c \in Calls, Persist(c)
  PROVE  /\ CallsOK' /\ Alone(c) /\ call[c].pc = "persist" /\ call'[c].pc \in {"ended", "fallback"}
         /\ KeepsAnswer(c)
         /\ call'[c].pc # "ended" => KeepsSession(c)
<1>1. CASE Goto(c, "ended")
  BY <1>1, GotoFacts DEF Persist, PCs
<1>2. CASE "db" \in Faults /\ Goto(c, "fallback")
  <2>1. Fits("fallback", call[c].sent)
    BY <1>2 DEF Persist, CallsOK, Locals, Fits, Sending
  <2> QED
    BY <1>2, <2>1, GotoFacts DEF Persist, PCs
<1> QED
  BY <1>1, <1>2 DEF Persist

LEMMA PersistFallbackFacts ==
  ASSUME CallsOK, NEW c \in Calls, PersistFallback(c)
  PROVE  /\ CallsOK' /\ Alone(c) /\ call[c].pc = "persist_fallback" /\ call'[c].pc = "ended"
         /\ KeepsAnswer(c)
  BY GotoFacts DEF PersistFallback, PCs

RaisingPCs == {"append", "lead", "create_lead", "session", "create_session", "update_lead",
               "decide", "fsm", "save", "silence", "activate", "history", "persist_fallback"}

LEMMA RaisesFacts ==
  ASSUME CallsOK, NEW c \in Calls, Raises(c)
  PROVE  /\ CallsOK' /\ Alone(c) /\ call[c].pc \in RaisingPCs /\ call'[c].pc = "ended"
         /\ KeepsAnswer(c) /\ Faults # {}
  BY GotoFacts DEF Raises, PCs, RaisingPCs

\* The steps that read or write the lead's row.
LEMMA FactsOK ==
  ASSUME CallsOK, NEW c \in Calls, NEW facts \in SUBSET {"row", "name"}, NEW pc \in PCs,
         Becomes(c, [call[c] EXCEPT !.facts = facts, !.pc = pc]), call[c].pc \notin {"new", "ended"},
         pc # "fsm", Fits(pc, call[c].sent)
  PROVE  CallsOK' /\ Alone(c) /\ call'[c].pc = pc /\ KeepsAnswer(c) /\ KeepsSession(c)
<1> DEFINE l == [call[c] EXCEPT !.facts = facts, !.pc = pc]
<1>1. Locals(call[c]) /\ call[c] \in Call
  BY DEF CallsOK, Locals
<1>2. l \in Call /\ l.pc = pc /\ l.sent = call[c].sent /\ l.msg = call[c].msg /\ l.proc = call[c].proc
  BY <1>1 DEF Call, PCs
<1>3. l.session = call[c].session /\ l.state = call[c].state /\ l.target = call[c].target
  BY <1>1 DEF Call
<1>4. Becomes(c, l)
  OBVIOUS
<1> HIDE DEF l
<1>5. Locals(l)
  BY <1>1, <1>2 DEF Locals
<1> QED
  BY <1>2, <1>3, <1>4, <1>5, BecomesOK, BecomesFacts DEF KeepsAnswer, KeepsSession

LEMMA GetLeadFacts ==
  ASSUME CallsOK, TablesOK, NEW c \in Calls, GetLead(c)
  PROVE  /\ CallsOK' /\ Alone(c) /\ call[c].pc = "lead" /\ call'[c].pc \in {"create_lead", "session"}
         /\ KeepsAnswer(c)
<1> DEFINE pc == IF lead = {} THEN "create_lead" ELSE "session"
<1>1. /\ Becomes(c, [call[c] EXCEPT !.facts = lead, !.pc = pc]) /\ call[c].pc = "lead"
      /\ pc \in {"create_lead", "session"} /\ lead \in SUBSET {"row", "name"}
  BY DEF GetLead, TablesOK
<1> HIDE DEF pc
<1>2. Fits(pc, call[c].sent)
  BY <1>1 DEF CallsOK, Locals, Fits, Sending
<1> QED
  BY <1>1, <1>2, FactsOK DEF PCs

LEMMA CreateLeadFacts ==
  ASSUME CallsOK, NEW c \in Calls, CreateLead(c)
  PROVE  /\ CallsOK' /\ Alone(c) /\ call[c].pc = "create_lead" /\ call'[c].pc = "session"
         /\ KeepsAnswer(c) /\ lead' \subseteq {"row", "name"}
<1>1. PICK push_name \in SUBSET {"name"} :
         /\ lead' = {"row"} \cup push_name
         /\ Becomes(c, [call[c] EXCEPT !.facts = {"row"} \cup push_name, !.pc = "session"])
  BY DEF CreateLead
<1>2. {"row"} \cup push_name \in SUBSET {"row", "name"}
  OBVIOUS
<1>3. Fits("session", call[c].sent)
  BY DEF CreateLead, CallsOK, Locals, Fits, Sending
<1> QED
  BY <1>1, <1>2, <1>3, FactsOK DEF CreateLead, PCs

LEMMA UpdateLeadFacts ==
  ASSUME CallsOK, TablesOK, NEW c \in Calls, UpdateLead(c)
  PROVE  /\ CallsOK' /\ Alone(c) /\ call[c].pc = "update_lead" /\ call'[c].pc = "decide"
         /\ KeepsAnswer(c) /\ KeepsSession(c) /\ lead' \subseteq {"row", "name"}
<1>1. Fits("decide", call[c].sent) /\ call[c].facts \subseteq {"row", "name"}
  BY DEF UpdateLead, CallsOK, Locals, Fits, Sending, Call
<1>2. CASE Goto(c, "decide") /\ UNCHANGED lead
  BY <1>1, <1>2, GotoFacts DEF UpdateLead, PCs, TablesOK
<1>3. CASE \E learned \in SUBSET {"name"} :
             /\ lead' = call[c].facts \cup learned
             /\ Becomes(c, [call[c] EXCEPT !.facts = call[c].facts \cup learned, !.pc = "decide"])
  <2>1. PICK learned \in SUBSET {"name"} :
             /\ lead' = call[c].facts \cup learned
             /\ Becomes(c, [call[c] EXCEPT !.facts = call[c].facts \cup learned, !.pc = "decide"])
    BY <1>3
  <2>2. call[c].facts \cup learned \in SUBSET {"row", "name"}
    BY <1>1
  <2> QED
    BY <1>1, <2>1, <2>2, FactsOK DEF UpdateLead, PCs
<1> QED
  BY <1>2, <1>3 DEF UpdateLead

\* The steps that read or write a session.
LEMMA SessionOK ==
  ASSUME CallsOK, NEW c \in Calls, NEW s \in SessionIds, NEW state \in States,
         NEW context \in {"plain", "handoff"}, call[c].pc \in {"session", "create_session"},
         Becomes(c, [call[c] EXCEPT !.session = s, !.state = state,
                                    !.context = context, !.pc = "update_lead"])
  PROVE  /\ CallsOK' /\ Alone(c) /\ call'[c].pc = "update_lead" /\ KeepsAnswer(c)
         /\ call'[c].session = s /\ call'[c].state = state
<1> DEFINE l == [call[c] EXCEPT !.session = s, !.state = state,
                                !.context = context, !.pc = "update_lead"]
<1>1. Locals(call[c]) /\ call[c] \in Call
  BY DEF CallsOK, Locals
<1>2. l \in Call /\ l.pc = "update_lead"
  BY <1>1 DEF Call, PCs
<1>3. l.sent = call[c].sent /\ l.msg = call[c].msg /\ l.proc = call[c].proc
  BY <1>1 DEF Call
<1>4. l.session = s /\ l.state = state
  BY <1>1 DEF Call
<1>5. Becomes(c, l)
  OBVIOUS
<1> HIDE DEF l
<1>6. Locals(l)
  BY <1>1, <1>2, <1>3 DEF Locals, Fits, Sending
<1> QED
  BY <1>2, <1>3, <1>4, <1>5, <1>6, BecomesOK, BecomesFacts DEF KeepsAnswer

LEMMA GetSessionFacts ==
  ASSUME CallsOK, TablesOK, NEW c \in Calls, GetSession(c)
  PROVE  /\ CallsOK' /\ Alone(c) /\ call[c].pc = "session" /\ KeepsAnswer(c)
         /\ \/ call'[c].pc = "create_session" /\ SessionRows = {}
            \/ call'[c].pc = "ended"
            \/ /\ call'[c].pc = "update_lead" /\ SessionRows = {call'[c].session}
               /\ call'[c].state = sessions[call'[c].session].state
<1>1. call[c].pc = "session" /\ Fits("create_session", call[c].sent)
  BY DEF GetSession, CallsOK, Locals, Fits, Sending
<1>2. CASE SessionRows = {} /\ Goto(c, "create_session")
  BY <1>1, <1>2, GotoFacts DEF PCs
<1>3. CASE Goto(c, "ended")
  BY <1>1, <1>3, GotoFacts DEF PCs
<1>4. ASSUME NEW s \in SessionRows, SessionRows = {s},
             Becomes(c, [call[c] EXCEPT !.session = s, !.state = sessions[s].state,
                                        !.context = sessions[s].context, !.pc = "update_lead"])
      PROVE  /\ CallsOK' /\ Alone(c) /\ KeepsAnswer(c) /\ call'[c].pc = "update_lead"
             /\ call'[c].session = s /\ call'[c].state = sessions[s].state
  <2>1. s \in SessionIds /\ sessions[s].state \in States /\ sessions[s].context \in {"plain", "handoff"}
    BY DEF SessionRows, TablesOK, Session
  <2>2. PICK state \in States, context \in {"plain", "handoff"} :
          state = sessions[s].state /\ context = sessions[s].context
    BY <2>1
  <2>3. Becomes(c, [call[c] EXCEPT !.session = s, !.state = state,
                                   !.context = context, !.pc = "update_lead"])
    BY <1>4, <2>2
  <2>4. /\ CallsOK' /\ Alone(c) /\ KeepsAnswer(c) /\ call'[c].pc = "update_lead"
        /\ call'[c].session = s /\ call'[c].state = state
    BY <1>1, <2>1, <2>3, SessionOK
  <2> QED
    BY <2>2, <2>4
<1> QED
  BY <1>1, <1>2, <1>3, <1>4 DEF GetSession

LEMMA CreateSessionFacts ==
  ASSUME CallsOK, NEW c \in Calls, CreateSession(c)
  PROVE  /\ CallsOK' /\ Alone(c) /\ call[c].pc = "create_session" /\ KeepsAnswer(c)
         /\ call'[c].pc = "update_lead" /\ call'[c].session = c /\ call'[c].state = "idle"
<1>1. c \in SessionIds /\ InitialState \in States /\ InitialState = "idle"
  BY DEF SessionIds, InitialState, States
<1> QED
  BY <1>1, SessionOK DEF CreateSession

LEMMA DecideFacts ==
  ASSUME CallsOK, NEW c \in Calls, Decide(c)
  PROVE  /\ CallsOK' /\ Alone(c) /\ call[c].pc = "decide" /\ KeepsAnswer(c)
         /\ \/ call'[c].pc = "ended"
            \/ /\ call'[c].pc \in {"apologise", "fsm", "save"} /\ call[c].state # "handoff_active"
               /\ call'[c].session = call[c].session /\ call'[c].state = call[c].state
               /\ call'[c].pc # "apologise" /\ call'[c].target = "handoff_pending" =>
                     call[c].state = "handoff_pending" \/ KindOf(c) = "handoff"
<1> DEFINE t == ProcessEvent(call[c].state, FsmEvent(KindOf(c)), Guards(KindOf(c), call[c].facts))
           pc == IF t.actions = << >> THEN "save" ELSE "fsm"
           l == [call[c] EXCEPT !.target = t.target, !.todo = t.actions, !.pc = pc]
<1>1. Locals(call[c]) /\ call[c] \in Call /\ call[c].state \in States /\ call[c].pc = "decide"
  BY DEF CallsOK, Locals, Call, Decide
<1>2. /\ t.target \in States /\ t.actions \in Seq(Actions)
      /\ t.target = "handoff_pending" =>
            call[c].state = "handoff_pending" \/ FsmEvent(KindOf(c)) = "handoff_requested"
  BY <1>1, ProcessEventFacts
<1>3. FsmEvent(KindOf(c)) = "handoff_requested" => KindOf(c) = "handoff"
  BY KindFacts
<1>4. pc \in {"fsm", "save"} /\ (pc = "fsm" => t.actions # << >>)
  OBVIOUS
<1>5. CASE Goto(c, "ended")
  BY <1>1, <1>5, GotoFacts DEF PCs
<1>6. CASE call[c].state # "handoff_active" /\ Goto(c, "apologise")
  <2>1. Fits("apologise", call[c].sent)
    BY <1>1 DEF Locals, Fits, Sending
  <2> QED
    BY <1>1, <1>6, <2>1, GotoFacts DEF PCs, KeepsSession
<1>7. CASE call[c].state # "handoff_active" /\ Becomes(c, l)
  <2> HIDE DEF t, pc
  <2>1. l \in Call
    BY <1>1, <1>2, <1>4 DEF Call, PCs
  <2>2. l.pc = pc /\ l.target = t.target /\ l.todo = t.actions /\ l.sent = call[c].sent
    BY <1>1 DEF Call
  <2>3. l.msg = call[c].msg /\ l.proc = call[c].proc /\ l.session = call[c].session
        /\ l.state = call[c].state
    BY <1>1 DEF Call
  <2> HIDE DEF l
  <2>4. Locals(l)
    BY <1>1, <1>4, <2>1, <2>2, <2>3 DEF Locals, Fits, Sending
  <2> QED
    BY <1>1, <1>2, <1>3, <1>4, <1>7, <2>2, <2>3, <2>4, BecomesOK, BecomesFacts DEF KeepsAnswer
<1>8. \/ Goto(c, "ended")
      \/ call[c].state # "handoff_active" /\ Goto(c, "apologise")
      \/ call[c].state # "handoff_active" /\ Becomes(c, l)
  BY DEF Decide
<1> QED
  BY <1>5, <1>6, <1>7, <1>8

LEMMA TailFacts ==
  ASSUME NEW S, NEW q \in Seq(S), q # << >>
  PROVE  Tail(q) \in Seq(S) /\ (Len(q) # 1 => Tail(q) # << >>)
<1>1. Len(q) \in Nat /\ Tail(q) \in Seq(S) /\ Len(Tail(q)) = Len(q) - 1
  BY EmptySeq, HeadTailProperties
<1>2. Tail(q) = << >> => Len(Tail(q)) = 0
  BY EmptySeq, Zenon
<1> QED
  BY <1>1, <1>2

LEMMA RunActionFacts ==
  ASSUME CallsOK, NEW c \in Calls, RunAction(c)
  PROVE  /\ CallsOK' /\ Alone(c) /\ call[c].pc = "fsm" /\ KeepsAnswer(c) /\ KeepsSession(c)
         /\ call'[c].pc \in {"fsm", "save"}
<1> DEFINE pc == IF Len(call[c].todo) = 1 THEN "save" ELSE "fsm"
           rest == Tail(call[c].todo)
           l == [call[c] EXCEPT !.todo = rest, !.pc = pc]
<1>1. /\ Locals(call[c]) /\ call[c] \in Call /\ call[c].pc = "fsm"
      /\ call[c].todo \in Seq(Actions) /\ call[c].todo # << >>
  BY DEF CallsOK, Locals, Call, RunAction
<1>2. rest \in Seq(Actions) /\ pc \in {"fsm", "save"} /\ (pc = "fsm" => rest # << >>)
  BY <1>1, TailFacts
<1>3. Becomes(c, l)
  BY DEF RunAction
<1> HIDE DEF pc, rest
<1>4. l \in Call
  BY <1>1, <1>2 DEF Call, PCs
<1>5. l.pc = pc /\ l.todo = rest /\ l.sent = call[c].sent /\ l.msg = call[c].msg
  BY <1>1 DEF Call
<1>6. l.proc = call[c].proc /\ l.session = call[c].session /\ l.state = call[c].state
      /\ l.target = call[c].target
  BY <1>1 DEF Call
<1> HIDE DEF l
<1>7. Locals(l)
  BY <1>1, <1>2, <1>4, <1>5, <1>6 DEF Locals, Fits, Sending
<1> QED
  BY <1>1, <1>2, <1>3, <1>5, <1>6, <1>7, BecomesOK, BecomesFacts DEF KeepsAnswer, KeepsSession

LEMMA SaveSessionFacts ==
  ASSUME CallsOK, NEW c \in Calls, SaveSession(c)
  PROVE  /\ CallsOK' /\ Alone(c) /\ call[c].pc = "save" /\ KeepsAnswer(c)
         /\ call'[c].pc \in {"silence", "ack", "unsupported", "history"}
         /\ KindOf(c) = "handoff" => call'[c].pc = "ack"
         /\ call'[c].session = call[c].session
<1> DEFINE pc == AfterSave(KindOf(c))
           l == [call[c] EXCEPT !.state = call[c].target, !.pc = pc]
<1>1. Locals(call[c]) /\ call[c] \in Call /\ call[c].pc = "save" /\ call[c].target \in States
  BY DEF CallsOK, Locals, Call, SaveSession
<1>2. pc \in {"silence", "ack", "unsupported", "history"} /\ (KindOf(c) = "handoff" => pc = "ack")
  BY KindFacts
<1>3. Becomes(c, l)
  BY DEF SaveSession
<1> HIDE DEF pc
<1>4. l \in Call
  BY <1>1, <1>2 DEF Call, PCs
<1>5. l.pc = pc /\ l.sent = call[c].sent /\ l.msg = call[c].msg
  BY <1>1 DEF Call
<1>6. l.proc = call[c].proc /\ l.session = call[c].session
  BY <1>1 DEF Call
<1> HIDE DEF l
<1>7. Locals(l)
  BY <1>1, <1>2, <1>4, <1>5, <1>6 DEF Locals, Fits, Sending
<1> QED
  BY <1>1, <1>2, <1>3, <1>5, <1>6, <1>7, BecomesOK, BecomesFacts DEF KeepsAnswer

LEMMA ReadHistoryFacts ==
  ASSUME CallsOK, NEW c \in Calls, ReadHistory(c)
  PROVE  /\ CallsOK' /\ Alone(c) /\ call[c].pc = "history" /\ KeepsAnswer(c) /\ KeepsSession(c)
         /\ call'[c].pc = "respond"
<1> DEFINE w == IF \E i \in DOMAIN outbound : outbound[i] = "wait" THEN "yes" ELSE "no"
           l == [call[c] EXCEPT !.pc = "respond", !.waited = w]
<1>1. Locals(call[c]) /\ call[c] \in Call /\ call[c].pc = "history" /\ w \in {"no", "yes"}
  BY DEF CallsOK, Locals, ReadHistory
<1>2. Becomes(c, l)
  BY DEF ReadHistory
<1> HIDE DEF w
<1>3. l \in Call
  BY <1>1 DEF Call, PCs
<1>4. l.pc = "respond" /\ l.sent = call[c].sent /\ l.msg = call[c].msg
  BY <1>1 DEF Call
<1>5. l.proc = call[c].proc /\ l.session = call[c].session /\ l.state = call[c].state
      /\ l.target = call[c].target
  BY <1>1 DEF Call
<1> HIDE DEF l
<1>6. Locals(l)
  BY <1>1, <1>3, <1>4, <1>5 DEF Locals, Fits, Sending
<1> QED
  BY <1>1, <1>2, <1>4, <1>5, <1>6, BecomesOK, BecomesFacts DEF KeepsAnswer, KeepsSession

\* The steps that send a text.
Sends(c) ==
    /\ call'[c].msg = call[c].msg
    /\ call'[c].sent \in {call[c].sent, call[c].sent + 1}
    /\ call'[c].pc # "ended" => KeepsSession(c)

LEMMA SendNoticeFacts ==
  ASSUME CallsOK, NEW c \in Calls, SendNotice(c)
  PROVE  /\ CallsOK' /\ Alone(c) /\ call[c].pc \in {"apologise", "unsupported"} /\ Sends(c)
         /\ call'[c].pc = "ended"
<1>1. /\ call[c].pc \in {"apologise", "unsupported"} /\ SendText(c, "ended", "ended")
      /\ Fits("ended", call[c].sent) /\ Fits("ended", call[c].sent + 1)
  BY DEF SendNotice, CallsOK, Locals, Fits, Sending
<1>2. "ended" \in PCs
  BY DEF PCs
<1> QED
  BY <1>1, <1>2, SendFacts DEF Sends

LEMMA AcknowledgeFacts ==
  ASSUME CallsOK, NEW c \in Calls, Acknowledge(c)
  PROVE  CallsOK' /\ Alone(c) /\ call[c].pc = "ack" /\ Sends(c) /\ call'[c].pc = "activate"
<1>1. /\ call[c].pc = "ack" /\ SendText(c, "activate", "activate")
      /\ Fits("activate", call[c].sent) /\ Fits("activate", call[c].sent + 1)
  BY DEF Acknowledge, CallsOK, Locals, Fits, Sending
<1>2. "activate" \in PCs
  BY DEF PCs
<1> QED
  BY <1>1, <1>2, SendFacts DEF Sends

LEMMA RespondFacts ==
  ASSUME CallsOK, NEW c \in Calls, Respond(c)
  PROVE  /\ CallsOK' /\ Alone(c) /\ call[c].pc = "respond" /\ Sends(c)
         /\ call'[c].pc \in {"ended", "persist", "fallback"}
<1>1. call[c].pc = "respond" /\ Locals(call[c]) /\ call[c].sent = 0
  BY DEF Respond, CallsOK, Locals, Fits, Sending
<1>2. CASE Goto(c, "ended")
  BY <1>1, <1>2, GotoFacts DEF PCs, Sends, KeepsAnswer
<1>3. CASE SendText(c, "persist", "fallback")
  <2>1. Fits("persist", 0 + 1) /\ ("wa" \in Faults => Fits("fallback", 0) /\ Fits("fallback", 0 + 1))
    BY DEF Fits, Sending
  <2> QED
    BY <1>1, <1>3, <2>1, SendFacts DEF PCs, Sends
<1>4. CASE Goto(c, "fallback")
  <2>1. Fits("fallback", 0)
    BY DEF Fits, Sending
  <2> QED
    BY <1>1, <1>4, <2>1, GotoFacts DEF PCs, Sends, KeepsAnswer
<1> QED
  BY <1>2, <1>3, <1>4 DEF Respond

LEMMA FallbackFacts ==
  ASSUME CallsOK, NEW c \in Calls, Fallback(c)
  PROVE  /\ CallsOK' /\ Alone(c) /\ call[c].pc = "fallback" /\ Sends(c)
         /\ call'[c].pc \in {"ended", "persist_fallback"}
<1>1. /\ call[c].pc = "fallback" /\ SendText(c, "persist_fallback", "ended")
      /\ Fits("persist_fallback", call[c].sent + 1)
      /\ "wa" \in Faults => Fits("ended", call[c].sent) /\ Fits("ended", call[c].sent + 1)
  BY DEF Fallback, CallsOK, Locals, Fits, Sending
<1>2. {"ended", "persist_fallback"} \subseteq PCs
  BY DEF PCs
<1> QED
  BY <1>1, <1>2, SendFacts DEF Sends

-----------------------------------------------------------------------------
(***************************************************************************)
(* Every step keeps the types, and is a step of the debounce window        *)
(***************************************************************************)

WindowFacts == INSTANCE DebounceProofs WITH Keys <- Procs

\* The types are inductive together with the number of texts a call has sent
\* at its pc, which bounds it, and with the invariant of the window.
Typed == CallsOK /\ TablesOK /\ RacesOK /\ WindowFacts!WindowInv

LEMMA WindowConstants == NoCall \notin Calls \cup Procs
  BY HandlerConstants

LEMMA TypedImpliesTypeOK == Typed => TypeOK
<1>1. WindowFacts!WindowInv => Window!DebounceTypeOK
  BY DEF WindowFacts!WindowInv, WindowFacts!DebounceTypeOK, WindowFacts!TimerStates,
         Window!DebounceTypeOK, Window!TimerStates
<1> QED
  BY <1>1, TypeParts DEF Typed

LEMMA NewCallFacts ==
  Locals(NewCall) /\ NewCall.pc = "new" /\ NewCall.msg = NoCall /\ NewCall.sent = 0
<1>1. /\ OldSession \in SessionIds /\ "idle" \in States /\ << >> \in Seq(Actions)
      /\ "new" \in PCs
  BY DEF PCs, SessionIds, States
<1>2. NewCall \in Call
  BY <1>1 DEF NewCall, Call
<1>3. NewCall.pc = "new" /\ NewCall.msg = NoCall /\ NewCall.sent = 0
  BY DEF NewCall
<1> QED
  BY <1>2, <1>3 DEF Locals, Fits

LEMMA InitTyped == Init => Typed
<1> SUFFICES ASSUME Init PROVE Typed
  OBVIOUS
<1>1. CallsOK
  BY NewCallFacts DEF Init, CallsOK, Locals
<1>2. TablesOK
  <2>1. PICK s \in StartStates :
          /\ sessions = [i \in SessionIds |->
                IF i = OldSession THEN [state |-> s, context |-> "plain"]
                ELSE [state |-> "absent", context |-> "plain"]]
          /\ lead = IF s = "absent" THEN {} ELSE {"row"}
          /\ control = IF s = "handoff_active" THEN "human" ELSE "bot"
    BY DEF Init
  <2>2. s \in States \cup {"absent"}
    BY HandlerConstants
  <2>3. sessions \in [SessionIds -> Session]
    BY <2>1, <2>2 DEF Session
  <2>4. request \in [Requests -> Request]
    BY DEF Init, Request, SessionIds
  <2>5. outbound \in Seq({"wait", "reply"}) /\ Len(outbound) <= 2
    BY DEF Init
  <2>6. lead \subseteq {"row", "name"} /\ control \in {"bot", "human"}
    BY <2>1
  <2> QED
    BY <2>3, <2>4, <2>5, <2>6 DEF Init, TablesOK
<1>3. WindowFacts!DebounceInit
  BY DEF Init, Window!DebounceInit, WindowFacts!DebounceInit
<1>4. WindowFacts!WindowInv
  BY <1>3, WindowConstants, WindowFacts!WindowInit DEF WindowFacts!DebounceConstants
<1> QED
  BY <1>1, <1>2, <1>4 DEF Init, Typed, RacesOK

\* Every step of the handler is a step of the debounce window or leaves it.
LEMMA WindowStep ==
  ASSUME Typed, Step
  PROVE  WindowFacts!WindowInv' /\ [Window!DebounceNext]_(Window!debounceVars)
<1> DEFINE Goal == WindowFacts!WindowInv' /\ [Window!DebounceNext]_(Window!debounceVars)
<1> USE WindowConstants
<1>1. CASE UNCHANGED windowVars
  <2>1. UNCHANGED Window!debounceVars
    BY <1>1 DEF windowVars, Window!debounceVars
  <2>2. WindowFacts!WindowInv'
    BY <1>1 DEF Typed, windowVars, WindowFacts!WindowInv, WindowFacts!DebounceTypeOK,
                WindowFacts!OneWindowPerKey, WindowFacts!DeferredIsCovered
  <2> QED
    BY <2>1, <2>2
<1>2. ASSUME NEW c \in Calls, EnterWindow(c)
      PROVE  Goal
  <2>1. call[c].proc \in Procs /\ Window!Register(c, call[c].proc)
    BY <1>2 DEF EnterWindow, Typed, CallsOK, Locals
  <2>2. WindowFacts!Register(c, call[c].proc)
    BY <2>1 DEF Window!Register, WindowFacts!Register, Window!Running, WindowFacts!Running
  <2> QED
    BY <2>1, <2>2, WindowFacts!RegisterKeepsInv
    DEF Typed, WindowFacts!DebounceConstants, Window!DebounceNext
<1>3. ASSUME NEW c \in Calls, LeaveWindow(c)
      PROVE  Goal
  <2>1. Window!Execute(c)
    BY <1>3 DEF LeaveWindow
  <2>2. WindowFacts!Execute(c)
    BY <2>1 DEF Window!Execute, WindowFacts!Execute
  <2> QED
    BY <2>1, <2>2, WindowFacts!ExecuteKeepsInv
    DEF Typed, WindowFacts!DebounceConstants, Window!DebounceNext
<1>4. ASSUME NEW p \in Procs, Crash(p)
      PROVE  Goal
  <2>1. Window!Restart({p})
    BY <1>4 DEF Crash
  <2>2. WindowFacts!Restart({p})
    BY <2>1 DEF Window!Restart, WindowFacts!Restart, Window!Running, WindowFacts!Running
  <2>3. {p} \in SUBSET Procs
    OBVIOUS
  <2>4. WindowFacts!WindowInv'
    BY <2>2, <2>3, WindowFacts!RestartKeepsInv DEF Typed, WindowFacts!DebounceConstants
  <2>5. CASE tasks[p] # NoCall
    BY <2>1, <2>4, <2>5 DEF Window!DebounceNext
  <2>6. CASE tasks[p] = NoCall
    <3>1. WindowFacts!DebounceTypeOK /\ WindowFacts!OneWindowPerKey
      BY DEF Typed, WindowFacts!WindowInv
    <3>2. latest[p] = NoCall /\ \A c \in Calls : timer[c] = "waiting" => window[c] # p
      BY <2>6, <3>1 DEF WindowFacts!OneWindowPerKey
    <3>3. latest' = latest /\ tasks' = tasks /\ timer' = timer /\ window' = window
      BY <2>1, <2>6, <3>1, <3>2 DEF Window!Restart, Window!Running, WindowFacts!DebounceTypeOK
    <3> QED
      BY <2>4, <3>3 DEF Window!debounceVars
  <2> QED
    BY <2>5, <2>6
<1>5. ASSUME NEW c \in Calls, Continue(c)
      PROVE  Goal
  <2>1. CASE EnterWindow(c) \/ LeaveWindow(c)
    BY <1>2, <1>3, <2>1
  <2>2. CASE \/ AppendInbound(c) \/ Deferred(c) \/ GetLead(c) \/ CreateLead(c) \/ GetSession(c)
             \/ CreateSession(c) \/ UpdateLead(c) \/ Decide(c) \/ RunAction(c) \/ SaveSession(c)
    <3>1. UNCHANGED windowVars
      BY <2>2 DEF AppendInbound, Deferred, GetLead, CreateLead, GetSession, CreateSession,
                  UpdateLead, Decide, RunAction, SaveSession
    <3> QED
      BY <1>1, <3>1
  <2>3. CASE \/ SendNotice(c) \/ Silence(c) \/ Acknowledge(c) \/ Activate(c) \/ ReadHistory(c)
             \/ Respond(c) \/ Persist(c) \/ Fallback(c) \/ PersistFallback(c)
    <3>1. UNCHANGED windowVars
      BY <2>3 DEF SendNotice, Silence, Acknowledge, Activate, ReadHistory, Respond, Persist,
                  Fallback, PersistFallback
    <3> QED
      BY <1>1, <3>1
  <2> QED
    BY <1>5, <2>1, <2>2, <2>3 DEF Continue
<1>6. ASSUME \/ \E c \in Calls, m \in Msgs, p \in Procs : Receive(c, m, p)
             \/ \E c \in Calls : Raises(c)
             \/ \E r \in Requests, s \in {"handoff_active", "idle"} : ReadForControl(r, s)
             \/ \E r \in Requests : WriteControl(r)
      PROVE  Goal
  <2>1. UNCHANGED windowVars
    BY <1>6 DEF Receive, Raises, ReadForControl, WriteControl
  <2> QED
    BY <1>1, <2>1
<1> QED
  BY <1>4, <1>5, <1>6 DEF Step

\* Every step keeps the types of the locals and of the tables.
LEMMA ContinueTyped ==
  ASSUME Typed, NEW c \in Calls, Continue(c)
  PROVE  CallsOK' /\ TablesOK'
<1> USE DEF Typed
<1>1. ASSUME UNCHANGED <<kind, dbVars, request, control>>
      PROVE  TablesOK'
  BY <1>1 DEF TablesOK, dbVars
<1>2. Locals(call[c])
  BY DEF CallsOK
<1>3. CASE AppendInbound(c)
  <2>1. TablesOK'
    BY <1>2, <1>3 DEF AppendInbound, TablesOK, Locals
  <2> QED
    BY <1>3, <2>1, AppendInboundFacts
<1>4. CASE EnterWindow(c)
  BY <1>1, <1>4, EnterWindowFacts DEF EnterWindow
<1>5. CASE LeaveWindow(c)
  BY <1>1, <1>5, LeaveWindowFacts DEF LeaveWindow
<1>6. CASE Deferred(c)
  BY <1>1, <1>6, DeferredFacts DEF Deferred
<1>7. CASE GetLead(c)
  BY <1>1, <1>7, GetLeadFacts DEF GetLead
<1>8. CASE CreateLead(c)
  <2>1. CallsOK' /\ lead' \subseteq {"row", "name"}
    BY <1>8, CreateLeadFacts
  <2> QED
    BY <1>8, <2>1 DEF CreateLead, TablesOK
<1>9. CASE GetSession(c)
  BY <1>1, <1>9, GetSessionFacts DEF GetSession
<1>10. CASE CreateSession(c)
  <2>1. TablesOK'
    BY <1>10 DEF CreateSession, TablesOK, Session, InitialState, States
  <2> QED
    BY <1>10, <2>1, CreateSessionFacts
<1>11. CASE UpdateLead(c)
  <2>1. CallsOK' /\ lead' \subseteq {"row", "name"}
    BY <1>11, UpdateLeadFacts
  <2> QED
    BY <1>11, <2>1 DEF UpdateLead, TablesOK
<1>12. CASE Decide(c)
  BY <1>1, <1>12, DecideFacts DEF Decide
<1> DEFINE row == [state |-> call[c].target, context |-> call[c].context]
<1>13. row \in Session
  BY <1>2 DEF Locals, Call, Session
<1>14. CASE RunAction(c)
  <2>1. sessions' = sessions \/ sessions' = [sessions EXCEPT ![call[c].session] = row]
    BY <1>14 DEF RunAction
  <2> HIDE DEF row
  <2>2. TablesOK'
    BY <1>13, <1>14, <2>1 DEF RunAction, TablesOK
  <2> QED
    BY <1>14, <2>2, RunActionFacts
<1>15. CASE SaveSession(c)
  <2>1. sessions' = [sessions EXCEPT ![call[c].session] = row]
    BY <1>15 DEF SaveSession
  <2> HIDE DEF row
  <2>2. TablesOK'
    BY <1>13, <1>15, <2>1 DEF SaveSession, TablesOK
  <2> QED
    BY <1>15, <2>2, SaveSessionFacts
<1>16. CASE SendNotice(c)
  BY <1>1, <1>16, SendNoticeFacts DEF SendNotice
<1>17. CASE Silence(c)
  <2>1. TablesOK'
    BY <1>17 DEF Silence, TablesOK
  <2> QED
    BY <1>17, <2>1, SilenceFacts
<1>18. CASE Acknowledge(c)
  BY <1>1, <1>18, AcknowledgeFacts DEF Acknowledge
<1>19. CASE Activate(c)
  <2>1. [state |-> "handoff_active", context |-> "handoff"] \in Session
    BY DEF Session, States
  <2>2. TablesOK'
    BY <1>19, <2>1 DEF Activate, TablesOK
  <2> QED
    BY <1>19, <2>2, ActivateFacts
<1>20. CASE ReadHistory(c)
  BY <1>1, <1>20, ReadHistoryFacts DEF ReadHistory
<1>21. CASE Respond(c)
  BY <1>1, <1>21, RespondFacts DEF Respond
<1>22. ASSUME NEW text \in {"wait", "reply"}, Remember(text)
       PROVE  outbound' \in Seq({"wait", "reply"}) /\ Len(outbound') <= 2
  <2> DEFINE all == Append(outbound, text)
  <2>1. all \in Seq({"wait", "reply"}) /\ Len(all) <= 3
    BY DEF TablesOK
  <2>2. outbound' = IF Len(all) > 2 THEN Tail(all) ELSE all
    BY <1>22 DEF Remember
  <2> HIDE DEF all
  <2>3. CASE Len(all) > 2
    <3>1. all # << >>
      BY <2>1, <2>3, EmptySeq
    <3> QED
      BY <2>1, <2>2, <2>3, <3>1, HeadTailProperties
  <2>4. CASE ~(Len(all) > 2)
    BY <2>1, <2>2, <2>4
  <2> QED
    BY <2>3, <2>4
<1>23. CASE Persist(c)
  <2>1. outbound' \in Seq({"wait", "reply"}) /\ Len(outbound') <= 2
    BY <1>22, <1>23 DEF Persist, TablesOK
  <2>2. TablesOK'
    BY <1>23, <2>1 DEF Persist, TablesOK
  <2> QED
    BY <1>23, <2>2, PersistFacts
<1>24. CASE Fallback(c)
  BY <1>1, <1>24, FallbackFacts DEF Fallback
<1>25. CASE PersistFallback(c)
  <2>1. outbound' \in Seq({"wait", "reply"}) /\ Len(outbound') <= 2
    BY <1>22, <1>25 DEF PersistFallback
  <2>2. TablesOK'
    BY <1>25, <2>1 DEF PersistFallback, TablesOK
  <2> QED
    BY <1>25, <2>2, PersistFallbackFacts
<1> QED
  BY <1>3, <1>4, <1>5, <1>6, <1>7, <1>8, <1>9, <1>10, <1>11, <1>12, <1>14, <1>15, <1>16, <1>17,
     <1>18, <1>19, <1>20, <1>21, <1>23, <1>24, <1>25 DEF Continue

\* A crash ends the calls of its process and touches no table.
LEMMA CrashFacts ==
  ASSUME CallsOK, NEW p \in Procs, Crash(p)
  PROVE  /\ CallsOK' /\ "crash" \in Faults
         /\ \A d \in Calls : \/ call'[d] = call[d]
                             \/ /\ call[d].pc # "new" /\ call'[d].pc = "ended" /\ KeepsAnswer(d)
<1>1. "crash" \in Faults
  BY DEF Crash
<1>2. \A d \in Calls : call'[d] = IF call[d].proc = p /\ call[d].pc # "new" THEN Ended(d) ELSE call[d]
  BY DEF Crash
<1>3. ASSUME NEW d \in Calls
      PROVE  /\ Locals(call'[d])
             /\ \/ call'[d] = call[d]
                \/ call[d].pc # "new" /\ call'[d].pc = "ended" /\ KeepsAnswer(d)
  <2>1. Locals(call[d])
    BY DEF CallsOK
  <2> QED
    BY <1>2, <2>1, EndedFacts DEF KeepsAnswer
<1>4. call' \in [Calls -> Call]
  <2>1. call' = [d \in Calls |-> call'[d]]
    BY DEF Crash
  <2> QED
    BY <1>3, <2>1 DEF Locals
<1> QED
  BY <1>1, <1>3, <1>4 DEF CallsOK

\* Reading and writing for an operator.
LEMMA ReadForControlFacts ==
  ASSUME TablesOK, NEW r \in Requests, NEW s \in {"handoff_active", "idle"}, ReadForControl(r, s)
  PROVE  /\ request' \in [Requests -> Request] /\ request[r].pc = "new"
         /\ \A q \in Requests : q # r => request'[q] = request[q]
         /\ \/ request'[r].pc = "done"
            \/ request'[r].pc = "write" /\ SessionRows = {request'[r].session}
<1>1. request \in [Requests -> Request] /\ request[r].pc = "new" /\ request[r] \in Request
  BY DEF TablesOK, ReadForControl
<1>2. CASE request' = [request EXCEPT ![r] = [request[r] EXCEPT !.pc = "done"]]
  <2>1. [request[r] EXCEPT !.pc = "done"] \in Request /\ [request[r] EXCEPT !.pc = "done"].pc = "done"
    BY <1>1 DEF Request
  <2> QED
    BY <1>1, <1>2, <2>1
<1>3. ASSUME NEW i \in SessionRows, SessionRows = {i},
             request' = [request EXCEPT ![r] = [pc |-> "write", new_state |-> s, session |-> i,
                                                context |-> sessions[i].context]]
      PROVE  /\ request' \in [Requests -> Request]
             /\ \A q \in Requests : q # r => request'[q] = request[q]
             /\ request'[r].pc = "write" /\ SessionRows = {request'[r].session}
  <2> DEFINE l == [pc |-> "write", new_state |-> s, session |-> i, context |-> sessions[i].context]
  <2>1. i \in SessionIds /\ sessions[i].context \in {"plain", "handoff"}
    BY DEF SessionRows, TablesOK, Session
  <2>2. l \in Request /\ l.pc = "write" /\ l.session = i
    BY <2>1 DEF Request
  <2> HIDE DEF l
  <2>3. request' = [request EXCEPT ![r] = l]
    BY <1>3 DEF l
  <2> QED
    BY <1>1, <1>3, <2>2, <2>3
<1> QED
  BY <1>1, <1>2, <1>3 DEF ReadForControl

LEMMA WriteControlFacts ==
  ASSUME TablesOK, NEW r \in Requests, WriteControl(r)
  PROVE  /\ request' \in [Requests -> Request] /\ request[r].pc = "write" /\ request'[r].pc = "done"
         /\ \A q \in Requests : q # r => request'[q] = request[q]
         /\ request[r].session \in SessionIds
         /\ request[r].new_state \in {"handoff_active", "idle"}
         /\ [state |-> request[r].new_state, context |-> request[r].context] \in Session
<1>1. request \in [Requests -> Request] /\ request[r].pc = "write" /\ request[r] \in Request
  BY DEF TablesOK, WriteControl
<1>2. [request[r] EXCEPT !.pc = "done"] \in Request /\ [request[r] EXCEPT !.pc = "done"].pc = "done"
  BY <1>1 DEF Request
<1>3. request' = [request EXCEPT ![r] = [request[r] EXCEPT !.pc = "done"]]
  BY DEF WriteControl
<1>4. /\ request[r].session \in SessionIds /\ request[r].new_state \in {"handoff_active", "idle"}
      /\ [state |-> request[r].new_state, context |-> request[r].context] \in Session
  BY <1>1 DEF Request, Session, States
<1> QED
  BY <1>1, <1>2, <1>3, <1>4

LEMMA StepTyped == Typed /\ [Next]_vars => Typed'
<1> SUFFICES ASSUME Typed, [Next]_vars PROVE Typed'
  OBVIOUS
<1>1. CASE UNCHANGED vars
  BY <1>1 DEF vars, dbVars, windowVars, Typed, CallsOK, TablesOK, RacesOK, WindowFacts!WindowInv,
              WindowFacts!DebounceTypeOK, WindowFacts!OneWindowPerKey, WindowFacts!DeferredIsCovered
<1>2. CASE Next
  <2>1. Step /\ Observe
    BY <1>2 DEF Next
  <2>2. RacesOK'
    BY <2>1 DEF Observe, Typed, RacesOK
  <2>3. WindowFacts!WindowInv'
    BY <2>1, WindowStep
  <2>4. CallsOK' /\ TablesOK'
    <3>1. ASSUME UNCHANGED <<kind, dbVars, request, control>>
          PROVE  TablesOK'
      BY <3>1 DEF Typed, TablesOK, dbVars
    <3>2. ASSUME NEW c \in Calls, NEW m \in Msgs, NEW p \in Procs, Receive(c, m, p)
          PROVE  CallsOK' /\ TablesOK'
      BY <3>1, <3>2, ReceiveFacts DEF Receive, Typed
    <3>3. ASSUME NEW c \in Calls, Continue(c)
          PROVE  CallsOK' /\ TablesOK'
      BY <3>3, ContinueTyped
    <3>4. ASSUME NEW c \in Calls, Raises(c)
          PROVE  CallsOK' /\ TablesOK'
      BY <3>1, <3>4, RaisesFacts DEF Raises, Typed
    <3>5. ASSUME NEW p \in Procs, Crash(p)
          PROVE  CallsOK' /\ TablesOK'
      BY <3>1, <3>5, CrashFacts DEF Crash, Typed
    <3>6. ASSUME NEW r \in Requests, NEW s \in {"handoff_active", "idle"}, ReadForControl(r, s)
          PROVE  CallsOK' /\ TablesOK'
      <4>1. request' \in [Requests -> Request]
        BY <3>6, ReadForControlFacts DEF Typed
      <4> QED
        BY <3>6, <4>1 DEF ReadForControl, Typed, CallsOK, TablesOK, dbVars
    <3>7. ASSUME NEW r \in Requests, WriteControl(r)
          PROVE  CallsOK' /\ TablesOK'
      <4> DEFINE row == [state |-> request[r].new_state, context |-> request[r].context]
      <4>1. /\ request' \in [Requests -> Request] /\ row \in Session
            /\ sessions' = [sessions EXCEPT ![request[r].session] = row]
        BY <3>7, WriteControlFacts DEF Typed, WriteControl
      <4> HIDE DEF row
      <4>2. sessions' \in [SessionIds -> Session]
        BY <4>1 DEF Typed, TablesOK
      <4>3. control' \in {"bot", "human"}
        BY <3>7 DEF WriteControl
      <4> QED
        BY <3>7, <4>1, <4>2, <4>3 DEF WriteControl, Typed, CallsOK, TablesOK
    <3> QED
      BY <2>1, <3>2, <3>3, <3>4, <3>5, <3>6, <3>7 DEF Step
  <2> QED
    BY <2>2, <2>3, <2>4 DEF Typed
<1> QED
  BY <1>1, <1>2

\* The locals of the calls, the tables and the debounce window have their
\* types; in particular a call sends at most two texts.
THEOREM HandlerTypeOK == Spec => []TypeOK
<1> QED
  BY InitTyped, StepTyped, TypedImpliesTypeOK, PTL DEF Spec

\* The handler's use of the debounce dictionaries implements the window of
\* Debounce, a jid in each process being a key: what is proved of the window
\* alone holds in the handler, errors and crashes included.
THEOREM HandlerImplementsDebounce == Spec => ImplementsDebounce
<1>1. Init => Window!DebounceInit
  BY DEF Init
<1>2. Typed /\ [Next]_vars => [Window!DebounceNext]_(Window!debounceVars)
  <2>1. ASSUME Typed, Next
        PROVE  [Window!DebounceNext]_(Window!debounceVars)
    BY <2>1, WindowStep DEF Next
  <2>2. ASSUME UNCHANGED vars
        PROVE  UNCHANGED Window!debounceVars
    BY <2>2 DEF vars, windowVars, Window!debounceVars
  <2> QED
    BY <2>1, <2>2
<1> QED
  BY <1>1, <1>2, InitTyped, StepTyped, PTL DEF Spec, ImplementsDebounce, Window!DebounceSpec

-----------------------------------------------------------------------------
(***************************************************************************)
(* One answer per message                                                  *)
(***************************************************************************)

\* The calls that may send, or have sent, an answer to their message: the
\* event of the message is stored, and they are the one call that stored it.
Answering(c) == call[c].pc \notin {"new", "append", "ended"} \/ call[c].sent > 0

Answers ==
    /\ \A c \in Calls : Answering(c) => call[c].msg \in events
    /\ \A c, d \in Calls : Answering(c) /\ Answering(d) /\ call[c].msg = call[d].msg => c = d

LEMMA AnswersImpliesOnce == Typed /\ Answers => OneAnswerPerMessage
<1> SUFFICES ASSUME Typed, Answers, NEW c \in Calls, NEW d \in Calls, call[c].sent > 0
             PROVE  /\ call[d].sent > 0 /\ call[c].msg = call[d].msg => c = d
                    /\ call[c].sent <= IF Faults \cap {"db", "wa"} = {} THEN 1 ELSE 2
  BY DEF OneAnswerPerMessage
<1>1. Fits(call[c].pc, call[c].sent)
  BY DEF Typed, CallsOK, Locals
<1>2. call[c].sent <= IF Faults \cap {"db", "wa"} = {} THEN 1 ELSE 2
  BY <1>1 DEF Fits
<1>3. call[d].sent > 0 /\ call[c].msg = call[d].msg => c = d
  BY DEF Answers, Answering
<1> QED
  BY <1>2, <1>3

\* A step that makes no call answer that did not before.
LEMMA AnswerStep ==
  ASSUME Answers, events' = events,
         \A d \in Calls : \/ call'[d] = call[d]
                          \/ /\ call'[d].msg = call[d].msg
                             /\ call'[d].pc \notin {"new", "append", "ended"} \/ call'[d].sent > 0
                                   => Answering(d)
                          \/ call'[d].pc \in {"append", "ended"} /\ call'[d].sent = 0
  PROVE  Answers'
<1>1. \A d \in Calls : Answering(d)' => Answering(d) /\ call'[d].msg = call[d].msg
  BY DEF Answering
<1> QED
  BY <1>1 DEF Answers

LEMMA ContinueKeepsAnswers ==
  ASSUME Typed, Answers, NEW c \in Calls, Continue(c)
  PROVE  Answers'
<1> USE DEF Typed
<1>1. ASSUME events' = events, Alone(c), call'[c].msg = call[c].msg,
             \/ call[c].pc \notin {"new", "append", "ended"}
             \/ KeepsAnswer(c) /\ call'[c].pc = "ended"
      PROVE  Answers'
  BY <1>1, AnswerStep DEF Alone, Answering, KeepsAnswer
<1>2. CASE AppendInbound(c)
  <2>1. /\ Alone(c) /\ KeepsAnswer(c) /\ call[c].pc = "append" /\ call[c].sent = 0
        /\ \/ call[c].msg \in events /\ call'[c].pc = "ended"
           \/ call[c].msg \notin events /\ call'[c].pc \in {"lead", "register"}
    BY <1>2, AppendInboundFacts
  <2>2. events' = events \cup {call[c].msg}
    BY <1>2 DEF AppendInbound
  <2>3. CASE call[c].msg \in events
    BY <1>1, <2>1, <2>2, <2>3 DEF KeepsAnswer
  <2>4. CASE call[c].msg \notin events
    <3>1. \A d \in Calls : d # c => call'[d] = call[d] /\ (Answering(d)' <=> Answering(d))
      BY <2>1 DEF Alone, Answering
    <3>2. \A d \in Calls : d # c /\ Answering(d)' => call'[d].msg \in events
      BY <3>1 DEF Answers
    <3>3. call'[c].msg = call[c].msg
      BY <2>1 DEF KeepsAnswer
    <3>4. \A d \in Calls : Answering(d)' => call'[d].msg \in events'
      BY <2>2, <3>2, <3>3
    <3>5. ASSUME NEW d \in Calls, NEW e \in Calls, Answering(d)', Answering(e)',
                 call'[d].msg = call'[e].msg
          PROVE  d = e
      BY <2>4, <3>1, <3>2, <3>3, <3>5 DEF Answers
    <3> QED
      BY <3>4, <3>5 DEF Answers
  <2> QED
    BY <2>3, <2>4
<1>3. CASE \/ EnterWindow(c) \/ LeaveWindow(c) \/ Deferred(c)
  <2>1. events' = events
    BY <1>3 DEF EnterWindow, LeaveWindow, Deferred, dbVars
  <2>2. call[c].pc \in {"register", "waiting"} /\ Alone(c) /\ KeepsAnswer(c)
    BY <1>3, EnterWindowFacts, LeaveWindowFacts, DeferredFacts
  <2> QED
    BY <1>1, <2>1, <2>2 DEF KeepsAnswer
<1>4. CASE \/ GetLead(c) \/ CreateLead(c) \/ GetSession(c) \/ CreateSession(c) \/ UpdateLead(c)
  <2>1. events' = events
    BY <1>4 DEF GetLead, CreateLead, GetSession, CreateSession, UpdateLead, dbVars
  <2>2. /\ call[c].pc \in {"lead", "create_lead", "session", "create_session", "update_lead"}
        /\ Alone(c) /\ KeepsAnswer(c)
    BY <1>4, GetLeadFacts, CreateLeadFacts, GetSessionFacts, CreateSessionFacts, UpdateLeadFacts
  <2> QED
    BY <1>1, <2>1, <2>2 DEF KeepsAnswer
<1>5. CASE \/ Decide(c) \/ RunAction(c) \/ SaveSession(c) \/ Silence(c) \/ Activate(c)
           \/ ReadHistory(c) \/ Persist(c) \/ PersistFallback(c)
  <2>1. events' = events
    BY <1>5 DEF Decide, RunAction, SaveSession, Silence, Activate, ReadHistory, Persist,
                PersistFallback, dbVars
  <2>2. CASE Decide(c) \/ RunAction(c) \/ SaveSession(c) \/ ReadHistory(c)
    <3>1. call[c].pc \in {"decide", "fsm", "save", "history"} /\ Alone(c) /\ KeepsAnswer(c)
      BY <2>2, DecideFacts, RunActionFacts, SaveSessionFacts, ReadHistoryFacts
    <3> QED
      BY <1>1, <2>1, <3>1 DEF KeepsAnswer
  <2>3. CASE Silence(c) \/ Activate(c) \/ Persist(c) \/ PersistFallback(c)
    <3>1. /\ call[c].pc \in {"silence", "activate", "persist", "persist_fallback"}
          /\ Alone(c) /\ KeepsAnswer(c)
      BY <2>3, SilenceFacts, ActivateFacts, PersistFacts, PersistFallbackFacts
    <3> QED
      BY <1>1, <2>1, <3>1 DEF KeepsAnswer
  <2> QED
    BY <1>5, <2>2, <2>3
<1>6. CASE SendNotice(c) \/ Acknowledge(c) \/ Respond(c) \/ Fallback(c)
  <2>1. events' = events
    BY <1>6 DEF SendNotice, Acknowledge, Respond, Fallback, dbVars
  <2>2. /\ call[c].pc \in {"apologise", "unsupported", "ack", "respond", "fallback"}
        /\ Alone(c) /\ call'[c].msg = call[c].msg
    BY <1>6, SendNoticeFacts, AcknowledgeFacts, RespondFacts, FallbackFacts DEF Sends
  <2> QED
    BY <1>1, <2>1, <2>2
<1> QED
  BY <1>2, <1>3, <1>4, <1>5, <1>6 DEF Continue

LEMMA StepAnswers == Typed /\ Answers /\ [Next]_vars => Answers'
<1> SUFFICES ASSUME Typed, Answers, [Next]_vars PROVE Answers'
  OBVIOUS
<1> USE DEF Typed
<1>1. CASE UNCHANGED vars
  BY <1>1 DEF vars, dbVars, Answers, Answering
<1>2. ASSUME NEW c \in Calls, NEW m \in Msgs, NEW p \in Procs, Receive(c, m, p)
      PROVE  Answers'
  <2>1. Alone(c) /\ call'[c].pc \in {"append", "ended"} /\ call'[c].sent = 0 /\ events' = events
    BY <1>2, ReceiveFacts DEF Receive, dbVars
  <2> QED
    BY <2>1, AnswerStep DEF Alone
<1>3. ASSUME NEW c \in Calls, Continue(c)
      PROVE  Answers'
  BY <1>3, ContinueKeepsAnswers
<1>4. ASSUME NEW c \in Calls, Raises(c)
      PROVE  Answers'
  <2>1. Alone(c) /\ call'[c].pc = "ended" /\ KeepsAnswer(c) /\ events' = events
    BY <1>4, RaisesFacts DEF Raises, dbVars
  <2> QED
    BY <2>1, AnswerStep DEF Alone, KeepsAnswer, Answering
<1>5. ASSUME NEW p \in Procs, Crash(p)
      PROVE  Answers'
  <2>1. /\ events' = events
        /\ \A d \in Calls : call'[d] = call[d] \/ (call'[d].pc = "ended" /\ KeepsAnswer(d))
    BY <1>5, CrashFacts DEF Crash, dbVars
  <2> QED
    BY <2>1, AnswerStep DEF KeepsAnswer, Answering
<1>6. ASSUME UNCHANGED <<call, events>>
      PROVE  Answers'
  BY <1>6 DEF Answers, Answering
<1>7. ASSUME \/ \E r \in Requests, s \in {"handoff_active", "idle"} : ReadForControl(r, s)
             \/ \E r \in Requests : WriteControl(r)
      PROVE  UNCHANGED <<call, events>>
  BY <1>7 DEF ReadForControl, WriteControl, dbVars
<1> QED
  BY <1>1, <1>2, <1>3, <1>4, <1>5, <1>6, <1>7 DEF Next, Step

\* However often a message is delivered, and in whichever process, one call
\* answers it, with one text; the failure message of respond is a second one
\* only when a database or a WhatsApp call raises.
THEOREM MessageAnsweredOnce == Spec => []OneAnswerPerMessage
<1>1. Init => Answers
  BY NewCallFacts DEF Init, Answers, Answering
<1> QED
  BY <1>1, InitTyped, StepTyped, StepAnswers, AnswersImpliesOnce, PTL DEF Spec

-----------------------------------------------------------------------------
(***************************************************************************)
(* What a step does to the session and to those who have a copy of it      *)
(***************************************************************************)

\* Where a call has not read the session, or is done with it.
Outside == {"new", "append", "register", "waiting", "lead", "create_lead", "session",
            "silence", "persist_fallback", "ended"}

\* Where it will look at the row it read, or write it.
Owning == {"update_lead", "decide", "fsm", "save", "ack", "activate"}

Passing == {"fsm", "save", "ack", "activate"}

\* How a call goes on in a step that writes no row.
Goes(d) ==
    \/ call'[d].pc \in Outside /\ (call[d].pc \in Passing => Faults # {})
    \/ call[d].pc = "session" /\ call'[d].pc = "create_session" /\ SessionRows = {}
    \/ /\ call[d].pc = "session" /\ call'[d].pc = "update_lead"
       /\ SessionRows = {call'[d].session} /\ call'[d].state = sessions[call'[d].session].state
    \/ /\ call[d].pc = "update_lead" /\ call'[d].pc = "decide"
       /\ KeepsAnswer(d) /\ KeepsSession(d)
    \/ /\ call[d].pc = "decide" /\ call'[d].pc = "apologise" /\ call[d].state # "handoff_active"
    \/ /\ call[d].pc = "decide" /\ call'[d].pc \in {"fsm", "save"}
       /\ KeepsAnswer(d) /\ call'[d].session = call[d].session
       /\ call'[d].state = call[d].state /\ call[d].state # "handoff_active"
       /\ call'[d].target = "handoff_pending" =>
             call[d].state = "handoff_pending" \/ KindOf(d) = "handoff"
    \/ /\ call[d].pc = "fsm" /\ call'[d].pc \in {"fsm", "save"}
       /\ KeepsAnswer(d) /\ KeepsSession(d)
    \/ /\ call[d].pc = "ack" /\ call'[d].pc = "activate"
       /\ call'[d].msg = call[d].msg /\ call'[d].session = call[d].session
    \/ /\ call[d].pc \in {"history", "respond", "persist"}
       /\ call'[d].pc \in {"respond", "persist", "fallback"}

OnlyReads ==
    /\ kind' = kind /\ sessions' = sessions /\ control' = control
    /\ \A d \in Calls : call'[d] = call[d] \/ Goes(d)
    /\ \A r \in Requests : \/ request'[r] = request[r]
                           \/ request'[r].pc = "done"
                           \/ request'[r].pc = "write" /\ SessionRows = {request'[r].session}

\* The row s is written, in state st.
Wrote(s, st) ==
    /\ s \in SessionIds /\ st # "absent" /\ sessions'[s].state = st
    /\ \A t \in SessionIds : t # s => sessions'[t] = sessions[t]

Creates(c) ==
    /\ call[c].pc = "create_session" /\ Alone(c) /\ Wrote(c, "idle")
    /\ call'[c].pc = "update_lead" /\ call'[c].session = c /\ call'[c].state = "idle"
    /\ kind' = kind /\ control' = control /\ request' = request

\* A call writes the state the engine chose.
Stores(c) ==
    /\ call[c].pc \in {"fsm", "save"} /\ Alone(c) /\ Wrote(call[c].session, call[c].target)
    /\ KeepsAnswer(c) /\ call'[c].session = call[c].session
    /\ \/ call'[c].pc \in {"fsm", "save"} /\ KeepsSession(c)
       \/ /\ call'[c].pc \in {"silence", "ack", "unsupported", "history"}
          /\ KindOf(c) = "handoff" => call'[c].pc = "ack"
    /\ kind' = kind /\ control' = control /\ request' = request

\* A handoff is activated, or an operator takes or releases control.
Controls(s, st) ==
    /\ Wrote(s, st)
    /\ \/ \E c \in Calls : call[c].pc = "activate" /\ call[c].session = s /\ st = "handoff_active"
       \/ \E r \in Requests : request[r].pc = "write" /\ request[r].session = s
    /\ control' = IF st = "handoff_active" THEN "human" ELSE "bot"
    /\ \A d \in Calls : \/ call'[d] = call[d]
                        \/ call'[d].pc = "ended" /\ st = "handoff_active"
    /\ \A r \in Requests : request'[r] = request[r] \/ request'[r].pc = "done"
    /\ kind' = kind

LEMMA WroteFacts ==
  ASSUME Typed, NEW s, NEW row, s \in SessionIds, row.state # "absent",
         sessions' = [sessions EXCEPT ![s] = row]
  PROVE  Wrote(s, row.state)
  BY DEF Wrote, Typed, TablesOK

LEMMA RowsAfter ==
  ASSUME NEW s, NEW st, Wrote(s, st)
  PROVE  SessionRows' = SessionRows \cup {s}
  BY DEF Wrote, SessionRows

LEMMA ContinueForms ==
  ASSUME Typed, NEW c \in Calls, Continue(c)
  PROVE  \/ OnlyReads \/ Creates(c) \/ Stores(c)
         \/ Controls(call[c].session, "handoff_active")
<1> USE DEF Typed
<1>0. kind' = kind
  BY DEF Continue, AppendInbound, EnterWindow, LeaveWindow, Deferred, GetLead, CreateLead,
         GetSession, CreateSession, UpdateLead, Decide, RunAction, SaveSession, SendNotice, Silence,
         Acknowledge, Activate, ReadHistory, Respond, Persist, Fallback, PersistFallback
<1>1. ASSUME sessions' = sessions, control' = control, request' = request,
             Alone(c), Goes(c)
      PROVE  OnlyReads
  BY <1>0, <1>1 DEF OnlyReads, Alone
<1>2. CASE \/ AppendInbound(c) \/ EnterWindow(c) \/ LeaveWindow(c) \/ Deferred(c) \/ GetLead(c)
           \/ CreateLead(c)
  <2>1. sessions' = sessions /\ control' = control /\ request' = request
    BY <1>2 DEF AppendInbound, EnterWindow, LeaveWindow, Deferred, GetLead, CreateLead, dbVars
  <2>2. Alone(c) /\ call'[c].pc \in Outside /\ call[c].pc \notin Passing
    BY <1>2, AppendInboundFacts, EnterWindowFacts, LeaveWindowFacts, DeferredFacts, GetLeadFacts,
       CreateLeadFacts DEF Outside, Passing
  <2> QED
    BY <1>1, <2>1, <2>2 DEF Goes
<1>3. CASE SendNotice(c) \/ Silence(c) \/ PersistFallback(c)
  <2>1. sessions' = sessions /\ control' = control /\ request' = request
    BY <1>3 DEF SendNotice, Silence, PersistFallback, dbVars
  <2>2. Alone(c) /\ call'[c].pc \in Outside /\ call[c].pc \notin Passing
    BY <1>3, SendNoticeFacts, SilenceFacts, PersistFallbackFacts DEF Outside, Passing
  <2> QED
    BY <1>1, <2>1, <2>2 DEF Goes
<1>4. CASE GetSession(c) \/ UpdateLead(c)
  <2>1. sessions' = sessions /\ control' = control /\ request' = request
    BY <1>4 DEF GetSession, UpdateLead, dbVars
  <2>2. Alone(c) /\ Goes(c)
    BY <1>4, GetSessionFacts, UpdateLeadFacts DEF Goes, Outside, Passing
  <2> QED
    BY <1>1, <2>1, <2>2
<1>5. CASE Decide(c)
  <2>1. sessions' = sessions /\ control' = control /\ request' = request
    BY <1>5 DEF Decide, dbVars
  <2>2. Alone(c) /\ Goes(c)
    BY <1>5, DecideFacts DEF Goes, Outside, Passing
  <2> QED
    BY <1>1, <2>1, <2>2
<1>6. CASE \/ Acknowledge(c) \/ ReadHistory(c) \/ Respond(c) \/ Persist(c) \/ Fallback(c)
  <2>1. sessions' = sessions /\ control' = control /\ request' = request
    BY <1>6 DEF Acknowledge, ReadHistory, Respond, Persist, Fallback, dbVars
  <2>2. Alone(c) /\ Goes(c)
    BY <1>6, AcknowledgeFacts, ReadHistoryFacts, RespondFacts, PersistFacts, FallbackFacts
    DEF Sends, KeepsSession, KeepsAnswer, Goes, Outside, Passing
  <2> QED
    BY <1>1, <2>1, <2>2
<1>7. CASE CreateSession(c)
  <2> DEFINE row == [state |-> "idle", context |-> "plain"]
  <2>1. /\ sessions' = [sessions EXCEPT ![c] = row] /\ control' = control
        /\ request' = request
    BY <1>7 DEF CreateSession, InitialState
  <2>2. row.state = "idle" /\ c \in SessionIds
    BY DEF SessionIds
  <2> HIDE DEF row
  <2>3. Wrote(c, "idle")
    BY <2>1, <2>2, WroteFacts
  <2> QED
    BY <1>0, <1>7, <2>1, <2>3, CreateSessionFacts DEF Creates
<1> DEFINE new == [state |-> call[c].target, context |-> call[c].context]
<1>8. ASSUME sessions' = [sessions EXCEPT ![call[c].session] = new]
      PROVE  Wrote(call[c].session, call[c].target)
  <2>1. new.state = call[c].target /\ call[c].target # "absent" /\ call[c].session \in SessionIds
    BY DEF CallsOK, Call, States
  <2> HIDE DEF new
  <2> QED
    BY <1>8, <2>1, WroteFacts
<1>9. CASE RunAction(c)
  <2>1. /\ control' = control /\ request' = request
        /\ sessions' = sessions \/ sessions' = [sessions EXCEPT ![call[c].session] = new]
    BY <1>9 DEF RunAction
  <2> HIDE DEF new
  <2>2. /\ Alone(c) /\ call[c].pc = "fsm" /\ KeepsAnswer(c) /\ KeepsSession(c)
        /\ call'[c].pc \in {"fsm", "save"}
    BY <1>9, RunActionFacts
  <2>3. CASE sessions' = sessions
    BY <1>1, <2>1, <2>2, <2>3 DEF Goes
  <2>4. CASE sessions' = [sessions EXCEPT ![call[c].session] = new]
    BY <1>0, <1>8, <2>1, <2>2, <2>4 DEF Stores, KeepsSession
  <2> QED
    BY <2>1, <2>3, <2>4
<1>10. CASE SaveSession(c)
  <2>1. /\ control' = control /\ request' = request
        /\ sessions' = [sessions EXCEPT ![call[c].session] = new]
    BY <1>10 DEF SaveSession
  <2> HIDE DEF new
  <2> QED
    BY <1>0, <1>8, <1>10, <2>1, SaveSessionFacts DEF Stores
<1>11. CASE Activate(c)
  <2> DEFINE row == [state |-> "handoff_active", context |-> "handoff"]
  <2>1. /\ sessions' = [sessions EXCEPT ![call[c].session] = row]
        /\ control' = "human" /\ request' = request
    BY <1>11 DEF Activate
  <2>2. row.state = "handoff_active" /\ call[c].session \in SessionIds
    BY DEF CallsOK, Call
  <2> HIDE DEF row
  <2>3. Wrote(call[c].session, "handoff_active")
    BY <2>1, <2>2, WroteFacts
  <2> QED
    BY <1>0, <1>11, <2>1, <2>3, ActivateFacts DEF Controls, Alone
<1> HIDE DEF new
<1> QED
  BY <1>2, <1>3, <1>4, <1>5, <1>6, <1>7, <1>9, <1>10, <1>11 DEF Continue

LEMMA StepForms ==
  ASSUME Typed, Step
  PROVE  \/ OnlyReads
         \/ \E c \in Calls : Creates(c) \/ Stores(c)
         \/ \E s \in SessionIds, st \in {"handoff_active", "idle"} : Controls(s, st)
<1> USE DEF Typed
<1>1. ASSUME NEW c \in Calls, NEW m \in Msgs, NEW p \in Procs, Receive(c, m, p)
      PROVE  OnlyReads
  <2>1. Alone(c) /\ call[c].pc = "new" /\ call'[c].pc \in {"append", "ended"}
    BY <1>1, ReceiveFacts
  <2>2. kind' = kind /\ sessions' = sessions /\ control' = control /\ request' = request
    BY <1>1 DEF Receive, dbVars
  <2> QED
    BY <2>1, <2>2 DEF OnlyReads, Alone, Goes, Outside, Passing
<1>2. ASSUME NEW c \in Calls, Raises(c)
      PROVE  OnlyReads
  <2>1. /\ Alone(c) /\ call'[c].pc = "ended" /\ Faults # {}
        /\ kind' = kind /\ sessions' = sessions /\ control' = control /\ request' = request
    BY <1>2, RaisesFacts DEF Raises, dbVars
  <2> QED
    BY <2>1 DEF OnlyReads, Alone, Goes, Outside
<1>3. ASSUME NEW p \in Procs, Crash(p)
      PROVE  OnlyReads
  <2>1. /\ \A d \in Calls : call'[d] = call[d] \/ call'[d].pc = "ended"
        /\ Faults # {}
        /\ kind' = kind /\ sessions' = sessions /\ control' = control /\ request' = request
    BY <1>3, CrashFacts DEF Crash, dbVars
  <2> QED
    BY <2>1 DEF OnlyReads, Goes, Outside
<1>4. ASSUME NEW r \in Requests, NEW s \in {"handoff_active", "idle"}, ReadForControl(r, s)
      PROVE  OnlyReads
  <2>1. call' = call /\ kind' = kind /\ sessions' = sessions /\ control' = control
    BY <1>4 DEF ReadForControl, dbVars
  <2> QED
    BY <1>4, <2>1, ReadForControlFacts DEF OnlyReads
<1>5. ASSUME NEW r \in Requests, WriteControl(r)
      PROVE  Controls(request[r].session, request[r].new_state)
  <2> DEFINE row == [state |-> request[r].new_state, context |-> request[r].context]
  <2>1. /\ sessions' = [sessions EXCEPT ![request[r].session] = row]
        /\ call' = call /\ kind' = kind
        /\ control' = IF request[r].new_state = "handoff_active" THEN "human" ELSE "bot"
    BY <1>5 DEF WriteControl
  <2>2. /\ request[r].pc = "write" /\ request'[r].pc = "done"
        /\ \A q \in Requests : q # r => request'[q] = request[q]
        /\ request[r].session \in SessionIds /\ request[r].new_state \in {"handoff_active", "idle"}
    BY <1>5, WriteControlFacts
  <2>3. row.state = request[r].new_state /\ row.state # "absent"
    BY <2>2
  <2> HIDE DEF row
  <2>4. Wrote(request[r].session, request[r].new_state)
    BY <2>1, <2>2, <2>3, WroteFacts
  <2> QED
    BY <2>1, <2>2, <2>4 DEF Controls
<1>6. \A r \in Requests : WriteControl(r) =>
          request[r].session \in SessionIds /\ request[r].new_state \in {"handoff_active", "idle"}
  BY WriteControlFacts
<1>7. \A c \in Calls : call[c].session \in SessionIds
  BY DEF CallsOK, Call
<1>8. CASE \E r \in Requests : WriteControl(r)
  BY <1>5, <1>6, <1>8
<1>9. CASE \E c \in Calls : Continue(c)
  <2>1. PICK c \in Calls : Continue(c)
    BY <1>9
  <2> QED
    BY <1>7, <2>1, ContinueForms
<1> QED
  BY <1>1, <1>2, <1>3, <1>4, <1>8, <1>9 DEF Step

-----------------------------------------------------------------------------
(***************************************************************************)
(* One session                                                             *)
(***************************************************************************)

\* A copy is of a row, which is never deleted.  Until two calls are about to
\* create a session at once, one that is has found none, and there is at most
\* one.
RowsOK ==
    /\ \A c \in Calls : call[c].pc \in Owning => call[c].session \in SessionRows
    /\ \A c \in Calls : call[c].pc \in {"fsm", "save"} => call[c].state # "handoff_active"
    /\ \A r \in Requests : request[r].pc = "write" => request[r].session \in SessionRows
    /\ control = "human" => SessionRows # {}
    /\ BothCreate => "create" \in raced
    /\ "create" \notin raced =>
        /\ \A c \in Calls : call[c].pc = "create_session" => SessionRows = {}
        /\ \A s, t \in SessionRows : s = t

\* What Observe remembers.
LEMMA ObserveFacts ==
  ASSUME Typed, Observe
  PROVE  /\ raced \subseteq raced' /\ overtaken \subseteq overtaken'
         /\ BothCreate' => "create" \in raced'
         /\ control = "bot" /\ control' = "human" =>
               /\ raced' = {} => \A c \in Calls : ~Writing(c)'
               /\ \A c \in Calls : Replying(c)' => c \in overtaken'
<1>1. raced \subseteq raced' /\ overtaken \subseteq overtaken'
  BY DEF Observe
<1>2. BothCreate' => "create" \in raced'
  BY DEF Observe
<1>3. ASSUME control = "bot", control' = "human", raced' = {}, NEW c \in Calls
      PROVE  ~Writing(c)'
  <2>1. Writing(c)' => "takeover" \in raced'
    BY <1>3 DEF Observe
  <2> QED
    BY <1>3, <2>1
<1>4. ASSUME control = "bot", control' = "human", NEW c \in Calls, Replying(c)'
      PROVE  c \in overtaken'
  BY <1>4 DEF Observe
<1> QED
  BY <1>1, <1>2, <1>3, <1>4

\* The session of a call after a step that writes no row.
LEMMA OwnsAfterReading ==
  ASSUME Typed, RowsOK, OnlyReads, NEW c \in Calls
  PROVE  /\ SessionRows' = SessionRows
         /\ call'[c].pc \in Owning => call'[c].session \in SessionRows
         /\ call'[c].pc \in {"fsm", "save"} => call'[c].state # "handoff_active"
         /\ call'[c].pc = "create_session" => SessionRows = {} \/ call'[c] = call[c]
<1>1. SessionRows' = SessionRows
  BY DEF OnlyReads, SessionRows
<1>2. CASE call'[c] = call[c]
  BY <1>1, <1>2 DEF RowsOK
<1>3. CASE Goes(c)
  <2>1. call'[c].pc \in Owning => call'[c].session \in SessionRows
    BY <1>3 DEF Goes, RowsOK, Owning, Outside, KeepsSession
  <2>2. call'[c].pc \in {"fsm", "save"} => call'[c].state # "handoff_active"
    BY <1>3 DEF Goes, RowsOK, Owning, Outside, KeepsSession
  <2>3. call'[c].pc = "create_session" => SessionRows = {}
    BY <1>3 DEF Goes, Outside
  <2> QED
    BY <1>1, <2>1, <2>2, <2>3
<1> QED
  BY <1>2, <1>3 DEF OnlyReads

LEMMA StepRows == Typed /\ RowsOK /\ [Next]_vars => RowsOK'
<1> SUFFICES ASSUME Typed, RowsOK, [Next]_vars PROVE RowsOK'
  OBVIOUS
<1>1. CASE UNCHANGED vars
  BY <1>1 DEF vars, dbVars, RowsOK, SessionRows, BothCreate
<1>2. CASE Next
  <2>1. Observe /\ Step
    BY <1>2 DEF Next
  <2>2. /\ raced \subseteq raced'
        /\ BothCreate' => "create" \in raced'
    BY <2>1, ObserveFacts
  <2>3. CASE OnlyReads
    <3>1. control' = control /\ SessionRows' = SessionRows
      BY <2>3 DEF OnlyReads, SessionRows
    <3>2. \A r \in Requests : request'[r].pc = "write" => request'[r].session \in SessionRows
      BY <2>3 DEF OnlyReads, RowsOK
    <3>3. ASSUME "create" \notin raced', NEW c \in Calls, call'[c].pc = "create_session"
          PROVE  SessionRows = {}
      BY <2>2, <2>3, <3>3, OwnsAfterReading DEF RowsOK
    <3> QED
      BY <2>2, <2>3, <3>1, <3>2, <3>3, OwnsAfterReading DEF RowsOK
  <2>4. ASSUME NEW c \in Calls, Creates(c)
        PROVE  RowsOK'
    <3>1. SessionRows' = SessionRows \cup {c}
      BY <2>4, RowsAfter DEF Creates
    <3>2. \A d \in Calls : d # c => call'[d] = call[d]
      BY <2>4 DEF Creates, Alone
    <3>3. /\ call'[c].pc = "update_lead" /\ call'[c].session = c /\ call[c].pc = "create_session"
          /\ request' = request
      BY <2>4 DEF Creates
    <3>4. ASSUME "create" \notin raced'
          PROVE  /\ \A d \in Calls : call'[d].pc # "create_session"
                 /\ SessionRows = {}
      <4>1. "create" \notin raced /\ ~BothCreate
        BY <2>2, <3>4 DEF RowsOK
      <4>2. SessionRows = {}
        BY <3>3, <4>1 DEF RowsOK
      <4> QED
        BY <3>2, <3>3, <4>1, <4>2 DEF BothCreate
    <3>5. \A d \in Calls : call'[d].pc \in Owning => call'[d].session \in SessionRows'
      BY <3>1, <3>2, <3>3 DEF RowsOK
    <3>6. \A d \in Calls : call'[d].pc \in {"fsm", "save"} => call'[d].state # "handoff_active"
      BY <3>2, <3>3 DEF RowsOK
    <3>7. \A r \in Requests : request'[r].pc = "write" => request'[r].session \in SessionRows'
      BY <3>1, <3>3 DEF RowsOK
    <3> QED
      BY <2>2, <3>1, <3>4, <3>5, <3>6, <3>7 DEF RowsOK
  <2>5. ASSUME NEW c \in Calls, Stores(c)
        PROVE  RowsOK'
    <3>1. SessionRows' = SessionRows /\ call[c].session \in SessionRows
      <4>1. call[c].session \in SessionRows
        BY <2>5 DEF Stores, RowsOK, Owning
      <4> QED
        BY <2>5, <4>1, RowsAfter DEF Stores
    <3>2. \A d \in Calls : d # c => call'[d] = call[d]
      BY <2>5 DEF Stores, Alone
    <3>3. /\ call'[c].session = call[c].session /\ call'[c].pc # "create_session"
          /\ call'[c].pc \in {"fsm", "save"} => call'[c].state # "handoff_active"
      BY <2>5 DEF Stores, KeepsSession, RowsOK
    <3>4. request' = request /\ control' = control
      BY <2>5 DEF Stores
    <3> QED
      BY <2>2, <3>1, <3>2, <3>3, <3>4 DEF RowsOK
  <2>6. ASSUME NEW s \in SessionIds, NEW st \in {"handoff_active", "idle"}, Controls(s, st)
        PROVE  RowsOK'
    <3>1. SessionRows' = SessionRows /\ s \in SessionRows
      <4>1. s \in SessionRows
        BY <2>6 DEF Controls, RowsOK, Owning
      <4> QED
        BY <2>6, <4>1, RowsAfter DEF Controls
    <3>2. /\ \A d \in Calls : call'[d] = call[d] \/ call'[d].pc = "ended"
          /\ \A r \in Requests : request'[r] = request[r] \/ request'[r].pc = "done"
      BY <2>6 DEF Controls
    <3> QED
      BY <2>2, <3>1, <3>2 DEF RowsOK, Owning
  <2> QED
    BY <2>1, <2>3, <2>4, <2>5, <2>6, StepForms
<1> QED
  BY <1>1, <1>2

\* Before the first delivery no call holds a session, and a conversation
\* under human control has its row.
LEMMA InitFacts ==
  ASSUME Init
  PROVE  /\ \A c \in Calls : call[c].pc = "new"
         /\ \A r \in Requests : request[r].pc = "new"
         /\ raced = {}
         /\ \A s \in SessionRows : s = OldSession
         /\ \A s \in SessionRows : sessions[s].state \in StartStates
         /\ control = "human" =>
               OldSession \in SessionRows /\ sessions[OldSession].state = "handoff_active"
<1>1. PICK s0 \in StartStates :
        /\ sessions = [i \in SessionIds |->
              IF i = OldSession THEN [state |-> s0, context |-> "plain"]
              ELSE [state |-> "absent", context |-> "plain"]]
        /\ control = IF s0 = "handoff_active" THEN "human" ELSE "bot"
  BY DEF Init
<1>2. \A s \in SessionRows : s = OldSession /\ sessions[s].state = s0
  BY <1>1 DEF SessionRows
<1>3. control = "human" => s0 = "handoff_active" /\ sessions[OldSession].state = "handoff_active"
                           /\ OldSession \in SessionRows
  BY <1>1 DEF SessionRows, SessionIds
<1>4. \A c \in Calls : call[c].pc = "new"
  BY NewCallFacts DEF Init
<1>5. (\A r \in Requests : request[r].pc = "new") /\ raced = {}
  BY DEF Init
<1> QED
  BY <1>2, <1>3, <1>4, <1>5

LEMMA InitRows == Init => RowsOK
  BY InitFacts DEF RowsOK, Owning, BothCreate

\* Every number of calls, requests and processes, whatever raises: the lead
\* has two sessions only after two calls that found none were about to create
\* one at the same time.
THEOREM OneSession == Spec => []OneSessionUnlessRaced
<1>1. RowsOK => OneSessionUnlessRaced
  <2> SUFFICES ASSUME RowsOK, "create" \notin raced
               PROVE  Cardinality(SessionRows) <= 1
    BY DEF OneSessionUnlessRaced
  <2>1. CASE SessionRows = {}
    BY <2>1, FS_EmptySet
  <2>2. CASE SessionRows # {}
    <3>1. PICK s \in SessionRows : SessionRows = {s}
      BY <2>2 DEF RowsOK
    <3> QED
      BY <3>1, FS_Singleton
  <2> QED
    BY <2>1, <2>2
<1> QED
  BY <1>1, InitTyped, StepTyped, InitRows, StepRows, PTL DEF Spec

-----------------------------------------------------------------------------
(***************************************************************************)
(* Control                                                                 *)
(***************************************************************************)

\* Without a race, the row of a conversation under human control is in
\* handoff_active, no call is about to write anything else, and only calls
\* that were answering when control was given can still send.
ControlOK ==
    raced = {} /\ control = "human" =>
        /\ \A s \in SessionRows : sessions[s].state = "handoff_active"
        /\ \A c \in Calls : ~Writing(c) /\ (Replying(c) => c \in overtaken)

\* A call that was not writing or replying under human control does not come
\* to it by reading.
LEMMA QuietAfterReading ==
  ASSUME Typed, RowsOK, OnlyReads, NEW c \in Calls, ~Writing(c),
         \A s \in SessionRows : sessions[s].state = "handoff_active"
  PROVE  ~Writing(c)' /\ (Replying(c)' => Replying(c))
<1>1. CASE call'[c] = call[c]
  BY <1>1 DEF Writing, Replying
<1>2. CASE Goes(c)
  <2>1. call[c].pc \in {"update_lead", "decide", "fsm", "save"} => call[c].state = "handoff_active"
    BY DEF Writing
  <2>2. call[c].pc \notin {"fsm", "save"}
    BY <2>1 DEF RowsOK
  <2>3. ~Writing(c)'
    BY <1>2, <2>1, <2>2 DEF Goes, Writing, Outside, KeepsSession
  <2>4. Replying(c)' => Replying(c)
    BY <1>2, <2>1, <2>2 DEF Goes, Replying, Outside
  <2> QED
    BY <2>3, <2>4
<1> QED
  BY <1>1, <1>2 DEF OnlyReads

LEMMA StepControl == Typed /\ RowsOK /\ ControlOK /\ [Next]_vars => ControlOK'
<1> SUFFICES ASSUME Typed, RowsOK, ControlOK, [Next]_vars, raced' = {}, control' = "human"
             PROVE  /\ \A s \in SessionRows' : sessions'[s].state = "handoff_active"
                    /\ \A c \in Calls : ~Writing(c)' /\ (Replying(c)' => c \in overtaken')
  BY DEF ControlOK
<1>1. CASE UNCHANGED vars
  BY <1>1 DEF vars, dbVars, ControlOK, SessionRows, Writing, Replying
<1>2. CASE Next
  <2>1. Observe /\ Step
    BY <1>2 DEF Next
  <2>2. raced = {} /\ overtaken \subseteq overtaken'
    BY <2>1, ObserveFacts
  <2>3. CASE OnlyReads
    <3>1. control = "human" /\ SessionRows' = SessionRows /\ sessions' = sessions
      BY <2>3 DEF OnlyReads, SessionRows
    <3>2. /\ \A s \in SessionRows : sessions[s].state = "handoff_active"
          /\ \A c \in Calls : ~Writing(c) /\ (Replying(c) => c \in overtaken)
      BY <2>2, <3>1 DEF ControlOK
    <3> QED
      BY <2>2, <2>3, <3>1, <3>2, QuietAfterReading
  <2>4. ASSUME NEW c \in Calls, Creates(c)
        PROVE  FALSE
    <3>1. control = "human" /\ call[c].pc = "create_session"
      BY <2>4 DEF Creates
    <3> QED
      BY <2>2, <3>1 DEF RowsOK
  <2>5. ASSUME NEW c \in Calls, Stores(c)
        PROVE  FALSE
    <3>1. control = "human" /\ call[c].pc \in {"fsm", "save"}
      BY <2>5 DEF Stores
    <3> QED
      BY <2>2, <3>1 DEF RowsOK, ControlOK, Writing
  <2>6. ASSUME NEW s \in SessionIds, NEW st \in {"handoff_active", "idle"}, Controls(s, st)
        PROVE  /\ \A t \in SessionRows' : sessions'[t].state = "handoff_active"
               /\ \A c \in Calls : ~Writing(c)' /\ (Replying(c)' => c \in overtaken')
    <3>1. st = "handoff_active" /\ sessions'[s].state = st
      BY <2>6 DEF Controls, Wrote
    <3>2. SessionRows' = SessionRows /\ s \in SessionRows
      <4>1. s \in SessionRows
        BY <2>6 DEF Controls, RowsOK, Owning
      <4> QED
        BY <2>6, <4>1, RowsAfter DEF Controls
    <3>3. \A t \in SessionRows' : sessions'[t].state = "handoff_active"
      BY <2>2, <3>1, <3>2 DEF RowsOK
    <3>4. ASSUME NEW c \in Calls
          PROVE  ~Writing(c)' /\ (Replying(c)' => c \in overtaken')
      <4>1. CASE control = "human"
        <5>1. call'[c] = call[c] \/ call'[c].pc = "ended"
          BY <2>6 DEF Controls
        <5> QED
          BY <2>2, <4>1, <5>1 DEF ControlOK, Writing, Replying
      <4>2. CASE control = "bot"
        BY <2>1, <4>2, ObserveFacts
      <4> QED
        BY <4>1, <4>2 DEF Typed, TablesOK
    <3> QED
      BY <3>3, <3>4
  <2> QED
    BY <2>1, <2>3, <2>4, <2>5, <2>6, StepForms
<1> QED
  BY <1>1, <1>2

LEMMA InitControl == Init => ControlOK
  BY InitFacts DEF ControlOK, Writing, Replying

\* A takeover or a handoff lasts until an operator releases it, whatever
\* messages arrive, whichever calls raise and whichever processes stop: only
\* a call that had read the session and was still to write it when control
\* was given, or a second session, can undo it.
THEOREM TakeoverLasts == Spec => []TakeoverHolds
<1>1. ControlOK => TakeoverHolds
  BY DEF ControlOK, TakeoverHolds
<1> QED
  BY <1>1, InitTyped, StepTyped, InitRows, StepRows, InitControl, StepControl, PTL DEF Spec

\* The calls that have sent more after a step are at a pc that a holder
\* reaches only when the bot has control.
LEMMA WhoSends ==
  ASSUME Typed, NEW c \in Calls, Step, call'[c].sent > call[c].sent
  PROVE  call[c].pc \in {"apologise", "unsupported", "ack", "respond", "fallback"}
<1> USE DEF Typed
<1>1. call[c].sent \in 0..2 /\ call'[c] # call[c] /\ ~KeepsAnswer(c)
  BY DEF CallsOK, Call, KeepsAnswer
<1>2. ASSUME NEW d \in Calls, NEW m \in Msgs, NEW p \in Procs, Receive(d, m, p)
      PROVE  FALSE
  BY <1>1, <1>2, ReceiveFacts DEF Alone
<1>3. ASSUME NEW d \in Calls, Raises(d)
      PROVE  FALSE
  BY <1>1, <1>3, RaisesFacts DEF Alone
<1>4. ASSUME NEW p \in Procs, Crash(p)
      PROVE  FALSE
  BY <1>1, <1>4, CrashFacts
<1>5. ASSUME \/ \E r \in Requests, s \in {"handoff_active", "idle"} : ReadForControl(r, s)
             \/ \E r \in Requests : WriteControl(r)
      PROVE  FALSE
  BY <1>1, <1>5 DEF ReadForControl, WriteControl
<1>6. ASSUME NEW d \in Calls, Continue(d)
      PROVE  call[c].pc \in {"apologise", "unsupported", "ack", "respond", "fallback"}
  <2>1. CASE SendNotice(d) \/ Acknowledge(d) \/ Respond(d) \/ Fallback(d)
    BY <1>1, <2>1, SendNoticeFacts, AcknowledgeFacts, RespondFacts, FallbackFacts DEF Alone
  <2>2. CASE \/ AppendInbound(d) \/ EnterWindow(d) \/ LeaveWindow(d) \/ Deferred(d) \/ GetLead(d)
             \/ CreateLead(d) \/ GetSession(d) \/ CreateSession(d) \/ UpdateLead(d)
    <3>1. Alone(d) /\ KeepsAnswer(d)
      BY <2>2, AppendInboundFacts, EnterWindowFacts, LeaveWindowFacts, DeferredFacts, GetLeadFacts,
         CreateLeadFacts, GetSessionFacts, CreateSessionFacts, UpdateLeadFacts
    <3> QED
      BY <1>1, <3>1 DEF Alone
  <2>3. CASE \/ Decide(d) \/ RunAction(d) \/ SaveSession(d) \/ Silence(d) \/ Activate(d)
             \/ ReadHistory(d) \/ Persist(d) \/ PersistFallback(d)
    <3>1. Alone(d) /\ KeepsAnswer(d)
      BY <2>3, DecideFacts, RunActionFacts, SaveSessionFacts, SilenceFacts, ActivateFacts,
         ReadHistoryFacts, PersistFacts, PersistFallbackFacts
    <3> QED
      BY <1>1, <3>1 DEF Alone
  <2> QED
    BY <1>6, <2>1, <2>2, <2>3 DEF Continue
<1> QED
  BY <1>2, <1>3, <1>4, <1>5, <1>6 DEF Step

\* A conversation under human control gets no text but those of the calls
\* that were answering when control was given, unless there was a race.
THEOREM SilentUnderControl == Spec => BotIsSilentUnderControl
<1> DEFINE Silent ==
      \A c \in Calls : call'[c].sent > call[c].sent =>
          control = "bot" \/ c \in overtaken \/ raced # {}
<1>1. Typed /\ ControlOK /\ [Next]_vars => [Silent]_vars
  <2> SUFFICES ASSUME Typed, ControlOK, Next, NEW c \in Calls,
                      call'[c].sent > call[c].sent, raced = {}, control # "bot"
               PROVE  c \in overtaken
    OBVIOUS
  <2>1. call[c].pc \in {"apologise", "unsupported", "ack", "respond", "fallback"}
    BY WhoSends DEF Next
  <2>2. control = "human"
    BY DEF Typed, TablesOK
  <2> QED
    BY <2>1, <2>2 DEF ControlOK, Replying
<1> QED
  BY <1>1, InitTyped, StepTyped, InitRows, StepRows, InitControl, StepControl, PTL
  DEF Spec, BotIsSilentUnderControl

-----------------------------------------------------------------------------
(***************************************************************************)
(* handoff_pending is only passed through                                  *)
(***************************************************************************)

\* The call that is on its way from handoff_pending to handoff_active.
PassingOn(c, s) ==
    call[c].pc \in Passing /\ KindOf(c) = "handoff" /\ call[c].session = s

Passed(s) == \E d \in Calls : PassingOn(d, s)

\* Wherever handoff_pending is, in the row, in a copy of it or in the state a
\* call is about to write, the call whose customer asked for a human still
\* has the handoff to activate.
Passage ==
    Faults = {} /\ raced = {} =>
        /\ \A s \in SessionRows : sessions[s].state = "handoff_pending" => Passed(s)
        /\ \A c \in Calls :
              \/ call[c].pc \in {"update_lead", "decide"} /\ call[c].state = "handoff_pending"
              \/ call[c].pc \in {"fsm", "save"} /\ call[c].target = "handoff_pending"
              => Passed(call[c].session)

LEMMA PassageImplies == Passage => NoHandoffIsLeftPending
  BY DEF Passage, Passed, PassingOn, Passing, NoHandoffIsLeftPending

\* Nothing that does not raise stops a call on its way.
LEMMA PassingStays ==
  ASSUME Faults = {}, kind' = kind, NEW d \in Calls, NEW s, PassingOn(d, s),
         call'[d] = call[d] \/ Goes(d)
  PROVE  PassingOn(d, s)'
<1>1. CASE call'[d] = call[d]
  BY <1>1 DEF PassingOn, KindOf
<1>2. CASE Goes(d)
  <2>1. call'[d].pc \in Passing /\ call'[d].msg = call[d].msg /\ call'[d].session = call[d].session
    BY <1>2 DEF PassingOn, Passing, Goes, Outside, KeepsAnswer, KeepsSession
  <2> QED
    BY <2>1 DEF PassingOn, KindOf
<1> QED
  BY <1>1, <1>2

\* Once a human has control the row is in handoff_active and nobody writes.
LEMMA PassageUnderControl == RowsOK /\ ControlOK /\ control = "human" => Passage
<1> SUFFICES ASSUME RowsOK, ControlOK, control = "human", raced = {}
             PROVE  /\ \A s \in SessionRows : sessions[s].state # "handoff_pending"
                    /\ \A c \in Calls :
                          /\ call[c].pc \in {"update_lead", "decide"} =>
                                call[c].state # "handoff_pending"
                          /\ call[c].pc \notin {"fsm", "save"}
  BY DEF Passage
<1>1. \A c \in Calls : ~Writing(c)
  BY DEF ControlOK
<1> QED
  BY <1>1 DEF ControlOK, RowsOK, Writing

\* The same of the state a step leads to.
LEMMA NextPassageUnderControl == RowsOK' /\ ControlOK' /\ control' = "human" => Passage'
<1>1. (RowsOK /\ ControlOK /\ control = "human" => Passage)'
  BY PassageUnderControl, PTL
<1> QED
  BY <1>1

LEMMA StepPassage ==
  Typed /\ RowsOK /\ ControlOK /\ Passage /\ [Next]_vars /\ RowsOK' /\ ControlOK' => Passage'
<1> SUFFICES ASSUME Typed, RowsOK, ControlOK, Passage, [Next]_vars, RowsOK', ControlOK'
             PROVE  Passage'
  OBVIOUS
<1>1. CASE UNCHANGED vars
  BY <1>1 DEF vars, dbVars, Passage, Passed, PassingOn, KindOf, SessionRows
<1>2. CASE control' = "human"
  BY <1>2, NextPassageUnderControl
<1>3. ASSUME Next, control' # "human", Faults = {}, raced' = {}
      PROVE  /\ \A s \in SessionRows' : sessions'[s].state = "handoff_pending" => Passed(s)'
             /\ \A c \in Calls, s \in SessionIds :
                   /\ call'[c].session = s
                   /\ \/ call'[c].pc \in {"update_lead", "decide"} /\ call'[c].state = "handoff_pending"
                      \/ call'[c].pc \in {"fsm", "save"} /\ call'[c].target = "handoff_pending"
                   => Passed(s)'
  <2>1. Observe /\ Step
    BY <1>3 DEF Next
  <2>2. raced = {}
    BY <1>3, <2>1, ObserveFacts
  <2>3. /\ \A s \in SessionRows : sessions[s].state = "handoff_pending" => Passed(s)
        /\ \A c \in Calls :
              \/ call[c].pc \in {"update_lead", "decide"} /\ call[c].state = "handoff_pending"
              \/ call[c].pc \in {"fsm", "save"} /\ call[c].target = "handoff_pending"
              => Passed(call[c].session)
    BY <1>3, <2>2 DEF Passage
  <2>4. ASSUME kind' = kind, NEW s, Passed(s),
               \A d \in Calls : call'[d] = call[d] \/ Goes(d)
        PROVE  Passed(s)'
    <3>1. PICK d \in Calls : PassingOn(d, s)
      BY <2>4 DEF Passed
    <3>2. PassingOn(d, s)'
      BY <1>3, <2>4, <3>1, PassingStays DEF PassingOn
    <3> QED
      BY <3>2 DEF Passed
  <2>5. CASE OnlyReads
    <3>1. SessionRows' = SessionRows /\ sessions' = sessions /\ kind' = kind
      BY <2>5 DEF OnlyReads, SessionRows
    <3>2. \A s : Passed(s) => Passed(s)'
      BY <2>4, <2>5 DEF OnlyReads
    <3>3. ASSUME NEW c \in Calls, NEW s, call'[c].session = s, ~Passed(s),
                 \/ call'[c].pc \in {"update_lead", "decide"} /\ call'[c].state = "handoff_pending"
                 \/ call'[c].pc \in {"fsm", "save"} /\ call'[c].target = "handoff_pending"
          PROVE  Passed(s)'
      <4>1. call'[c] # call[c]
        BY <2>3, <3>3
      <4>2. Goes(c)
        BY <2>5, <4>1 DEF OnlyReads
      <4>3. /\ call'[c].pc \in {"fsm", "save"} /\ call'[c].msg = call[c].msg
            /\ KindOf(c) = "handoff"
        BY <2>3, <3>3, <4>2 DEF Goes, Outside, KeepsAnswer, KeepsSession
      <4>4. PassingOn(c, s)'
        BY <3>1, <3>3, <4>3 DEF PassingOn, Passing, KindOf
      <4> QED
        BY <4>4 DEF Passed
    <3> QED
      BY <2>3, <3>1, <3>2, <3>3
  <2>6. ASSUME NEW c \in Calls, Creates(c)
        PROVE  /\ \A s \in SessionRows' : sessions'[s].state = "handoff_pending" => Passed(s)'
               /\ \A d \in Calls, s \in SessionIds :
                   /\ call'[d].session = s
                   /\ \/ call'[d].pc \in {"update_lead", "decide"} /\ call'[d].state = "handoff_pending"
                      \/ call'[d].pc \in {"fsm", "save"} /\ call'[d].target = "handoff_pending"
                   => Passed(s)'
    <3>1. /\ \A d \in Calls : d # c => call'[d] = call[d]
          /\ call'[c].pc = "update_lead" /\ call'[c].state = "idle" /\ kind' = kind
          /\ Wrote(c, "idle") /\ call[c].pc = "create_session"
      BY <2>6 DEF Creates, Alone
    <3>2. ASSUME NEW s, Passed(s)
          PROVE  Passed(s)'
      <4>1. PICK d \in Calls : PassingOn(d, s)
        BY <3>2 DEF Passed
      <4>2. PassingOn(d, s)'
        BY <3>1, <4>1 DEF PassingOn, Passing, KindOf
      <4> QED
        BY <4>2 DEF Passed
    <3>3. \A s \in SessionRows' : sessions'[s].state = "handoff_pending" =>
              s \in SessionRows /\ sessions[s].state = "handoff_pending"
      BY <3>1 DEF Wrote, SessionRows
    <3> QED
      BY <2>3, <3>1, <3>2, <3>3
  <2>7. ASSUME NEW c \in Calls, Stores(c)
        PROVE  /\ \A s \in SessionRows' : sessions'[s].state = "handoff_pending" => Passed(s)'
               /\ \A d \in Calls, s \in SessionIds :
                   /\ call'[d].session = s
                   /\ \/ call'[d].pc \in {"update_lead", "decide"} /\ call'[d].state = "handoff_pending"
                      \/ call'[d].pc \in {"fsm", "save"} /\ call'[d].target = "handoff_pending"
                   => Passed(s)'
    <3>1. /\ \A d \in Calls : d # c => call'[d] = call[d]
          /\ call[c].pc \in {"fsm", "save"} /\ call'[c].pc \notin {"update_lead", "decide"}
          /\ call'[c].msg = call[c].msg /\ call'[c].session = call[c].session
          /\ KindOf(c) = "handoff" => call'[c].pc \in Passing
          /\ call'[c].pc \in {"fsm", "save"} => call'[c].target = call[c].target
          /\ kind' = kind /\ Wrote(call[c].session, call[c].target)
      BY <2>7 DEF Stores, Alone, KeepsAnswer, KeepsSession, Passing
    <3>2. ASSUME NEW s, Passed(s)
          PROVE  Passed(s)'
      <4>1. PICK d \in Calls : PassingOn(d, s)
        BY <3>2 DEF Passed
      <4>2. PassingOn(d, s)'
        BY <3>1, <4>1 DEF PassingOn, Passing, KindOf
      <4> QED
        BY <4>2 DEF Passed
    <3>3. \A s \in SessionRows' : sessions'[s].state = "handoff_pending" => Passed(s)
      BY <2>3, <3>1 DEF Wrote, SessionRows
    <3> QED
      BY <2>3, <3>1, <3>2, <3>3
  <2>8. ASSUME NEW w \in SessionIds, NEW st \in {"handoff_active", "idle"}, Controls(w, st)
        PROVE  /\ \A s \in SessionRows' : sessions'[s].state = "handoff_pending" => Passed(s)'
               /\ \A d \in Calls, s \in SessionIds :
                   /\ call'[d].session = s
                   /\ \/ call'[d].pc \in {"update_lead", "decide"} /\ call'[d].state = "handoff_pending"
                      \/ call'[d].pc \in {"fsm", "save"} /\ call'[d].target = "handoff_pending"
                   => Passed(s)'
    <3>1. st = "idle" /\ Wrote(w, st) /\ kind' = kind /\ \A d \in Calls : call'[d] = call[d]
      BY <1>3, <2>8 DEF Controls
    <3>2. \A s : Passed(s) => Passed(s)'
      BY <2>4, <3>1
    <3>3. \A s \in SessionRows' : sessions'[s].state = "handoff_pending" =>
              s \in SessionRows /\ sessions[s].state = "handoff_pending"
      BY <3>1 DEF Wrote, SessionRows
    <3> QED
      BY <2>3, <3>1, <3>2, <3>3
  <2> QED
    BY <2>1, <2>5, <2>6, <2>7, <2>8, StepForms
<1>4. \A c \in Calls : call'[c].session \in SessionIds
  BY StepTyped DEF Typed, CallsOK, Call
<1>5. ASSUME NEW c \in Calls, NEW s, s = call'[c].session, Passed(s)'
      PROVE  Passed(call[c].session)'
  BY <1>5 DEF Passed, PassingOn
<1> QED
  BY <1>1, <1>2, <1>3, <1>4, <1>5 DEF Passage

\* A conversation that does not start in handoff_pending is never left there
\* when nothing raises and there is no race, however many calls read it there:
\* the call that asked for a human is on its way to handoff_active.
THEOREM NoHandoffLeftPending ==
  ASSUME "handoff_pending" \notin StartStates
  PROVE  Spec => []NoHandoffIsLeftPending
<1>1. Init => Passage
  BY InitFacts DEF Passage, SessionRows
<1> QED
  BY <1>1, InitTyped, StepTyped, InitRows, StepRows, InitControl, StepControl, StepPassage,
     PassageImplies, PTL DEF Spec
=============================================================================
