------------------------------ MODULE FsmEngine ------------------------------
(***************************************************************************)
(* The conversation state machine: the configuration brand/fsm.yaml, the   *)
(* guards it names (core/fsm/guards.py) and the choice of a transition in  *)
(* FSMEngine.process_event (core/fsm/engine.py).  Constant operators only: *)
(* a step of the handler runs the chosen actions one by one, because each  *)
(* is a call to a database or to WhatsApp (core/fsm/actions.py).           *)
(***************************************************************************)
EXTENDS Naturals, Sequences

States == {"idle", "greeting", "discovery", "qualification", "catalog_navigation",
           "document_delivery", "objection_handling", "appointment_flow",
           "handoff_pending", "handoff_active", "cooldown", "closed"}

InitialState == "idle"

\* The events OrchestratorAgent.classify can produce.  The others of the
\* configuration (message_received, agent_command, agent_took_control,
\* agent_released_control, timeout, opt_out) are sent by nobody; neither is
\* campaign_reply_received, because no code writes the campaign_id it needs
\* into a session's context.
Events == {"user_message", "handoff_requested", "opt_out_detected"}

-----------------------------------------------------------------------------
T(event, guard, target, actions) ==
    [event |-> event, guard |-> guard, target |-> target, actions |-> actions]

\* Three transitions most states share.
HandoffRequested == T("handoff_requested", "always", "handoff_pending",
                      <<"log_transition", "notify_agent">>)
OptOutDetected == T("opt_out_detected", "opt_out_detected", "cooldown", <<"log_transition">>)
Reactivation == T("user_message", "is_not_silenced", "greeting", <<"log_transition">>)

\* allowed_transitions, in the order of the file, for the events above.
Transitions == [
    idle |-> <<
        T("user_message", "is_not_silenced", "greeting", <<"log_transition", "update_crm_stage">>),
        HandoffRequested, OptOutDetected>>,
    greeting |-> <<
        T("user_message", "is_not_silenced", "discovery", <<"log_transition">>),
        HandoffRequested, OptOutDetected>>,
    discovery |-> <<
        T("user_message", "has_name", "qualification", <<"log_transition", "update_crm_stage">>),
        T("user_message", "always", "catalog_navigation", <<"log_transition">>),
        HandoffRequested, OptOutDetected>>,
    qualification |-> <<
        T("user_message", "has_phone_number", "catalog_navigation", <<"log_transition">>),
        T("user_message", "always", "objection_handling", <<"log_transition">>),
        HandoffRequested, OptOutDetected>>,
    catalog_navigation |-> <<
        T("user_message", "user_requested_document", "document_delivery", <<"log_transition">>),
        HandoffRequested, OptOutDetected,
        T("user_message", "always", "catalog_navigation",
          <<"log_transition", "update_crm_stage">>)>>,
    document_delivery |-> <<
        T("user_message", "always", "objection_handling", <<"log_transition">>),
        T("user_message", "has_phone_number", "appointment_flow", <<"log_transition">>),
        HandoffRequested, OptOutDetected>>,
    objection_handling |-> <<
        T("user_message", "always", "catalog_navigation", <<"log_transition">>),
        T("user_message", "has_phone_number", "appointment_flow", <<"log_transition">>),
        HandoffRequested, OptOutDetected>>,
    appointment_flow |-> <<
        HandoffRequested, OptOutDetected,
        T("user_message", "has_phone_number", "closed",
          <<"log_transition", "update_crm_stage">>)>>,
    handoff_pending |-> <<OptOutDetected>>,
    handoff_active |-> <<OptOutDetected>>,
    cooldown |-> <<Reactivation, OptOutDetected>>,
    closed |-> <<Reactivation, HandoffRequested>>]

\* on_enter; on_exit is empty in every state.
OnEnter(s) ==
    CASE s \in {"idle", "greeting", "discovery", "handoff_active", "cooldown"} -> <<"update_session">>
      [] s = "handoff_pending" -> <<"update_session", "notify_agent">>
      [] OTHER -> <<"update_session", "update_crm_stage">>

-----------------------------------------------------------------------------
\* The transitions of state s that event matches and whose guard is in the
\* set of guards that are true of the context.
Matching(s, event, guards) ==
    {i \in DOMAIN Transitions[s] : /\ Transitions[s][i].event = event
                                   /\ Transitions[s][i].guard \in guards}

\* process_event: the first matching transition with the actions to run, or
\* the present state and nothing to do.
ProcessEvent(s, event, guards) ==
    LET matching == Matching(s, event, guards)
        first == CHOOSE i \in matching : \A j \in matching : i <= j
        t == Transitions[s][first]
    IN  IF matching = {} THEN [target |-> s, actions |-> << >>]
        ELSE [target |-> t.target, actions |-> t.actions \o OnEnter(t.target)]
=============================================================================
