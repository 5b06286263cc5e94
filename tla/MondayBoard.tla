------------------------------ MODULE MondayBoard ------------------------------
(***************************************************************************)
(* The board of the CRM and who writes it: the FSM of a conversation       *)
(* enqueues upsert_lead and change_stage (core/services/inbound_handler.py,*)
(* core/fsm/actions.py), CRMSyncWorkers dispatch them                      *)
(* (core/services/crm_worker.py) and MondayCRMAdapter turns each into two  *)
(* calls of Monday, a read and then a write that nothing ties together     *)
(* (adapters/crm/monday_adapter.py).  Every call of Monday is a step.      *)
(*                                                                         *)
(* The outbox is what CrmOutbox shows it to be: one pending row per lead   *)
(* and operation, claimed by one worker, put back after an error or lost.  *)
(* The number of attempts is left out; a row may be given up after any.    *)
(***************************************************************************)
EXTENDS FsmEngine

CONSTANTS
    Leads,        \* customers, each with one phone and one session
    ItemIds,      \* bound: items ever created on the board
    Workers,      \* process_batch activations that may overlap
    MaxEvents,    \* bound: messages of a lead and requests of its operator
    StartStates,  \* FSM states a conversation may start in
    Faults,       \* "read", "write", "crash": what may fail; "seller": edits by hand
    Nobody        \* no lead, no item

ASSUME BoardConstants ==
    /\ MaxEvents \in Nat
    /\ StartStates \subseteq States
    /\ Nobody \notin Leads /\ Nobody \notin ItemIds

VARIABLES
    session,   \* current_state of the lead's session
    phase,     \* where handle is: between messages, or before the FSM
    left,      \* messages and requests that may still come
    outbox,    \* the pending rows of crm_outbox
    older,     \* which of a lead's two pending rows was created first
    batch,     \* rows a worker claimed and has not dispatched
    work,      \* the operation a worker is in
    board,     \* the items: phone and stage column
    upserted,  \* history: the label of the lead's last upsert_lead
    trouble    \* history: why the board may be wrong about the lead

fsmVars == <<session, phase, left, upserted>>
vars == <<session, phase, left, outbox, older, batch, work, board, upserted, trouble>>

-----------------------------------------------------------------------------
(***************************************************************************)
(* Stages                                                                  *)
(***************************************************************************)

\* DEFAULT_STAGE_HIERARCHY
Hierarchy == <<"Nuevo", "Conversando", "Calificando", "Listo para Handoff", "Handoff Hecho">>

Labels == {"Nuevo", "Conversando", "Calificando", "Listo para Handoff", "Handoff Hecho"}

Rank(label) == CHOOSE i \in 1..5 : Hierarchy[i] = label

\* Mutant: stage_map has no entry for "handoff", and the key goes through.
StageLabelUnmapped(state) ==
    CASE state \in {"greeting", "discovery", "objection_handling", "cooldown"} -> "Conversando"
      [] state \in {"handoff_pending", "handoff_active"} -> "handoff"
      [] OTHER -> "Calificando"

\* _resolve_stage_label: FSM_STAGE_TO_STAGE_KEY, then stage_map.
StageLabel(state) ==
    CASE state \in {"greeting", "discovery", "objection_handling", "cooldown"} -> "Conversando"
      [] state = "qualification" -> "Calificando"
      [] state \in {"catalog_navigation", "document_delivery", "appointment_flow",
                    "handoff_pending", "handoff_active"} -> "Listo para Handoff"
      [] OTHER -> "Nuevo"

\* Mutant: a new round of conversation is let in from every stage.
CanAdvanceReopensAll(current, new) == new = "Conversando" \/ Rank(new) > Rank(current)

\* _can_advance_stage for the labels of the board; no stage is special.
CanAdvance(current, new) ==
    \/ current = "Handoff Hecho" /\ new = "Conversando"
    \/ Rank(new) > Rank(current)

-----------------------------------------------------------------------------
(***************************************************************************)
(* State                                                                   *)
(***************************************************************************)

Ops == {"upsert_lead", "change_stage"}
Row == [lead : Leads, op : Ops, label : Labels, retry : {"no", "yes"}]
Claimed == [lead : Leads, op : Ops, label : Labels, turn : {1, 2}]
Troubles == {"overlap", "unread", "double", "dropped", "closed"}

RowsOf(l, op) == {r \in outbox : r.lead = l /\ r.op = op}
ItemsOf(l) == {i \in ItemIds : board[i].lead = l}

\* A worker that has a row of the lead.
Busy(w, l) == (\E r \in batch[w] : r.lead = l) \/ (work[w].pc # "idle" /\ work[w].lead = l)

Idle == [pc |-> "idle", lead |-> Nobody, op |-> "upsert_lead", label |-> "Nuevo", item |-> Nobody]

\* A lead that is not new has the item its last upsert_lead left.
Init ==
    /\ session \in [Leads -> StartStates]
    /\ board \in [ItemIds -> [lead : Leads \cup {Nobody}, stage : Labels]]
    /\ \A i \in ItemIds :
        board[i].stage = IF board[i].lead = Nobody THEN "Nuevo"
                         ELSE StageLabel(session[board[i].lead])
    /\ \A i, j \in ItemIds : board[i].lead = board[j].lead => i = j \/ board[i].lead = Nobody
    /\ \A l \in Leads : session[l] = "idle" <=> ItemsOf(l) = {}
    /\ phase = [l \in Leads |-> "waiting"]
    /\ left = [l \in Leads |-> MaxEvents]
    /\ outbox = {}
    /\ older = [l \in Leads |-> "upsert_lead"]
    /\ batch = [w \in Workers |-> {}]
    /\ work = [w \in Workers |-> Idle]
    /\ upserted = [l \in Leads |-> "none"]
    /\ trouble = [l \in Leads |-> {}]

-----------------------------------------------------------------------------
(***************************************************************************)
(* The conversation: handle, process_event and HandoffService              *)
(***************************************************************************)

\* Mutant: the conflict with the pending row does nothing.
EnqueueKeepsOldest(l, op, label) ==
    /\ outbox' = IF RowsOf(l, op) # {} THEN outbox
                 ELSE outbox \cup {[lead |-> l, op |-> op, label |-> label, retry |-> "no"]}
    /\ older' = [older EXCEPT ![l] = IF RowsOf(l, op) # {} THEN @
                                     ELSE IF outbox \ RowsOf(l, op) = {} THEN op ELSE @]

\* enqueue_operation: a pending row takes the new payload and keeps its
\* created_at; a new row is the younger one of its lead.
Enqueue(l, op, label) ==
    /\ outbox' = (outbox \ RowsOf(l, op))
                    \cup {[lead |-> l, op |-> op, label |-> label, retry |-> "no"]}
    /\ older' = IF RowsOf(l, op) = {} /\ (\A o \in Ops \ {op} : RowsOf(l, o) = {})
                THEN [older EXCEPT ![l] = op]
                ELSE IF RowsOf(l, op) = {}
                     THEN [older EXCEPT ![l] = CHOOSE o \in Ops : o # op]
                     ELSE older

\* handle up to _enqueue_lead_upsert; a silenced phone gets no further, and
\* a session in handoff_active returns after it.
HandleMessage(l) ==
    /\ phase[l] = "waiting" /\ left[l] > 0 /\ session[l] # "cooldown"
    /\ Enqueue(l, "upsert_lead", StageLabel(session[l]))
    /\ left' = [left EXCEPT ![l] = @ - 1]
    /\ phase' = [phase EXCEPT ![l] = IF session[l] = "handoff_active" THEN "waiting" ELSE "fsm"]
    /\ upserted' = [upserted EXCEPT ![l] = StageLabel(session[l])]
    /\ UNCHANGED <<session, batch, work, board, trouble>>

\* process_event; log_transition, and update_crm_stage where it is
\* configured, enqueue the same label.  A handoff goes on to handoff_active.
Transition(l, event, guards) ==
    LET step == ProcessEvent(session[l], event, guards)
    IN  /\ phase[l] = "fsm"
        /\ IF step.actions = << >> THEN UNCHANGED <<outbox, older>>
           ELSE Enqueue(l, "change_stage", StageLabel(step.target))
        /\ session' = [session EXCEPT ![l] =
                IF step.target = "handoff_pending" THEN "handoff_active" ELSE step.target]
        /\ phase' = [phase EXCEPT ![l] = "waiting"]
        /\ UNCHANGED <<left, batch, work, board, upserted, trouble>>

\* Unsupported content, or an error before the FSM.
NoTransition(l) ==
    /\ phase[l] = "fsm"
    /\ phase' = [phase EXCEPT ![l] = "waiting"]
    /\ UNCHANGED <<session, left, outbox, older, batch, work, board, upserted, trouble>>

\* take_control and release_control: the CRM is not told.
Control(l, state) ==
    /\ phase[l] = "waiting" /\ left[l] > 0
    /\ session' = [session EXCEPT ![l] = state]
    /\ left' = [left EXCEPT ![l] = @ - 1]
    /\ UNCHANGED <<phase, outbox, older, batch, work, board, upserted, trouble>>

\* A seller closes the handoff on the board: terminal_stages says it happens
\* and no code here does it.
SellerCloses(i) ==
    /\ "seller" \in Faults
    /\ board[i].lead # Nobody /\ board[i].stage # "Handoff Hecho"
    /\ board' = [board EXCEPT ![i] = [@ EXCEPT !.stage = "Handoff Hecho"]]
    /\ trouble' = [trouble EXCEPT ![board[i].lead] =
            @ \cup IF \E w \in Workers : Busy(w, board[i].lead) THEN {"closed", "overlap"}
                   ELSE {"closed"}]
    /\ UNCHANGED <<session, phase, left, outbox, older, batch, work, upserted>>

-----------------------------------------------------------------------------
(***************************************************************************)
(* CRMSyncWorker.process_batch                                             *)
(***************************************************************************)

\* get_pending_batch: every row whose retry time has passed.  Two workers
\* with rows of one lead overlap.
Claim(w) ==
    /\ work[w].pc = "idle" /\ batch[w] = {} /\ outbox # {}
    /\ \E due \in SUBSET outbox :
        /\ {r \in outbox : r.retry = "no"} \subseteq due
        /\ outbox' = outbox \ due
        /\ batch' = [batch EXCEPT ![w] =
                {[lead |-> r.lead, op |-> r.op, label |-> r.label,
                  turn |-> IF older[r.lead] = r.op THEN 1 ELSE 2] : r \in due}]
        /\ trouble' = [l \in Leads |->
                IF (\E r \in due : r.lead = l) /\ (\E v \in Workers \ {w} : Busy(v, l))
                THEN trouble[l] \cup {"overlap"} ELSE trouble[l]]
    /\ UNCHANGED <<fsmVars, older, work, board>>

\* The loop goes on with the oldest row of a lead; the leads are independent.
Dispatch(w, r) ==
    /\ work[w].pc = "idle" /\ r \in batch[w]
    /\ \A q \in batch[w] : q.lead = r.lead => r.turn <= q.turn
    /\ batch' = [batch EXCEPT ![w] = @ \ {r}]
    /\ work' = [work EXCEPT ![w] =
            [pc |-> "find", lead |-> r.lead, op |-> r.op, label |-> r.label, item |-> Nobody]]
    /\ UNCHANGED <<fsmVars, outbox, older, board, trouble>>

\* mark_as_done
Finish(w) == work' = [work EXCEPT ![w] = Idle] /\ UNCHANGED <<outbox, older, batch>>

\* The except clause: the row is retried, with any place in the order, or
\* moved to crm_dlq; the retry of a row that has a pending successor
\* collides with the unique index and takes the rest of the batch with it.
Fail(w) ==
    LET l == work[w].lead
        op == work[w].op
    IN  /\ work' = [work EXCEPT ![w] = Idle]
        /\ \/ /\ RowsOf(l, op) = {}
              /\ outbox' = outbox \cup {[lead |-> l, op |-> op, label |-> work[w].label,
                                         retry |-> "yes"]}
              /\ \E o \in Ops : older' = [older EXCEPT ![l] = o]
              /\ UNCHANGED <<batch, trouble>>
           \/ /\ RowsOf(l, op) # {}
              /\ batch' = [batch EXCEPT ![w] = {}]
              /\ trouble' = [m \in Leads |-> IF Busy(w, m) THEN trouble[m] \cup {"dropped"}
                                                           ELSE trouble[m]]
              /\ UNCHANGED <<outbox, older>>
           \/ /\ trouble' = [trouble EXCEPT ![l] = @ \cup {"dropped"}]
              /\ UNCHANGED <<outbox, older, batch>>

\* A worker stops: its rows stay in processing.
Crash(w) ==
    /\ "crash" \in Faults
    /\ work[w].pc # "idle" \/ batch[w] # {}
    /\ work' = [work EXCEPT ![w] = Idle]
    /\ batch' = [batch EXCEPT ![w] = {}]
    /\ trouble' = [l \in Leads |-> IF Busy(w, l) THEN trouble[l] \cup {"dropped"} ELSE trouble[l]]
    /\ UNCHANGED <<fsmVars, outbox, older, board>>

-----------------------------------------------------------------------------
(***************************************************************************)
(* MondayCRMAdapter                                                        *)
(***************************************************************************)

Continue(w, pc, item) == work' = [work EXCEPT ![w] = [@ EXCEPT !.pc = pc, !.item = item]]

Remember(l, marks) == trouble' = [trouble EXCEPT ![l] = @ \cup marks]

\* Mutant: the phone is looked up in a format the board does not hold.
FoundNever(l) == {}

\* _find_item_by_phone: one of the items of the phone.
Found(l) == ItemsOf(l)

\* No payload carries an id of Monday, so both operations look for the phone.
FindItem(w) ==
    /\ work[w].pc = "find"
    /\ \E i \in Found(work[w].lead) :
        Continue(w, IF work[w].op = "upsert_lead" THEN "update" ELSE "read", i)
    /\ UNCHANGED <<fsmVars, outbox, older, batch, board, trouble>>

\* A worker other than w is about to create an item for lead l.
AnotherCreates(w, l) == \E v \in Workers \ {w} : work[v].pc = "create" /\ work[v].lead = l

\* upsert_lead goes on to create the item.
GoesToCreate(w, marks) ==
    /\ work[w].op = "upsert_lead"
    /\ Continue(w, "create", Nobody)
    /\ Remember(work[w].lead, IF AnotherCreates(w, work[w].lead) THEN {"double"} ELSE marks)
    /\ UNCHANGED <<outbox, older, batch>>

\* upsert_lead creates the item, change_stage raises.
FindNoItem(w) ==
    /\ work[w].pc = "find" /\ Found(work[w].lead) = {}
    /\ \/ GoesToCreate(w, {})
       \/ work[w].op = "change_stage" /\ Fail(w)
    /\ UNCHANGED <<fsmVars, board>>

\* A lookup that fails is logged and answers like an empty one.
FindFails(w) ==
    /\ "read" \in Faults /\ work[w].pc = "find"
    /\ \/ GoesToCreate(w, {"double"})
       \/ work[w].op = "change_stage" /\ Fail(w)
    /\ UNCHANGED <<fsmVars, board>>

\* The two mutations as Monday executes them.  upsert_lead writes the stage
\* with the other columns and does not ask whether it may.
Written(w) == [board EXCEPT ![work[w].item] = [@ EXCEPT !.stage = work[w].label]]

Added(w, i) == [board EXCEPT ![i] = [lead |-> work[w].lead, stage |-> work[w].label]]

UpdateItem(w) ==
    /\ work[w].pc = "update"
    /\ board' = Written(w)
    /\ Finish(w)
    /\ UNCHANGED <<fsmVars, trouble>>

CreateItem(w) ==
    /\ work[w].pc = "create"
    /\ \E i \in ItemsOf(Nobody) : board' = Added(w, i)
    /\ Finish(w)
    /\ UNCHANGED <<fsmVars, trouble>>

\* _get_item_stage_label and the check of the hierarchy; an operation that
\* is blocked is done.
ReadStage(w) ==
    /\ work[w].pc = "read"
    /\ IF CanAdvance(board[work[w].item].stage, work[w].label)
       THEN Continue(w, "write", work[w].item) /\ UNCHANGED <<outbox, older, batch>>
       ELSE Finish(w)
    /\ UNCHANGED <<fsmVars, board, trouble>>

\* The stage cannot be read: the change is made unchecked.
ReadStageFails(w) ==
    /\ "read" \in Faults /\ work[w].pc = "read"
    /\ Continue(w, "write", work[w].item)
    /\ Remember(work[w].lead, {"unread"})
    /\ UNCHANGED <<fsmVars, outbox, older, batch, board>>

WriteStage(w) ==
    /\ work[w].pc = "write"
    /\ board' = Written(w)
    /\ Finish(w)
    /\ UNCHANGED <<fsmVars, trouble>>

\* A mutation, or mark_as_done after it, raises.
MutationRaises(w) ==
    /\ "write" \in Faults /\ work[w].pc \in {"update", "create", "write"}
    /\ Fail(w)
    /\ \/ UNCHANGED board
       \/ work[w].pc \in {"update", "write"} /\ board' = Written(w)
       \/ work[w].pc = "create" /\ \E i \in ItemsOf(Nobody) : board' = Added(w, i)
    /\ UNCHANGED fsmVars

-----------------------------------------------------------------------------
Conversation(l) ==
    \/ HandleMessage(l)
    \/ \E event \in Events, known \in SUBSET {"has_name", "user_requested_document"} :
        Transition(l, event, known \cup {"always", "has_phone_number", "is_not_silenced"}
            \cup (IF event = "opt_out_detected" THEN {event} ELSE {}))
    \/ NoTransition(l)
    \/ \E state \in {"handoff_active", "idle"} : Control(l, state)

Adapter(w) ==
    \/ FindItem(w) \/ FindNoItem(w) \/ FindFails(w)
    \/ UpdateItem(w) \/ CreateItem(w) \/ ReadStage(w) \/ ReadStageFails(w) \/ WriteStage(w)
    \/ MutationRaises(w)

Worker(w) == Claim(w) \/ (\E r \in batch[w] : Dispatch(w, r)) \/ Adapter(w)

Next ==
    \/ \E l \in Leads : Conversation(l)
    \/ \E i \in ItemIds : SellerCloses(i)
    \/ \E w \in Workers : Worker(w) \/ Crash(w)

Spec == Init /\ [][Next]_vars

\* The scheduler starts process_batch again and again.
FairSpec == Spec /\ \A w \in Workers : WF_vars(Worker(w))

-----------------------------------------------------------------------------
TypeOK ==
    /\ outbox \subseteq Row
    /\ batch \in [Workers -> SUBSET Claimed]
    /\ work \in [Workers -> [pc : {"idle", "find", "update", "create", "read", "write"},
                            lead : Leads \cup {Nobody}, op : Ops, label : Labels,
                            item : ItemIds \cup {Nobody}]]
    /\ \A w \in Workers :
        /\ work[w].pc # "idle" => work[w].lead \in Leads
        /\ work[w].pc \in {"update", "read", "write"} =>
              work[w].item \in ItemIds /\ board[work[w].item].lead = work[w].lead
    /\ board \in [ItemIds -> [lead : Leads \cup {Nobody}, stage : Labels]]
    /\ trouble \in [Leads -> SUBSET Troubles]

\* A lookup of the phone failed before a create, or two workers were about to
\* create the item of the lead at once.
Doubled(l) == "double" \in trouble[l]

\* upsert_lead makes one item per phone, whatever overlaps and whatever is
\* retried after an answer of Monday was lost, unless Doubled says why not.
OneItemPerLead ==
    \A i, j \in ItemIds :
        board[i].lead = board[j].lead /\ board[i].lead # Nobody =>
            i = j \/ Doubled(board[i].lead)

\* What the adapter read of the stage was not what it wrote over: two workers
\* or a seller were at the lead at once, or a read of Monday failed.
Misread(l) == trouble[l] \cap {"overlap", "unread"} # {}

\* change_stage moves an item forward or reopens a finished one: what it
\* checked still holds when it writes, unless the lead was misread.
Advances(old, new) == Rank(new) > Rank(old) \/ (old = "Handoff Hecho" /\ new = "Conversando")

ChangesAdvance ==
    [][\A w \in Workers : work[w].pc = "write" /\ board' # board /\ ~ Misread(work[w].lead)
            => Advances(board[work[w].item].stage, work[w].label)]_vars

\* When nothing of a lead is outstanding, its item is at least as far as its
\* last upsert_lead said: no older operation wrote over a newer one.
BoardKeepsUp ==
    \A l \in Leads :
        /\ upserted[l] # "none" /\ trouble[l] = {}
        /\ \A r \in outbox : r.lead # l
        /\ \A w \in Workers : ~ Busy(w, l)
        => \E i \in ItemsOf(l) : Rank(board[i].stage) >= Rank(upserted[l])

\* vault/10-sprints/sprint-C-monday-crm/00-overview.md:37: the stage only
\* advances.
StageOnlyAdvances ==
    [][\A i \in ItemIds : board[i].lead # Nobody /\ board'[i].stage # board[i].stage
            => Advances(board[i].stage, board'[i].stage)]_vars
=============================================================================
