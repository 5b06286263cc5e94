--------------------------- MODULE MondayBoardProofs ---------------------------
(***************************************************************************)
(* Proofs about MondayBoard.  OneItemPerLead is not inductive: a create    *)
(* must still be right when it is executed, and is when no other worker    *)
(* was about to create as well (Creates).  ChangesAdvance needs the same   *)
(* of the stage a worker read (Changes), which holds because two workers   *)
(* at one lead leave a mark (Overlaps).  BoardKeepsUp speaks of the moment *)
(* when nothing of a lead is outstanding; KeepsUp says where its last      *)
(* upsert_lead is until then, and LabelsFit that only a seller finishes an *)
(* item, which is all that lets change_stage move one back.                *)
(***************************************************************************)
EXTENDS MondayBoard, TLAPS

Overlaps ==
    \A v, w \in Workers, l \in Leads :
        v # w /\ Busy(v, l) /\ Busy(w, l) => "overlap" \in trouble[l]

Creates ==
    \A w \in Workers : work[w].pc = "create" /\ ~ Doubled(work[w].lead) =>
        ItemsOf(work[w].lead) = {} /\ ~ AnotherCreates(w, work[w].lead)

Changes ==
    \A w \in Workers : work[w].pc = "write" /\ ~ Misread(work[w].lead)
        => Advances(board[work[w].item].stage, work[w].label)

IInv == TypeOK /\ Overlaps /\ Creates /\ Changes /\ OneItemPerLead

\* trouble only grows.
Grows == /\ trouble' \in [Leads -> SUBSET Troubles]
         /\ \A l \in Leads : trouble[l] \subseteq trouble'[l]

\* What the outbox and the batches are after a step of w that claims nothing.
Keeps(w) == /\ outbox' \subseteq Row
            /\ batch' \in [Workers -> SUBSET Claimed]
            /\ batch'[w] \subseteq batch[w]
            /\ \A v \in Workers \ {w} : batch'[v] = batch[v]

\* w is done with its operation, one way or another.
Releases(w) == Keeps(w) /\ Grows /\ work' = [work EXCEPT ![w] = Idle]

\* A lead that was marked stays so.
LEMMA MarksStay ==
    ASSUME Grows, NEW l \in Leads
    PROVE  (Misread(l) => Misread(l)') /\ (Doubled(l) => Doubled(l)')
BY DEF Grows, Misread, Doubled

\* A job with no operation in it is a job.
LEMMA IdleTyped ==
    Idle \in [pc : {"idle", "find", "update", "create", "read", "write"},
              lead : Leads \cup {Nobody}, op : Ops, label : Labels, item : ItemIds \cup {Nobody}]
BY DEF Idle, Ops, Labels

\* Fail releases the worker.
LEMMA FailReleases ==
    ASSUME TypeOK, NEW w \in Workers, work[w].pc # "idle", Fail(w)
    PROVE  Releases(w)
<1> DEFINE l == work[w].lead
           op == work[w].op
<1>1. l \in Leads /\ op \in Ops /\ work[w].label \in Labels BY DEF TypeOK
<1>2. work' = [work EXCEPT ![w] = Idle] BY DEF Fail
<1>3. CASE /\ outbox' = outbox \cup {[lead |-> l, op |-> op, label |-> work[w].label,
                                     retry |-> "yes"]}
           /\ UNCHANGED <<batch, trouble>>
    <2>1. [lead |-> l, op |-> op, label |-> work[w].label, retry |-> "yes"] \in Row
        BY <1>1 DEF Row
    <2> QED BY <1>2, <1>3, <2>1 DEF Releases, Keeps, Grows, TypeOK
<1>4. CASE /\ batch' = [batch EXCEPT ![w] = {}]
           /\ trouble' = [m \in Leads |-> IF Busy(w, m) THEN trouble[m] \cup {"dropped"}
                                                        ELSE trouble[m]]
           /\ UNCHANGED <<outbox, older>>
    <2>1. Keeps(w) BY <1>4 DEF Keeps, TypeOK
    <2>2. Grows BY <1>4 DEF Grows, TypeOK, Troubles
    <2> QED BY <1>2, <2>1, <2>2 DEF Releases
<1>5. CASE /\ trouble' = [trouble EXCEPT ![l] = @ \cup {"dropped"}]
           /\ UNCHANGED <<outbox, older, batch>>
    <2>1. Grows BY <1>1, <1>5 DEF Grows, TypeOK, Troubles
    <2> QED BY <1>2, <1>5, <2>1 DEF Releases, Keeps, TypeOK
<1> QED BY <1>3, <1>4, <1>5 DEF Fail

\* So does Finish.
LEMMA FinishReleases ==
    ASSUME TypeOK, NEW w \in Workers, Finish(w), UNCHANGED trouble
    PROVE  Releases(w)
BY DEF TypeOK, Finish, Releases, Keeps, Grows

\* A step of w that leaves the board alone keeps the invariant if what w goes
\* on to do is right.
LEMMA WorkerStep ==
    ASSUME IInv, NEW w \in Workers, UNCHANGED board, Keeps(w), Grows,
           NEW job, work' = [work EXCEPT ![w] = job],
           job \in [pc : {"idle", "find", "update", "create", "read", "write"},
                    lead : Leads \cup {Nobody}, op : Ops, label : Labels,
                    item : ItemIds \cup {Nobody}],
           job.pc # "idle" => job.lead \in Leads /\ Busy(w, job.lead),
           job.pc \in {"update", "read", "write"} =>
                job.item \in ItemIds /\ board[job.item].lead = job.lead,
           job.pc = "create" =>
                Doubled(job.lead)' \/ (ItemsOf(job.lead) = {} /\ ~ AnotherCreates(w, job.lead)),
           job.pc = "write" => Advances(board[job.item].stage, job.label) \/ Misread(job.lead)'
    PROVE  IInv'
<1>1. /\ \A v \in Workers \ {w} : work'[v] = work[v]
      /\ work'[w] = job
    BY DEF IInv, TypeOK
<1>2. TypeOK'
    BY <1>1 DEF IInv, TypeOK, Keeps, Grows
<1>3. \A v \in Workers, l \in Leads : Busy(v, l)' => Busy(v, l)
    BY <1>1 DEF Busy, Keeps
<1>4. Overlaps' BY <1>3 DEF IInv, Overlaps, Grows
<1>5. \A v \in Workers \ {w} : work[v].pc # "idle" /\ ~ Misread(work[v].lead)'
            => ~ Misread(work[v].lead)
    BY MarksStay DEF IInv, TypeOK
<1>6. \A l : ItemsOf(l)' = ItemsOf(l) BY DEF ItemsOf
<1>7. Creates'
    <2> SUFFICES ASSUME NEW v \in Workers, work'[v].pc = "create", ~ Doubled(work[v].lead)'
                 PROVE  ItemsOf(work[v].lead)' = {} /\ ~ AnotherCreates(v, work[v].lead)'
        BY DEF Creates
    <2>1. CASE v = w
        <3>1. ItemsOf(job.lead) = {} /\ ~ AnotherCreates(w, job.lead) BY <1>1, <2>1 DEF Doubled
        <3> QED BY <1>1, <1>6, <2>1, <3>1 DEF AnotherCreates
    <2>2. CASE v # w
        <3>1. work[v].lead \in Leads /\ work[v].pc = "create"
            BY <1>1, <2>2 DEF IInv, TypeOK
        <3>2. ItemsOf(work[v].lead) = {} /\ ~ AnotherCreates(v, work[v].lead)
            BY <1>1, <2>2, <3>1, MarksStay DEF IInv, Creates, Doubled
        <3>3. ~ (job.pc = "create" /\ job.lead = work[v].lead)
            <4>1. SUFFICES ASSUME job.pc = "create", job.lead = work[v].lead PROVE FALSE
                OBVIOUS
            <4>2. AnotherCreates(w, job.lead) BY <2>2, <3>1, <4>1 DEF AnotherCreates
            <4> QED BY <1>1, <2>2, <3>1, <4>1, <4>2 DEF Doubled
        <3> QED BY <1>1, <1>6, <2>2, <3>2, <3>3 DEF AnotherCreates
    <2> QED BY <2>1, <2>2
<1>8. Changes'
    <2> SUFFICES ASSUME NEW v \in Workers, (work[v].pc)' = "write", ~ Misread(work[v].lead)'
                 PROVE  Advances(board[work[v].item].stage, work[v].label)'
        BY DEF Changes
    <2>1. CASE v = w BY <1>1, <2>1 DEF Misread, Advances
    <2>2. CASE v # w BY <1>1, <1>5, <2>2 DEF IInv, Changes, Misread, Advances
    <2> QED BY <2>1, <2>2
<1>9. OneItemPerLead'
    <2>1. \A l \in Leads : Doubled(l) => Doubled(l)' BY MarksStay
    <2> QED BY <2>1 DEF IInv, OneItemPerLead, TypeOK, Doubled
<1> QED BY <1>2, <1>4, <1>7, <1>8, <1>9 DEF IInv

\* Releasing a worker keeps the invariant.
LEMMA ReleaseStep ==
    ASSUME IInv, NEW w \in Workers, UNCHANGED board, Releases(w)
    PROVE  IInv'
BY IdleTyped, WorkerStep DEF Releases, Idle

\* A worker at an item of its lead writes it; every other worker that relies
\* on the item or on its absence is one that overlaps.
LEMMA WrittenStep ==
    ASSUME IInv, NEW w \in Workers, work[w].pc \in {"update", "write"},
           board' = Written(w), Releases(w)
    PROVE  IInv'
<1>0. PICK l \in Leads : l = work[w].lead BY DEF IInv, TypeOK
<1>1. /\ l = work[w].lead /\ work[w].item \in ItemIds /\ work[w].label \in Labels
      /\ board[work[w].item].lead = l
    BY <1>0 DEF IInv, TypeOK
<1>2. board' \in [ItemIds -> [lead : Leads \cup {Nobody}, stage : Labels]]
      /\ \A i \in ItemIds : /\ board'[i].lead = board[i].lead
                            /\ i # work[w].item => board'[i] = board[i]
    BY <1>1 DEF IInv, TypeOK, Written
<1>3. work'[w] = Idle /\ \A v \in Workers \ {w} : work'[v] = work[v]
    BY DEF IInv, TypeOK, Releases
<1>4. TypeOK'
    <2>1. work' \in [Workers -> [pc : {"idle", "find", "update", "create", "read", "write"},
                                lead : Leads \cup {Nobody}, op : Ops, label : Labels,
                                item : ItemIds \cup {Nobody}]]
        BY IdleTyped DEF IInv, TypeOK, Releases
    <2>2. \A v \in Workers : /\ work'[v].pc # "idle" => work'[v].lead \in Leads
                             /\ work'[v].pc \in {"update", "read", "write"} =>
                                   work'[v].item \in ItemIds
                                   /\ board'[work'[v].item].lead = work'[v].lead
        BY <1>2, <1>3 DEF IInv, TypeOK, Idle
    <2> QED BY <1>2, <2>1, <2>2 DEF IInv, TypeOK, Releases, Keeps, Grows
<1>5. \A v \in Workers, m \in Leads : Busy(v, m)' => Busy(v, m)
    BY <1>3 DEF Busy, Releases, Keeps, Idle
<1>6. Overlaps' BY <1>5 DEF IInv, Overlaps, Grows, Releases
<1>7. \A v \in Workers \ {w} : work[v].pc # "idle" /\ ~ Misread(work[v].lead)'
            => ~ Misread(work[v].lead) /\ work[v].lead # l
    <2> SUFFICES ASSUME NEW v \in Workers \ {w}, work[v].pc # "idle",
                        ~ Misread(work[v].lead)'
                 PROVE  ~ Misread(work[v].lead) /\ work[v].lead # l
        OBVIOUS
    <2>1. work[v].lead \in Leads BY DEF IInv, TypeOK
    <2>2. ~ Misread(work[v].lead) BY <2>1, MarksStay DEF Releases
    <2>3. Busy(v, work[v].lead) /\ Busy(w, l) BY <1>1 DEF Busy
    <2> QED BY <1>1, <2>1, <2>2, <2>3 DEF IInv, Overlaps, Misread
<1>8. \A m : ItemsOf(m)' = ItemsOf(m) BY <1>2 DEF ItemsOf
<1>9. Creates'
    <2> SUFFICES ASSUME NEW v \in Workers, work'[v].pc = "create", ~ Doubled(work[v].lead)'
                 PROVE  ItemsOf(work[v].lead)' = {} /\ ~ AnotherCreates(v, work[v].lead)'
        BY DEF Creates
    <2>1. v # w /\ work'[v] = work[v] BY <1>3 DEF Idle
    <2>2. ~ Doubled(work[v].lead) BY <2>1, MarksStay DEF IInv, TypeOK, Doubled, Releases
    <2>3. ItemsOf(work[v].lead) = {} /\ ~ AnotherCreates(v, work[v].lead)
        BY <2>1, <2>2 DEF IInv, Creates
    <2> QED BY <1>3, <1>8, <2>1, <2>3 DEF AnotherCreates, Idle
<1>10. Changes'
    <2> SUFFICES ASSUME NEW v \in Workers, (work[v].pc)' = "write", ~ Misread(work[v].lead)'
                 PROVE  Advances(board[work[v].item].stage, work[v].label)'
        BY DEF Changes
    <2>1. v # w /\ work'[v] = work[v] BY <1>3 DEF Idle
    <2>2. ~ Misread(work[v].lead) /\ work[v].lead # l BY <1>7, <2>1 DEF Misread
    <2>3. work[v].item \in ItemIds /\ work[v].item # work[w].item
        BY <1>1, <2>1, <2>2 DEF IInv, TypeOK
    <2> QED BY <1>2, <2>1, <2>2, <2>3 DEF IInv, Changes, Advances
<1>11. OneItemPerLead'
    <2>1. \A m \in Leads : Doubled(m) => Doubled(m)' BY MarksStay DEF Releases
    <2> QED BY <1>2, <2>1 DEF IInv, OneItemPerLead, TypeOK, Doubled
<1> QED BY <1>4, <1>6, <1>9, <1>10, <1>11 DEF IInv

\* A worker whose lookup found nothing adds the item of its lead.
LEMMA AddedStep ==
    ASSUME IInv, NEW w \in Workers, work[w].pc = "create",
           NEW i \in ItemsOf(Nobody), board' = Added(w, i), Releases(w)
    PROVE  IInv'
<1>0. PICK l \in Leads : l = work[w].lead BY DEF IInv, TypeOK
<1>1. l = work[w].lead /\ work[w].label \in Labels /\ i \in ItemIds /\ board[i].lead = Nobody
    BY <1>0 DEF IInv, TypeOK, ItemsOf
<1>2. board' \in [ItemIds -> [lead : Leads \cup {Nobody}, stage : Labels]]
      /\ board'[i].lead = l
      /\ \A j \in ItemIds \ {i} : board'[j] = board[j]
    BY <1>1 DEF IInv, TypeOK, Added
<1>3. work'[w] = Idle /\ \A v \in Workers \ {w} : work'[v] = work[v]
    BY DEF IInv, TypeOK, Releases
<1>4. TypeOK'
    <2>1. work' \in [Workers -> [pc : {"idle", "find", "update", "create", "read", "write"},
                                lead : Leads \cup {Nobody}, op : Ops, label : Labels,
                                item : ItemIds \cup {Nobody}]]
        BY IdleTyped DEF IInv, TypeOK, Releases
    <2>2. \A v \in Workers : /\ work'[v].pc # "idle" => work'[v].lead \in Leads
                             /\ work'[v].pc \in {"update", "read", "write"} =>
                                   work'[v].item \in ItemIds
                                   /\ board'[work'[v].item].lead = work'[v].lead
        <3> SUFFICES ASSUME NEW v \in Workers \ {w}, work[v].pc # "idle"
                     PROVE  /\ work[v].lead \in Leads
                            /\ work[v].pc \in {"update", "read", "write"} =>
                                  work[v].item \in ItemIds
                                  /\ board'[work[v].item].lead = work[v].lead
            BY <1>3 DEF Idle
        <3>1. work[v].lead \in Leads /\ work[v].lead # Nobody
            BY BoardConstants DEF IInv, TypeOK
        <3>2. CASE work[v].pc \in {"update", "read", "write"}
            <4>1. work[v].item \in ItemIds /\ board[work[v].item].lead = work[v].lead
                BY <3>2 DEF IInv, TypeOK
            <4>2. work[v].item # i BY <1>1, <3>1, <4>1
            <4> QED BY <1>2, <3>1, <4>1, <4>2
        <3> QED BY <3>1, <3>2
    <2> QED BY <1>2, <2>1, <2>2 DEF IInv, TypeOK, Releases, Keeps, Grows
<1>5. \A v \in Workers, m \in Leads : Busy(v, m)' => Busy(v, m)
    BY <1>3 DEF Busy, Releases, Keeps, Idle
<1>6. Overlaps' BY <1>5 DEF IInv, Overlaps, Grows, Releases
<1>7. \A v \in Workers \ {w} : work[v].pc # "idle" /\ ~ Misread(work[v].lead)'
            => ~ Misread(work[v].lead) /\ work[v].lead # l /\ work[v].lead \in Leads
    <2> SUFFICES ASSUME NEW v \in Workers \ {w}, work[v].pc # "idle",
                        ~ Misread(work[v].lead)'
                 PROVE  ~ Misread(work[v].lead) /\ work[v].lead # l /\ work[v].lead \in Leads
        OBVIOUS
    <2>1. work[v].lead \in Leads BY DEF IInv, TypeOK
    <2>2. ~ Misread(work[v].lead) BY <2>1, MarksStay DEF Releases
    <2>3. Busy(v, work[v].lead) /\ Busy(w, l) BY <1>1 DEF Busy
    <2> QED BY <1>1, <2>1, <2>2, <2>3 DEF IInv, Overlaps, Misread
<1>8. \A m : m # l => ItemsOf(m)' \subseteq ItemsOf(m) BY <1>2 DEF ItemsOf
<1>9. Creates'
    <2> SUFFICES ASSUME NEW v \in Workers, work'[v].pc = "create", ~ Doubled(work[v].lead)'
                 PROVE  ItemsOf(work[v].lead)' = {} /\ ~ AnotherCreates(v, work[v].lead)'
        BY DEF Creates
    <2>1. v # w /\ work'[v] = work[v] BY <1>3 DEF Idle
    <2>2. ~ Doubled(work[v].lead) BY <2>1, MarksStay DEF IInv, TypeOK, Doubled, Releases
    <2>3. ItemsOf(work[v].lead) = {} /\ ~ AnotherCreates(v, work[v].lead)
        BY <2>1, <2>2 DEF IInv, Creates
    <2>4. work[v].lead # l BY <1>1, <2>1, <2>3 DEF AnotherCreates
    <2>5. ItemsOf(work[v].lead)' = {j \in ItemIds : board'[j].lead = work[v].lead}
        BY <2>1 DEF ItemsOf
    <2>6. ItemsOf(work[v].lead)' = {} BY <1>2, <2>3, <2>4, <2>5 DEF ItemsOf
    <2>7. ~ AnotherCreates(v, work[v].lead)' BY <1>3, <2>1, <2>3 DEF AnotherCreates, Idle
    <2> QED BY <2>6, <2>7
<1>10. Changes'
    <2> SUFFICES ASSUME NEW v \in Workers, (work[v].pc)' = "write", ~ Misread(work[v].lead)'
                 PROVE  Advances(board[work[v].item].stage, work[v].label)'
        BY DEF Changes
    <2>1. v # w /\ work'[v] = work[v] BY <1>3 DEF Idle
    <2>2. ~ Misread(work[v].lead) /\ work[v].lead \in Leads BY <1>7, <2>1 DEF Misread
    <2>3. work[v].item \in ItemIds /\ work[v].item # i
        <3>1. work[v].item \in ItemIds /\ board[work[v].item].lead = work[v].lead
            BY <2>1 DEF IInv, TypeOK
        <3> QED BY <1>1, <2>2, <3>1, BoardConstants
    <2>4. Advances(board[work[v].item].stage, work[v].label)
        BY <2>1, <2>2 DEF IInv, Changes
    <2>5. board'[work[v].item] = board[work[v].item] BY <1>2, <2>3
    <2> QED BY <2>1, <2>4, <2>5 DEF Advances
<1>11. OneItemPerLead'
    <2>1. \A m \in Leads : Doubled(m) => Doubled(m)' BY MarksStay DEF Releases
    <2>2. Doubled(l)' \/ \A j \in ItemIds : board[j].lead # l
        BY <1>1, <2>1 DEF IInv, Creates, ItemsOf
    <2>3. \A j, k \in ItemIds \ {i} : board[j].lead = board[k].lead /\ board[j].lead # Nobody
            => j = k \/ Doubled(board[j].lead)
        BY DEF IInv, OneItemPerLead
    <2>4. \A j \in ItemIds : board[j].lead # Nobody => board[j].lead \in Leads
        BY DEF IInv, TypeOK
    <2> SUFFICES ASSUME NEW j \in ItemIds, NEW k \in ItemIds, j # k,
                        board'[j].lead = board'[k].lead, board'[j].lead # Nobody
                 PROVE  (Doubled(board[j].lead))'
        BY DEF OneItemPerLead
    <2>5. CASE j = i \/ k = i BY <1>2, <2>2, <2>5 DEF Doubled
    <2>6. CASE j # i /\ k # i BY <1>2, <2>1, <2>3, <2>4, <2>6 DEF Doubled
    <2> QED BY <2>5, <2>6
<1> QED BY <1>4, <1>6, <1>9, <1>10, <1>11 DEF IInv

\* enqueue_operation puts a row into the outbox.
LEMMA EnqueueTyped ==
    ASSUME TypeOK, NEW l \in Leads, NEW op \in Ops, NEW label \in Labels, Enqueue(l, op, label)
    PROVE  outbox' \subseteq Row
<1>1. [lead |-> l, op |-> op, label |-> label, retry |-> "no"] \in Row BY DEF Row
<1> QED BY <1>1 DEF Enqueue, TypeOK

\* A state of the FSM has a label.
LEMMA LabelTyped == ASSUME NEW s PROVE StageLabel(s) \in Labels
BY DEF StageLabel, Labels

\* What the conversation does only reaches the outbox.
LEMMA ConversationStep ==
    ASSUME IInv, NEW l \in Leads, Conversation(l)
    PROVE  IInv'
<1>1. outbox' \subseteq Row /\ UNCHANGED <<batch, work, board, trouble>>
    <2>1. CASE HandleMessage(l)
        BY <2>1, EnqueueTyped, LabelTyped DEF HandleMessage, IInv, Ops
    <2>2. ASSUME NEW event, NEW guards, Transition(l, event, guards)
          PROVE  outbox' \subseteq Row /\ UNCHANGED <<batch, work, board, trouble>>
        <3> DEFINE label == StageLabel(ProcessEvent(session[l], event, guards).target)
        <3>1. UNCHANGED outbox \/ Enqueue(l, "change_stage", label)
            BY <2>2 DEF Transition
        <3>2. label \in Labels BY LabelTyped
        <3>3. UNCHANGED <<batch, work, board, trouble>> BY <2>2 DEF Transition
        <3> HIDE DEF label
        <3>4. CASE UNCHANGED outbox BY <3>3, <3>4 DEF IInv, TypeOK
        <3>5. CASE Enqueue(l, "change_stage", label)
            BY <3>2, <3>3, <3>5, EnqueueTyped DEF IInv, Ops
        <3> QED BY <3>1, <3>4, <3>5
    <2>3. CASE NoTransition(l) BY <2>3 DEF NoTransition, IInv, TypeOK
    <2>4. ASSUME NEW state, Control(l, state)
          PROVE  outbox' \subseteq Row /\ UNCHANGED <<batch, work, board, trouble>>
        BY <2>4 DEF Control, IInv, TypeOK
    <2> QED BY <2>1, <2>2, <2>3, <2>4 DEF Conversation
<1>2. TypeOK' BY <1>1 DEF IInv, TypeOK
<1> QED BY <1>1, <1>2 DEF IInv, Overlaps, Creates, Changes, OneItemPerLead, Busy, Misread, Doubled,
                         ItemsOf, AnotherCreates, Advances

\* Two workers that come to share a lead are marked when the second claims.
LEMMA ClaimStep ==
    ASSUME IInv, NEW w \in Workers, Claim(w)
    PROVE  IInv'
<1>1. PICK due \in SUBSET outbox :
        /\ outbox' = outbox \ due
        /\ batch' = [batch EXCEPT ![w] =
                {[lead |-> r.lead, op |-> r.op, label |-> r.label,
                  turn |-> IF older[r.lead] = r.op THEN 1 ELSE 2] : r \in due}]
        /\ trouble' = [l \in Leads |->
                IF (\E r \in due : r.lead = l) /\ (\E v \in Workers \ {w} : Busy(v, l))
                THEN trouble[l] \cup {"overlap"} ELSE trouble[l]]
    BY DEF Claim
<1>2. UNCHANGED <<work, board>> /\ work[w].pc = "idle" /\ batch[w] = {} BY DEF Claim
<1>3. Grows BY <1>1 DEF Grows, IInv, TypeOK, Troubles
<1>4. TypeOK'
    <2>1. \A r \in due : [lead |-> r.lead, op |-> r.op, label |-> r.label,
                          turn |-> IF older[r.lead] = r.op THEN 1 ELSE 2] \in Claimed
        BY DEF IInv, TypeOK, Row, Claimed
    <2>2. batch' \in [Workers -> SUBSET Claimed] BY <1>1, <2>1 DEF IInv, TypeOK
    <2> QED BY <1>1, <1>2, <1>3, <2>2 DEF IInv, TypeOK, Grows
<1>5. Overlaps'
    <2>1. \A l \in Leads : Busy(w, l)' => \E r \in due : r.lead = l
        BY <1>1, <1>2 DEF Busy, IInv, TypeOK
    <2>2. \A v \in Workers \ {w}, l \in Leads : Busy(v, l)' <=> Busy(v, l)
        BY <1>1, <1>2 DEF Busy, IInv, TypeOK
    <2>3. \A v \in Workers \ {w}, l \in Leads : Busy(w, l)' /\ Busy(v, l)'
            => "overlap" \in trouble'[l]
        BY <1>1, <2>1, <2>2
    <2>4. \A v, u \in Workers \ {w}, l \in Leads : v # u /\ Busy(v, l)' /\ Busy(u, l)'
            => "overlap" \in trouble'[l]
        BY <1>3, <2>2 DEF IInv, Overlaps, Grows
    <2> QED BY <2>3, <2>4 DEF Overlaps
<1>6. \A l \in Leads : (Misread(l) => Misread(l)') /\ (Doubled(l) => Doubled(l)')
    BY <1>3, MarksStay
<1>7. \A v \in Workers : work[v].pc # "idle" => work[v].lead \in Leads
    BY DEF IInv, TypeOK
<1>8. Creates' BY <1>2, <1>6, <1>7 DEF IInv, Creates, Doubled, ItemsOf, AnotherCreates
<1>9. Changes' BY <1>2, <1>6, <1>7 DEF IInv, Changes, Misread, Advances
<1>10. OneItemPerLead' BY <1>2, <1>6 DEF IInv, TypeOK, OneItemPerLead, Doubled
<1> QED BY <1>4, <1>5, <1>8, <1>9, <1>10 DEF IInv

\* A seller at an item a worker has read leaves the same mark.
LEMMA SellerStep ==
    ASSUME IInv, NEW i \in ItemIds, SellerCloses(i)
    PROVE  IInv'
<1>0. PICK l \in Leads : l = board[i].lead BY DEF SellerCloses, IInv, TypeOK
<1>1. /\ board' \in [ItemIds -> [lead : Leads \cup {Nobody}, stage : Labels]]
      /\ \A j \in ItemIds : board'[j].lead = board[j].lead /\ (j # i => board'[j] = board[j])
    BY DEF SellerCloses, IInv, TypeOK, Labels
<1>2. trouble' = [trouble EXCEPT ![l] =
            @ \cup IF \E w \in Workers : Busy(w, l) THEN {"closed", "overlap"} ELSE {"closed"}]
    BY <1>0 DEF SellerCloses
<1>3. UNCHANGED <<outbox, batch, work>> BY DEF SellerCloses
<1>4. Grows BY <1>2 DEF Grows, IInv, TypeOK, Troubles
<1>5. TypeOK' BY <1>1, <1>3, <1>4 DEF IInv, TypeOK, Grows
<1>6. Overlaps' BY <1>3, <1>4 DEF IInv, Overlaps, Busy, Grows
<1>7. \A m \in Leads : (Misread(m) => Misread(m)') /\ (Doubled(m) => Doubled(m)')
    BY <1>4, MarksStay
<1>8. \A m : ItemsOf(m)' = ItemsOf(m) BY <1>1 DEF ItemsOf
<1>9. Creates' BY <1>3, <1>7, <1>8 DEF IInv, TypeOK, Creates, Doubled, AnotherCreates
<1>10. Changes'
    <2> SUFFICES ASSUME NEW w \in Workers, (work[w].pc)' = "write", ~ Misread(work[w].lead)'
                 PROVE  Advances(board[work[w].item].stage, work[w].label)'
        BY DEF Changes
    <2>1. work'[w] = work[w] BY <1>3
    <2>2. work[w].lead \in Leads /\ work[w].item \in ItemIds
          /\ board[work[w].item].lead = work[w].lead
        BY <2>1 DEF IInv, TypeOK
    <2>3. ~ Misread(work[w].lead) BY <1>7, <2>1, <2>2 DEF Misread
    <2>4. work[w].lead # l
        <3>1. Busy(w, work[w].lead) BY <2>1 DEF Busy
        <3>2. SUFFICES ASSUME work[w].lead = l PROVE FALSE OBVIOUS
        <3>3. "overlap" \in trouble'[l] BY <1>2, <3>1, <3>2 DEF IInv, TypeOK
        <3> QED BY <2>1, <3>2, <3>3 DEF Misread
    <2>5. board'[work[w].item] = board[work[w].item] BY <1>0, <1>1, <2>2, <2>4
    <2>6. Advances(board[work[w].item].stage, work[w].label)
        BY <2>1, <2>3 DEF IInv, Changes
    <2> QED BY <2>1, <2>5, <2>6 DEF Advances
<1>11. OneItemPerLead' BY <1>1, <1>7 DEF IInv, TypeOK, OneItemPerLead, Doubled
<1> QED BY <1>5, <1>6, <1>9, <1>10, <1>11 DEF IInv

\* The next row of the batch becomes the operation of the worker.
LEMMA DispatchStep ==
    ASSUME IInv, NEW w \in Workers, NEW r \in batch[w], Dispatch(w, r)
    PROVE  IInv'
<1> DEFINE job == [pc |-> "find", lead |-> r.lead, op |-> r.op, label |-> r.label,
                   item |-> Nobody]
<1>1. r \in Claimed BY DEF IInv, TypeOK
<1>2. UNCHANGED board /\ Keeps(w) /\ Grows
    BY DEF Dispatch, Keeps, Grows, IInv, TypeOK
<1>3. work' = [work EXCEPT ![w] = job] BY DEF Dispatch
<1>4. job \in [pc : {"idle", "find", "update", "create", "read", "write"},
               lead : Leads \cup {Nobody}, op : Ops, label : Labels,
               item : ItemIds \cup {Nobody}]
    BY <1>1 DEF Claimed
<1>5. job.pc = "find" /\ job.lead \in Leads /\ Busy(w, job.lead) BY <1>1 DEF Claimed, Busy
<1> HIDE DEF job
<1> QED BY <1>2, <1>3, <1>4, <1>5, WorkerStep

\* What a worker is at is a job.
LEMMA JobTyped ==
    ASSUME TypeOK, NEW w \in Workers
    PROVE  work[w] \in [pc : {"idle", "find", "update", "create", "read", "write"},
                        lead : Leads \cup {Nobody}, op : Ops, label : Labels,
                        item : ItemIds \cup {Nobody}]
BY DEF TypeOK

\* A job that goes on is a job of the same row.
LEMMA GoesOn ==
    ASSUME NEW j \in [pc : {"idle", "find", "update", "create", "read", "write"},
                      lead : Leads \cup {Nobody}, op : Ops, label : Labels,
                      item : ItemIds \cup {Nobody}],
           NEW pc \in {"find", "update", "create", "read", "write"},
           NEW item \in ItemIds \cup {Nobody},
           NEW job, job = [j EXCEPT !.pc = pc, !.item = item]
    PROVE  /\ job \in [pc : {"idle", "find", "update", "create", "read", "write"},
                       lead : Leads \cup {Nobody}, op : Ops, label : Labels,
                       item : ItemIds \cup {Nobody}]
           /\ job.pc = pc /\ job.item = item /\ job.lead = j.lead /\ job.label = j.label
OBVIOUS

\* A worker that goes on with its operation, without writing the board.
LEMMA ContinueStep ==
    ASSUME IInv, NEW w \in Workers, work[w].pc # "idle",
           NEW pc \in {"find", "update", "create", "read", "write"},
           NEW item \in ItemIds \cup {Nobody}, Continue(w, pc, item),
           UNCHANGED <<outbox, batch, board>>, Grows,
           pc \in {"update", "read", "write"} =>
                item \in ItemIds /\ board[item].lead = work[w].lead,
           NEW l \in Leads, l = work[w].lead,
           pc = "create" => Doubled(l)' \/ (ItemsOf(l) = {} /\ ~ AnotherCreates(w, l)),
           pc = "write" => Advances(board[item].stage, work[w].label) \/ Misread(l)'
    PROVE  IInv'
<1>1. PICK job : job = [work[w] EXCEPT !.pc = pc, !.item = item] OBVIOUS
<1>2. work[w] \in [pc : {"idle", "find", "update", "create", "read", "write"},
                   lead : Leads \cup {Nobody}, op : Ops, label : Labels,
                   item : ItemIds \cup {Nobody}]
    BY JobTyped DEF IInv
<1>3. job \in [pc : {"idle", "find", "update", "create", "read", "write"},
               lead : Leads \cup {Nobody}, op : Ops, label : Labels,
               item : ItemIds \cup {Nobody}]
      /\ job.pc = pc /\ job.item = item /\ job.lead = l /\ job.label = work[w].label
    BY <1>1, <1>2, GoesOn
<1>4. work' = [work EXCEPT ![w] = job] BY <1>1 DEF Continue
<1>5. Keeps(w) BY DEF Keeps, IInv, TypeOK
<1>6. Busy(w, l) BY DEF Busy
<1> QED BY <1>3, <1>4, <1>5, <1>6, WorkerStep

LEMMA AdapterStep ==
    ASSUME IInv, NEW w \in Workers, Adapter(w)
    PROVE  IInv'
<1>0. TypeOK BY DEF IInv
<1> SUFFICES ASSUME work[w].pc # "idle" PROVE IInv'
    BY DEF Adapter, FindItem, FindNoItem, FindFails, UpdateItem, CreateItem, ReadStage,
           ReadStageFails, WriteStage, MutationRaises
<1>1. PICK l \in Leads : l = work[w].lead BY DEF IInv, TypeOK
<1>2. UNCHANGED trouble => Grows BY DEF Grows, IInv, TypeOK
<1>3. ASSUME NEW marks \in SUBSET {"unread", "double"}, Remember(l, marks)
      PROVE  Grows /\ trouble'[l] = trouble[l] \cup marks
    <2>1. trouble' = [trouble EXCEPT ![l] = @ \cup marks] BY <1>3 DEF Remember
    <2>2. Grows BY <2>1 DEF Grows, Troubles, IInv, TypeOK
    <2> QED BY <2>1, <2>2 DEF IInv, TypeOK
<1>4. CASE FindItem(w)
    <2>1. PICK i \in ItemsOf(l) :
            Continue(w, IF work[w].op = "upsert_lead" THEN "update" ELSE "read", i)
        BY <1>1, <1>4 DEF FindItem, Found
    <2>2. i \in ItemIds /\ board[i].lead = l BY <2>1 DEF ItemsOf
    <2>3. UNCHANGED <<outbox, batch, board>> /\ Grows BY <1>2, <1>4 DEF FindItem
    <2>4. CASE work[w].op = "upsert_lead"
        <3>1. Continue(w, "update", i) BY <2>1, <2>4
        <3> QED BY <1>1, <2>2, <2>3, <3>1, ContinueStep
    <2>5. CASE work[w].op # "upsert_lead"
        <3>1. Continue(w, "read", i) BY <2>1, <2>5
        <3> QED BY <1>1, <2>2, <2>3, <3>1, ContinueStep
    <2> QED BY <2>4, <2>5
<1>5. CASE FindNoItem(w)
    <2>1. CASE GoesToCreate(w, {})
        <3>1. ItemsOf(l) = {} /\ UNCHANGED board BY <1>1, <1>5 DEF FindNoItem, Found
        <3>2. Continue(w, "create", Nobody) /\ UNCHANGED <<outbox, batch>>
              /\ Remember(l, IF AnotherCreates(w, l) THEN {"double"} ELSE {})
            BY <1>1, <2>1 DEF GoesToCreate
        <3>3. Grows /\ (~ AnotherCreates(w, l) \/ Doubled(l)') BY <1>3, <3>2 DEF Doubled
        <3> QED BY <1>1, <3>1, <3>2, <3>3, ContinueStep
    <2>2. CASE Fail(w)
        <3>1. Releases(w) BY <1>0, <2>2, FailReleases
        <3> QED BY <1>5, <3>1, ReleaseStep DEF FindNoItem
    <2> QED BY <1>5, <2>1, <2>2 DEF FindNoItem
<1>6. CASE FindFails(w)
    <2>1. CASE GoesToCreate(w, {"double"})
        <3>1. UNCHANGED board BY <1>6 DEF FindFails
        <3>2. Continue(w, "create", Nobody) /\ UNCHANGED <<outbox, batch>>
              /\ Remember(l, {"double"})
            BY <1>1, <2>1 DEF GoesToCreate
        <3>3. Grows /\ Doubled(l)' BY <1>3, <3>2 DEF Doubled
        <3> QED BY <1>1, <3>1, <3>2, <3>3, ContinueStep
    <2>2. CASE Fail(w)
        <3>1. Releases(w) BY <1>0, <2>2, FailReleases
        <3> QED BY <1>6, <3>1, ReleaseStep DEF FindFails
    <2> QED BY <1>6, <2>1, <2>2 DEF FindFails
<1>7. CASE UpdateItem(w)
    <2>1. Releases(w) BY <1>0, <1>7, FinishReleases DEF UpdateItem
    <2> QED BY <1>7, <2>1, WrittenStep DEF UpdateItem
<1>8. CASE CreateItem(w)
    <2>1. Releases(w) BY <1>0, <1>8, FinishReleases DEF CreateItem
    <2> QED BY <1>8, <2>1, AddedStep DEF CreateItem
<1>9. CASE ReadStage(w)
    <2>0. work[w].item \in ItemIds /\ board[work[w].item].lead = work[w].lead
        BY <1>9 DEF ReadStage, IInv, TypeOK
    <2>1. CASE CanAdvance(board[work[w].item].stage, work[w].label)
        <3>1. Continue(w, "write", work[w].item) /\ UNCHANGED <<outbox, batch, board>> /\ Grows
            BY <1>2, <1>9, <2>1 DEF ReadStage
        <3>2. Advances(board[work[w].item].stage, work[w].label)
            BY <2>1 DEF CanAdvance, Advances
        <3> QED BY <1>1, <2>0, <3>1, <3>2, ContinueStep
    <2>2. CASE ~ CanAdvance(board[work[w].item].stage, work[w].label)
        <3>1. Finish(w) /\ UNCHANGED <<board, trouble>> BY <1>9, <2>2 DEF ReadStage
        <3> QED BY <1>0, <3>1, FinishReleases, ReleaseStep
    <2> QED BY <2>1, <2>2
<1>10. CASE ReadStageFails(w)
    <2>1. work[w].item \in ItemIds /\ board[work[w].item].lead = work[w].lead
        BY <1>10 DEF ReadStageFails, IInv, TypeOK
    <2>2. Continue(w, "write", work[w].item) /\ UNCHANGED <<outbox, batch, board>>
          /\ Remember(l, {"unread"})
        BY <1>1, <1>10 DEF ReadStageFails
    <2>3. Grows /\ Misread(l)' BY <1>3, <2>2 DEF Misread
    <2> QED BY <1>1, <2>1, <2>2, <2>3, ContinueStep
<1>11. CASE WriteStage(w)
    <2>1. Releases(w) BY <1>0, <1>11, FinishReleases DEF WriteStage
    <2> QED BY <1>11, <2>1, WrittenStep DEF WriteStage
<1>12. CASE MutationRaises(w)
    <2>1. Releases(w) BY <1>0, <1>12, FailReleases DEF MutationRaises
    <2>2. CASE UNCHANGED board BY <2>1, <2>2, ReleaseStep
    <2>3. CASE work[w].pc \in {"update", "write"} /\ board' = Written(w)
        BY <2>1, <2>3, WrittenStep
    <2>4. CASE work[w].pc = "create" /\ \E i \in ItemsOf(Nobody) : board' = Added(w, i)
        BY <2>1, <2>4, AddedStep
    <2> QED BY <1>12, <2>2, <2>3, <2>4 DEF MutationRaises
<1> QED BY <1>4, <1>5, <1>6, <1>7, <1>8, <1>9, <1>10, <1>11, <1>12 DEF Adapter

LEMMA CrashStep ==
    ASSUME IInv, NEW w \in Workers, Crash(w)
    PROVE  IInv'
<1>1. Grows BY DEF Crash, Grows, IInv, TypeOK, Troubles
<1>2. Keeps(w) BY DEF Crash, Keeps, IInv, TypeOK
<1> QED BY <1>1, <1>2, ReleaseStep DEF Crash, Releases

\* Every step keeps the invariant.
LEMMA Inductive == IInv /\ [Next]_vars => IInv'
<1> SUFFICES ASSUME IInv, [Next]_vars PROVE IInv' OBVIOUS
<1>1. CASE \E l \in Leads : Conversation(l) BY <1>1, ConversationStep
<1>2. CASE \E i \in ItemIds : SellerCloses(i) BY <1>2, SellerStep
<1>3. CASE \E w \in Workers : Worker(w)
    BY <1>3, ClaimStep, DispatchStep, AdapterStep DEF Worker
<1>4. CASE \E w \in Workers : Crash(w) BY <1>4, CrashStep
<1>5. CASE UNCHANGED vars
    BY <1>5 DEF vars, IInv, TypeOK, Overlaps, Creates, Changes, OneItemPerLead, Busy, Misread,
                Doubled, ItemsOf, AnotherCreates, Advances
<1> QED BY <1>1, <1>2, <1>3, <1>4, <1>5 DEF Next

\* The board of a deployment that starts is right.
LEMMA Initially == Init => IInv
<1> SUFFICES ASSUME Init PROVE IInv OBVIOUS
<1>1. \A w \in Workers : work[w] = Idle /\ work[w].pc = "idle" BY DEF Init, Idle
<1>2. TypeOK BY <1>1, IdleTyped DEF Init, TypeOK
<1>3. Overlaps /\ Creates /\ Changes BY <1>1 DEF Init, Overlaps, Creates, Changes, Busy
<1>4. OneItemPerLead BY DEF Init, OneItemPerLead
<1> QED BY <1>2, <1>3, <1>4 DEF IInv

\* The board and what the workers know of it stay typed, one phone has one
\* item unless it may be doubled, and what a worker is about to create or to
\* change is still right: upsert_lead and change_stage of monday_adapter.py.
THEOREM BoardInvariant == Spec => []IInv
BY Initially, Inductive, PTL DEF Spec

\* upsert_lead does not duplicate an item, however many leads, workers, lost
\* answers and retries there are and however they overlap, unless a lookup
\* failed or two workers were about to create the item at once.
THEOREM OneItem == Spec => []OneItemPerLead
<1>1. IInv => OneItemPerLead BY DEF IInv
<1> QED BY <1>1, BoardInvariant, PTL

\* change_stage moves an item only as the hierarchy allows.
THEOREM ChangesAdvanceAlways == Spec => ChangesAdvance
<1>1. IInv => \A w \in Workers : work[w].pc = "write" /\ board' # board /\ ~ Misread(work[w].lead)
                => Advances(board[work[w].item].stage, work[w].label)
    BY DEF IInv, Changes
<1> QED BY <1>1, BoardInvariant, PTL DEF ChangesAdvance

-----------------------------------------------------------------------------
(***************************************************************************)
(* BoardKeepsUp                                                            *)
(***************************************************************************)

\* The labels the bot gives; the last one of the hierarchy is a seller's.
Given == Labels \ {"Handoff Hecho"}

\* A worker is in the half of the adapter its operation calls for.
OpsFit ==
    \A w \in Workers :
        /\ work[w].pc \in {"update", "create"} => work[w].op = "upsert_lead"
        /\ work[w].pc \in {"read", "write"} => work[w].op = "change_stage"

\* What is enqueued, claimed and written is a label the bot gives; an item is
\* finished only by a seller, who leaves a mark.
LabelsFit ==
    /\ upserted \in [Leads -> Given \cup {"none"}]
    /\ \A r \in outbox : r.label \in Given
    /\ \A w \in Workers : work[w].label \in Given /\ \A r \in batch[w] : r.label \in Given
    /\ \A i \in ItemIds : board[i].stage = "Handoff Hecho" =>
          board[i].lead \in Leads /\ "closed" \in trouble[board[i].lead]

\* Worker w has yet to write x for l.
Holds(w, l, x) ==
    \/ \E r \in batch[w] : r.lead = l /\ r.op = "upsert_lead" /\ r.label = x
    \/ work[w].pc # "idle" /\ work[w].lead = l /\ work[w].op = "upsert_lead" /\ work[w].label = x

Upserts(l) == RowsOf(l, "upsert_lead")

AsFarAs(i, label) == Rank(board[i].stage) >= Rank(label)

\* The last upsert_lead of a lead with no trouble is pending; or it has been
\* claimed, and no worker has an older one; or the board is as far.
KeepsUp(l) ==
    upserted[l] # "none" /\ trouble[l] = {} =>
        /\ \A r \in Upserts(l) : r.label = upserted[l]
        /\ Upserts(l) = {} =>
             /\ \A w \in Workers, x \in Labels : Holds(w, l, x) => x = upserted[l]
             /\ \/ \E w \in Workers : Holds(w, l, upserted[l])
                \/ \E i \in ItemsOf(l) : AsFarAs(i, upserted[l])

KInv == OpsFit /\ LabelsFit /\ \A l \in Leads : KeepsUp(l)


LEMMA LabelGiven == ASSUME NEW s PROVE StageLabel(s) \in Given
BY LabelTyped, Zenon DEF StageLabel, Given, Labels

\* Every label has its place in the hierarchy.
LEMMA RankTyped == \A label \in Labels : Rank(label) \in 1..5
<1>1. /\ Hierarchy[1] = "Nuevo" /\ Hierarchy[2] = "Conversando" /\ Hierarchy[3] = "Calificando"
      /\ Hierarchy[4] = "Listo para Handoff" /\ Hierarchy[5] = "Handoff Hecho"
    BY DEF Hierarchy
<1>2. 1 \in 1..5 /\ 2 \in 1..5 /\ 3 \in 1..5 /\ 4 \in 1..5 /\ 5 \in 1..5
    OBVIOUS
<1>3. \A label \in Labels : \E i \in 1..5 : Hierarchy[i] = label
    BY <1>1, <1>2, Zenon DEF Labels
<1> QED BY <1>3 DEF Rank

\* A step that leaves the upserts of l alone and its item no further back, or
\* leaves trouble.
Retains(l) ==
    trouble'[l] = {} =>
        /\ trouble[l] = {} /\ upserted'[l] = upserted[l]
        /\ Upserts(l)' = Upserts(l)
        /\ \A w \in Workers, x \in Labels : Holds(w, l, x)' <=> Holds(w, l, x)
        /\ \A i \in ItemsOf(l) : board'[i].lead = l /\ Rank(board'[i].stage) >= Rank(board[i].stage)

LEMMA RetainsKeepsUp ==
    ASSUME TypeOK, TypeOK', LabelsFit, NEW l \in Leads, KeepsUp(l), Retains(l)
    PROVE  KeepsUp(l)'
<1> SUFFICES ASSUME upserted'[l] # "none", trouble'[l] = {}
             PROVE  /\ \A r \in Upserts(l)' : r.label = upserted'[l]
                    /\ Upserts(l)' = {} =>
                         /\ \A w \in Workers, x \in Labels : Holds(w, l, x)' => x = upserted'[l]
                         /\ \/ \E w \in Workers : Holds(w, l, upserted[l])'
                            \/ \E i \in ItemsOf(l)' : AsFarAs(i, upserted[l])'
    BY DEF KeepsUp
<1> DEFINE u == upserted[l]
<1>1. upserted'[l] = u /\ u # "none" /\ trouble[l] = {} /\ Upserts(l)' = Upserts(l)
    BY DEF Retains
<1>2. u \in Labels BY <1>1 DEF LabelsFit, Given
<1>3. \A w \in Workers, x \in Labels : Holds(w, l, x)' <=> Holds(w, l, x) BY DEF Retains
<1>4. /\ \A r \in Upserts(l) : r.label = u
      /\ Upserts(l) = {} =>
           /\ \A w \in Workers, x \in Labels : Holds(w, l, x) => x = u
           /\ (\E w \in Workers : Holds(w, l, u)) \/ \E i \in ItemsOf(l) : AsFarAs(i, u)
    BY <1>1 DEF KeepsUp
<1>5. ASSUME NEW i \in ItemsOf(l), AsFarAs(i, u)
      PROVE  i \in ItemsOf(l)' /\ Rank(board'[i].stage) >= Rank(u)
    <2>1. i \in ItemIds /\ board'[i].lead = l /\ Rank(board'[i].stage) >= Rank(board[i].stage)
        BY DEF Retains, ItemsOf
    <2>2. Rank(board'[i].stage) \in Nat /\ Rank(board[i].stage) \in Nat /\ Rank(u) \in Nat
        BY <1>2, <2>1, RankTyped DEF TypeOK
    <2> QED BY <1>5, <2>1, <2>2 DEF AsFarAs, ItemsOf
<1>6. ASSUME NEW w \in Workers, Holds(w, l, u) PROVE Holds(w, l, upserted[l])'
    <2>1. \A v \in Workers, x \in Labels : Holds(v, l, x)' = (
              \/ \E r \in batch'[v] : r.lead = l /\ r.op = "upsert_lead" /\ r.label = x
              \/ work'[v].pc # "idle" /\ work'[v].lead = l /\ work'[v].op = "upsert_lead" /\ work'[v].label = x)
        BY DEF Holds
    <2>2. Holds(w, l, upserted[l])' = (
              \/ \E r \in batch'[w] : r.lead = l /\ r.op = "upsert_lead" /\ r.label = upserted'[l]
              \/ work'[w].pc # "idle" /\ work'[w].lead = l /\ work'[w].op = "upsert_lead"
                   /\ work'[w].label = upserted'[l])
        BY DEF Holds
    <2> QED BY <1>1, <1>2, <1>3, <1>6, <2>1, <2>2
<1>7. ASSUME NEW i \in ItemsOf(l), AsFarAs(i, u) PROVE AsFarAs(i, upserted[l])'
    BY <1>1, <1>5, <1>7 DEF AsFarAs
<1> QED BY <1>1, <1>3, <1>4, <1>5, <1>6, <1>7

\* What Enqueue leaves of the rows of each lead and operation.
LEMMA EnqueueFacts ==
    ASSUME TypeOK, NEW l \in Leads, NEW op \in Ops, NEW label, Enqueue(l, op, label)
    PROVE  \E new :
             /\ new.lead = l /\ new.op = op /\ new.label = label
             /\ outbox' = (outbox \ RowsOf(l, op)) \cup {new}
             /\ RowsOf(l, op)' = {new}
             /\ \A m \in Leads, o \in Ops : m # l \/ o # op => RowsOf(m, o)' = RowsOf(m, o)
<1> DEFINE new == [lead |-> l, op |-> op, label |-> label, retry |-> "no"]
<1>1. new.lead = l /\ new.op = op /\ new.label = label OBVIOUS
<1>2. outbox' = (outbox \ RowsOf(l, op)) \cup {new} BY DEF Enqueue
<1> HIDE DEF new
<1> QED BY <1>1, <1>2 DEF RowsOf

\* A message enqueues the label that is to be kept up with; what else the
\* conversation does leaves the upserts alone.
LEMMA ConversationKeepsUp ==
    ASSUME IInv, IInv', KInv, NEW l \in Leads, Conversation(l)
    PROVE  KInv'
<1> USE DEF Ops
<1>1. CASE HandleMessage(l)
    <2> DEFINE label == StageLabel(session[l])
    <2>1. label \in Given BY LabelGiven
    <2>2. /\ Enqueue(l, "upsert_lead", label) /\ upserted' = [upserted EXCEPT ![l] = label]
          /\ UNCHANGED <<batch, work, board, trouble>>
        BY <1>1 DEF HandleMessage
    <2> HIDE DEF label
    <2>3. PICK new :
             /\ new.lead = l /\ new.op = "upsert_lead" /\ new.label = label
             /\ outbox' = (outbox \ RowsOf(l, "upsert_lead")) \cup {new}
             /\ RowsOf(l, "upsert_lead")' = {new}
             /\ \A m \in Leads, o \in Ops : m # l \/ o # "upsert_lead" => RowsOf(m, o)' = RowsOf(m, o)
        BY <2>2, EnqueueFacts DEF IInv
    <2>4. OpsFit' BY <2>2 DEF KInv, OpsFit
    <2>5. LabelsFit' BY <2>1, <2>2, <2>3 DEF KInv, LabelsFit
    <2>6. /\ upserted'[l] = label
          /\ \A m \in Leads \ {l} : upserted'[m] = upserted[m]
        BY <2>2 DEF KInv, LabelsFit
    <2>7. KeepsUp(l)' BY <2>3, <2>6 DEF KeepsUp, Upserts
    <2>8. ASSUME NEW m \in Leads \ {l} PROVE KeepsUp(m)'
        <3>1. Upserts(m)' = Upserts(m) BY <2>3 DEF Upserts
        <3>2. \A w \in Workers, x \in Labels : Holds(w, m, x)' <=> Holds(w, m, x) BY <2>2 DEF Holds
        <3>3. \A i \in ItemsOf(m) : board'[i].lead = m /\ Rank(board'[i].stage) >= Rank(board[i].stage)
            BY <2>2, RankTyped DEF ItemsOf, IInv, TypeOK
        <3>4. Retains(m) BY <2>2, <2>6, <3>1, <3>2, <3>3 DEF Retains
        <3> QED BY <3>4, RetainsKeepsUp DEF KInv, IInv
    <2> QED BY <2>4, <2>5, <2>7, <2>8 DEF KInv
<1>2. CASE ~HandleMessage(l)
    <2>1. /\ UNCHANGED <<batch, work, board, trouble, upserted>>
          /\ UNCHANGED outbox \/ \E s : Enqueue(l, "change_stage", StageLabel(s))
        BY <1>2 DEF Conversation, Transition, NoTransition, Control
    <2>2. /\ \A m \in Leads : Upserts(m)' = Upserts(m)
          /\ \A r \in outbox' : r.label \in Given
        <3>1. CASE UNCHANGED outbox BY <3>1 DEF Upserts, RowsOf, KInv, LabelsFit
        <3>2. ASSUME NEW s, Enqueue(l, "change_stage", StageLabel(s))
              PROVE  /\ \A m \in Leads : Upserts(m)' = Upserts(m)
                     /\ \A r \in outbox' : r.label \in Given
            <4>1. PICK new :
                     /\ new.label = StageLabel(s)
                     /\ outbox' = (outbox \ RowsOf(l, "change_stage")) \cup {new}
                     /\ \A m \in Leads, o \in Ops : m # l \/ o # "change_stage" => RowsOf(m, o)' = RowsOf(m, o)
                BY <3>2, EnqueueFacts DEF IInv
            <4>2. new.label \in Given BY <4>1, LabelGiven
            <4> QED BY <4>1, <4>2 DEF Upserts, KInv, LabelsFit
        <3> QED BY <2>1, <3>1, <3>2
    <2>3. OpsFit' BY <2>1 DEF KInv, OpsFit
    <2>4. LabelsFit' BY <2>1, <2>2 DEF KInv, LabelsFit
    <2>5. ASSUME NEW m \in Leads PROVE KeepsUp(m)'
        <3>1. \A w \in Workers, x \in Labels : Holds(w, m, x)' <=> Holds(w, m, x) BY <2>1 DEF Holds
        <3>2. \A i \in ItemsOf(m) : board'[i].lead = m /\ Rank(board'[i].stage) >= Rank(board[i].stage)
            BY <2>1, RankTyped DEF ItemsOf, IInv, TypeOK
        <3>3. Retains(m) BY <2>1, <2>2, <3>1, <3>2 DEF Retains
        <3> QED BY <3>3, RetainsKeepsUp DEF KInv, IInv
    <2> QED BY <2>3, <2>4, <2>5 DEF KInv
<1> QED BY <1>1, <1>2

\* A seller leaves a mark at the lead of the item, and no other item moves.
LEMMA SellerKeepsUp ==
    ASSUME IInv, IInv', KInv, NEW i \in ItemIds, SellerCloses(i)
    PROVE  KInv'
<1>0. PICK l \in Leads : l = board[i].lead BY DEF SellerCloses, IInv, TypeOK
<1>1. /\ \A j \in ItemIds : board'[j].lead = board[j].lead /\ (j # i => board'[j] = board[j])
      /\ UNCHANGED <<outbox, batch, work, upserted>>
    <2>1. board' = [board EXCEPT ![i] = [@ EXCEPT !.stage = "Handoff Hecho"]]
        BY DEF SellerCloses
    <2>2. \A j \in ItemIds : board'[j].lead = board[j].lead /\ (j # i => board'[j] = board[j])
        BY <2>1 DEF IInv, TypeOK
    <2> QED BY <2>2 DEF SellerCloses
<1>2. /\ "closed" \in trouble'[l]
      /\ \A m \in Leads : trouble[m] \subseteq trouble'[m] /\ (m # l => trouble'[m] = trouble[m])
    <2>1. trouble' = [trouble EXCEPT ![l] =
            @ \cup IF \E w \in Workers : Busy(w, l) THEN {"closed", "overlap"} ELSE {"closed"}]
        BY <1>0 DEF SellerCloses
    <2> QED BY <2>1 DEF IInv, TypeOK
<1>3. OpsFit' BY <1>1 DEF KInv, OpsFit
<1>4. LabelsFit' BY <1>0, <1>1, <1>2 DEF KInv, LabelsFit
<1>5. ASSUME NEW m \in Leads PROVE KeepsUp(m)'
    <2>1. CASE m = l BY <1>2, <2>1 DEF KeepsUp
    <2>2. CASE m # l
        <3>1. \A w \in Workers, x \in Labels : Holds(w, m, x)' <=> Holds(w, m, x) BY <1>1 DEF Holds
        <3>2. \A j \in ItemsOf(m) : board'[j].lead = m /\ Rank(board'[j].stage) >= Rank(board[j].stage)
            BY <1>0, <1>1, <2>2, RankTyped DEF ItemsOf, IInv, TypeOK
        <3>3. Upserts(m)' = Upserts(m) BY <1>1 DEF Upserts, RowsOf
        <3>4. Retains(m) BY <1>1, <1>2, <2>2, <3>1, <3>2, <3>3 DEF Retains
        <3> QED BY <3>4, RetainsKeepsUp DEF KInv, IInv
    <2> QED BY <2>1, <2>2
<1> QED BY <1>3, <1>4, <1>5 DEF KInv


\* A worker that has an operation is done with it: it drops no row of a lead
\* without trouble, and only its own row can come back.
Spares(w) ==
    /\ Releases(w) /\ UNCHANGED upserted
    /\ \A r \in batch[w] : trouble'[r.lead] = {} => r \in batch'[w]
    /\ \A m \in Leads, o \in Ops : m # work[w].lead \/ o # work[w].op => RowsOf(m, o)' = RowsOf(m, o)
    /\ \A r \in outbox' : r.label \in Given

\* What the worker may have done to the board on the way.
Moves(w) ==
    \/ UNCHANGED board
    \/ work[w].pc \in {"update", "write"} /\ board' = Written(w)
    \/ work[w].pc = "create" /\ \E i \in ItemsOf(Nobody) : board' = Added(w, i)

LEMMA FinishSpares ==
    ASSUME IInv, KInv, NEW w \in Workers, Finish(w), UNCHANGED <<trouble, upserted>>
    PROVE  Spares(w) /\ UNCHANGED outbox
<1>1. Releases(w) BY FinishReleases DEF IInv
<1>2. UNCHANGED <<outbox, batch>> BY DEF Finish
<1> QED BY <1>1, <1>2 DEF Spares, RowsOf, KInv, LabelsFit

\* The row of an operation that failed comes back with its label, where the
\* lead has no trouble.
LEMMA FailSpares ==
    ASSUME IInv, KInv, NEW w \in Workers, work[w].pc # "idle", Fail(w), UNCHANGED upserted,
           NEW l \in Leads, l = work[w].lead, NEW op \in Ops, op = work[w].op
    PROVE  /\ Spares(w)
           /\ trouble'[l] = {} => /\ RowsOf(l, op) = {}
                                  /\ \E new : new.label = work[w].label /\ RowsOf(l, op)' = {new}
<1> DEFINE new == [lead |-> l, op |-> op, label |-> work[w].label, retry |-> "yes"]
<1>0. Releases(w) BY FailReleases DEF IInv
<1>1. new.lead = l /\ new.op = op /\ new.label = work[w].label OBVIOUS
<1>2. work[w].label \in Given BY DEF KInv, LabelsFit
<1>3. \/ RowsOf(l, op) = {} /\ outbox' = outbox \cup {new} /\ UNCHANGED <<batch, trouble>>
      \/ /\ trouble' = [m \in Leads |-> IF Busy(w, m) THEN trouble[m] \cup {"dropped"} ELSE trouble[m]]
         /\ UNCHANGED outbox
      \/ trouble' = [trouble EXCEPT ![l] = @ \cup {"dropped"}] /\ UNCHANGED <<outbox, batch>>
    BY DEF Fail
<1> HIDE DEF new
<1>4. CASE RowsOf(l, op) = {} /\ outbox' = outbox \cup {new} /\ UNCHANGED <<batch, trouble>>
    <2>1. RowsOf(l, op)' = {new} BY <1>1, <1>4 DEF RowsOf
    <2>2. \A m \in Leads, o \in Ops : m # l \/ o # op => RowsOf(m, o)' = RowsOf(m, o)
        BY <1>1, <1>4 DEF RowsOf
    <2>3. \A r \in outbox' : r.label \in Given BY <1>1, <1>2, <1>4 DEF KInv, LabelsFit
    <2> QED BY <1>0, <1>1, <1>4, <2>1, <2>2, <2>3 DEF Spares
<1>5. CASE /\ trouble' = [m \in Leads |-> IF Busy(w, m) THEN trouble[m] \cup {"dropped"} ELSE trouble[m]]
           /\ UNCHANGED outbox
    <2>1. \A m \in Leads : Busy(w, m) => trouble'[m] # {} BY <1>5
    <2>2. Busy(w, l) BY DEF Busy
    <2>3. \A r \in batch[w] : r.lead \in Leads /\ Busy(w, r.lead) BY DEF Busy, IInv, TypeOK, Claimed
    <2>4. /\ \A m \in Leads, o \in Ops : RowsOf(m, o)' = RowsOf(m, o)
          /\ \A r \in outbox' : r.label \in Given
        BY <1>5 DEF RowsOf, KInv, LabelsFit
    <2> QED BY <1>0, <2>1, <2>2, <2>3, <2>4 DEF Spares
<1>6. CASE trouble' = [trouble EXCEPT ![l] = @ \cup {"dropped"}] /\ UNCHANGED <<outbox, batch>>
    <2>1. trouble'[l] # {} BY <1>6 DEF IInv, TypeOK
    <2>2. /\ \A m \in Leads, o \in Ops : RowsOf(m, o)' = RowsOf(m, o)
          /\ \A r \in outbox' : r.label \in Given
        BY <1>6 DEF RowsOf, KInv, LabelsFit
    <2> QED BY <1>0, <1>6, <2>1, <2>2 DEF Spares
<1> QED BY <1>3, <1>4, <1>5, <1>6

\* A write moves no item of another lead, and change_stage none back: what is
\* finished was closed by a seller.
LEMMA MovesForward ==
    ASSUME IInv, KInv, NEW w \in Workers, work[w].pc # "idle", Moves(w), Grows,
           NEW m \in Leads, trouble'[m] = {}, m # work[w].lead \/ work[w].op = "change_stage",
           NEW i \in ItemsOf(m)
    PROVE  board'[i].lead = m /\ Rank(board'[i].stage) >= Rank(board[i].stage)
<1>1. i \in ItemIds /\ board[i].lead = m /\ m # Nobody /\ board[i].stage \in Labels
    BY BoardConstants DEF ItemsOf, IInv, TypeOK
<1>2. trouble[m] = {} BY DEF Grows
<1>3. Rank(board[i].stage) \in Nat BY <1>1, RankTyped
<1>4. CASE board'[i] = board[i] BY <1>1, <1>3, <1>4
<1>5. CASE board'[i] # board[i]
    <2>1. ~ (work[w].pc = "create" /\ \E j \in ItemsOf(Nobody) : board' = Added(w, j))
        BY <1>1, <1>5 DEF ItemsOf, Added, IInv, TypeOK
    <2>2. work[w].pc \in {"update", "write"} /\ board' = Written(w) BY <1>5, <2>1 DEF Moves
    <2>3. i = work[w].item /\ work[w].lead = m
        BY <1>1, <1>5, <2>2 DEF Written, IInv, TypeOK
    <2>4. work[w].pc = "write" BY <2>2, <2>3 DEF KInv, OpsFit
    <2>5. ~ Misread(m) BY <1>2 DEF Misread
    <2>6. Advances(board[i].stage, work[w].label) BY <2>3, <2>4, <2>5 DEF IInv, Changes
    <2>7. board[i].stage # "Handoff Hecho" BY <1>1, <1>2 DEF KInv, LabelsFit
    <2>8. board'[i].lead = m /\ board'[i].stage = work[w].label
        BY <1>1, <2>2, <2>3 DEF Written, IInv, TypeOK
    <2>9. Rank(work[w].label) \in Nat BY RankTyped DEF IInv, TypeOK
    <2>10. Rank(work[w].label) > Rank(board[i].stage) BY <2>6, <2>7 DEF Advances
    <2> QED BY <1>3, <2>8, <2>9, <2>10
<1> QED BY <1>4, <1>5

\* No write of a worker finishes an item.
LEMMA MovesLabels ==
    ASSUME IInv, IInv', KInv, NEW w \in Workers, work[w].pc # "idle", Moves(w), Grows,
           NEW i \in ItemIds, board'[i].stage = "Handoff Hecho"
    PROVE  board'[i].lead \in Leads /\ "closed" \in trouble'[board'[i].lead]
<1>1. work[w].label # "Handoff Hecho" BY DEF KInv, LabelsFit, Given
<1>2. board'[i] = board[i]
    <2>1. CASE UNCHANGED board BY <2>1
    <2>2. CASE board' = Written(w)
        <3>1. i = work[w].item => board'[i].stage = work[w].label BY <2>2 DEF Written, IInv, TypeOK
        <3> QED BY <1>1, <2>2, <3>1 DEF Written, IInv, TypeOK
    <2>3. ASSUME NEW j \in ItemIds, board' = Added(w, j) PROVE board'[i] = board[i]
        <3>1. i = j => board'[i].stage = work[w].label BY <2>3 DEF Added, IInv, TypeOK
        <3> QED BY <1>1, <2>3, <3>1 DEF Added, IInv, TypeOK
    <2> QED BY <2>1, <2>2, <2>3 DEF Moves, ItemsOf
<1> QED BY <1>2 DEF Grows, KInv, LabelsFit

\* A worker that is done keeps the invariant, if it does for the lead of its
\* upsert_lead.
LEMMA SpareKeepsUp ==
    ASSUME IInv, IInv', KInv, NEW w \in Workers, work[w].pc # "idle", Spares(w), Moves(w),
           NEW l \in Leads, l = work[w].lead,
           work[w].op = "upsert_lead" /\ trouble'[l] = {} => KeepsUp(l)'
    PROVE  KInv'
<1> USE DEF Ops
<1>0. Grows /\ Keeps(w) /\ UNCHANGED upserted /\ work'[w] = Idle
      /\ \A v \in Workers \ {w} : work'[v] = work[v] /\ batch'[v] = batch[v]
    BY DEF Spares, Releases, Keeps, IInv, TypeOK
<1>1. OpsFit' BY <1>0 DEF KInv, OpsFit, Idle
<1>2. LabelsFit'
    <2>1. \A v \in Workers : work'[v].label \in Given /\ \A r \in batch'[v] : r.label \in Given
        <3>1. Idle.label \in Given BY DEF Idle, Given, Labels
        <3> QED BY <1>0, <3>1 DEF KInv, LabelsFit, Keeps
    <2>2. \A i \in ItemIds : board'[i].stage = "Handoff Hecho" =>
            board'[i].lead \in Leads /\ "closed" \in trouble'[board'[i].lead]
        BY <1>0, MovesLabels
    <2> QED BY <1>0, <2>1, <2>2 DEF KInv, LabelsFit, Spares
<1>3. ASSUME NEW m \in Leads PROVE KeepsUp(m)'
    <2>1. CASE trouble'[m] # {} BY <2>1 DEF KeepsUp
    <2>2. CASE m = l /\ work[w].op = "upsert_lead" /\ trouble'[m] = {} BY <2>2
    <2>3. CASE trouble'[m] = {} /\ (m # l \/ work[w].op # "upsert_lead")
        <3>1. m # work[w].lead \/ work[w].op = "change_stage" BY <2>3 DEF IInv, TypeOK
        <3>2. Upserts(m)' = Upserts(m) BY <3>1 DEF Spares, Upserts
        <3>3. ASSUME NEW v \in Workers, NEW x \in Labels PROVE Holds(v, m, x)' <=> Holds(v, m, x)
            <4>1. CASE v # w BY <1>0, <4>1 DEF Holds
            <4>2. CASE v = w
                <5>1. \A r \in batch[w] : r.lead = m => r \in batch'[w] BY <2>3 DEF Spares
                <5>2. batch'[w] \subseteq batch[w] BY <1>0 DEF Keeps
                <5> QED BY <1>0, <2>3, <4>2, <5>1, <5>2 DEF Holds, Idle
            <4> QED BY <4>1, <4>2
        <3>4. \A i \in ItemsOf(m) : board'[i].lead = m /\ Rank(board'[i].stage) >= Rank(board[i].stage)
            BY <1>0, <2>3, <3>1, MovesForward
        <3>5. trouble[m] = {} BY <1>0, <2>3 DEF Grows
        <3>6. Retains(m) BY <1>0, <3>2, <3>3, <3>4, <3>5 DEF Retains
        <3> QED BY <3>6, RetainsKeepsUp DEF KInv, IInv
    <2> QED BY <2>1, <2>2, <2>3
<1> QED BY <1>1, <1>2, <1>3 DEF KInv

\* A worker that fails, whether or not Monday had executed its mutation.
LEMMA FailKeepsUp ==
    ASSUME IInv, IInv', KInv, NEW w \in Workers, work[w].pc # "idle", Fail(w), Moves(w),
           UNCHANGED upserted
    PROVE  KInv'
<1>1. PICK l \in Leads : l = work[w].lead BY DEF IInv, TypeOK
<1>2. Spares(w)
    <2>1. PICK op \in Ops : op = work[w].op BY DEF IInv, TypeOK
    <2> QED BY <1>1, <2>1, FailSpares
<1>3. ASSUME work[w].op = "upsert_lead", trouble'[l] = {} PROVE KeepsUp(l)'
    <2>1. PICK new : new.label = work[w].label /\ Upserts(l)' = {new}
        BY <1>1, <1>3, FailSpares DEF Upserts, Ops
    <2>2. Upserts(l) = {} BY <1>1, <1>3, FailSpares DEF Upserts, Ops
    <2>3. work[w].label \in Labels /\ Holds(w, l, work[w].label)
        BY <1>1, <1>3 DEF Holds, IInv, TypeOK
    <2>4. trouble[l] = {} BY <1>2, <1>3 DEF Spares, Releases, Grows
    <2>5. upserted[l] # "none" => work[w].label = upserted[l]
        BY <2>2, <2>3, <2>4 DEF KInv, KeepsUp
    <2> QED BY <2>1, <2>5 DEF KeepsUp
<1> QED BY <1>1, <1>2, <1>3, SpareKeepsUp

\* A worker that has written its upsert_lead: the item is as far as the last
\* one said, unless that one is still pending.
LEMMA UpsertKeepsUp ==
    ASSUME IInv, IInv', KInv, NEW w \in Workers, work[w].pc # "idle",
           Finish(w), UNCHANGED <<trouble, upserted>>,
           \/ work[w].pc = "update" /\ board' = Written(w)
           \/ work[w].pc = "create" /\ \E i \in ItemsOf(Nobody) : board' = Added(w, i)
    PROVE  KInv'
<1>1. PICK l \in Leads : l = work[w].lead BY DEF IInv, TypeOK
<1>2. Spares(w) /\ UNCHANGED outbox BY FinishSpares
<1>3. work[w].op = "upsert_lead" /\ Moves(w) BY DEF KInv, OpsFit, Moves
<1>4. \E i \in ItemIds : board'[i].lead = l /\ board'[i].stage = work[w].label
    <2>1. CASE work[w].pc = "update" /\ board' = Written(w)
        <3>1. work[w].item \in ItemIds /\ board[work[w].item].lead = l
            BY <1>1, <2>1 DEF IInv, TypeOK
        <3> QED BY <2>1, <3>1 DEF Written, IInv, TypeOK
    <2>2. CASE work[w].pc = "create" /\ \E i \in ItemsOf(Nobody) : board' = Added(w, i)
        BY <1>1, <2>2 DEF Added, ItemsOf, IInv, TypeOK
    <2> QED BY <2>1, <2>2
<1>5. KeepsUp(l)'
    <2>1. SUFFICES ASSUME upserted[l] # "none", trouble[l] = {}
                   PROVE  /\ \A r \in Upserts(l) : r.label = upserted[l]
                          /\ Upserts(l) = {} =>
                               /\ \A v \in Workers, x \in Labels : Holds(v, l, x)' => x = upserted[l]
                               /\ \E i \in ItemsOf(l)' : Rank(board'[i].stage) >= Rank(upserted[l])
        BY <1>2 DEF KeepsUp, AsFarAs, Upserts, RowsOf
    <2>2. \A r \in Upserts(l) : r.label = upserted[l] BY <2>1 DEF KInv, KeepsUp
    <2>3. ASSUME Upserts(l) = {}
          PROVE  /\ \A v \in Workers, x \in Labels : Holds(v, l, x)' => x = upserted[l]
                 /\ \E i \in ItemsOf(l)' : Rank(board'[i].stage) >= Rank(upserted[l])
        <3>1. \A v \in Workers, x \in Labels : Holds(v, l, x) => x = upserted[l]
            BY <2>1, <2>3 DEF KInv, KeepsUp
        <3>2. /\ work'[w] = Idle /\ UNCHANGED batch
              /\ \A v \in Workers \ {w} : work'[v] = work[v]
            BY DEF Finish, IInv, TypeOK
        <3>3. \A v \in Workers, x \in Labels : Holds(v, l, x)' => Holds(v, l, x)
            BY <3>2 DEF Holds, Idle
        <3>4. work[w].label \in Labels /\ Holds(w, l, work[w].label)
            BY <1>1, <1>3 DEF Holds, IInv, TypeOK
        <3>5. work[w].label = upserted[l] BY <3>1, <3>4
        <3>6. Rank(work[w].label) \in Nat BY <3>4, RankTyped
        <3>7. \E i \in ItemsOf(l)' : Rank(board'[i].stage) >= Rank(upserted[l])
            BY <1>4, <3>5, <3>6 DEF ItemsOf
        <3> QED BY <3>1, <3>3, <3>7
    <2> QED BY <2>2, <2>3
<1> QED BY <1>1, <1>2, <1>3, <1>5, SpareKeepsUp

\* A worker whose change is blocked or written.
LEMMA ChangeKeepsUp ==
    ASSUME IInv, IInv', KInv, NEW w \in Workers, work[w].pc \in {"read", "write"},
           Finish(w), UNCHANGED <<trouble, upserted>>, Moves(w)
    PROVE  KInv'
<1>1. PICK l \in Leads : l = work[w].lead BY DEF IInv, TypeOK
<1>2. Spares(w) BY FinishSpares
<1>3. work[w].op # "upsert_lead" BY DEF KInv, OpsFit
<1> QED BY <1>1, <1>2, <1>3, SpareKeepsUp

\* A worker that takes its next row or goes on with an operation has the same
\* rows to write.
LEMMA JobKeepsUp ==
    ASSUME IInv, IInv', KInv, NEW w \in Workers, UNCHANGED <<outbox, board, upserted>>, Keeps(w), Grows,
           NEW job, work' = [work EXCEPT ![w] = job], job.label \in Given,
           job.pc \in {"update", "create"} => job.op = "upsert_lead",
           job.pc \in {"read", "write"} => job.op = "change_stage",
           \A m \in Leads, x \in Labels : Holds(w, m, x)' <=> Holds(w, m, x)
    PROVE  KInv'
<1>0. work'[w] = job /\ \A v \in Workers \ {w} : work'[v] = work[v] /\ batch'[v] = batch[v]
    BY DEF Keeps, IInv, TypeOK
<1>1. OpsFit' BY <1>0 DEF KInv, OpsFit
<1>2. LabelsFit'
    <2>1. \A v \in Workers : work'[v].label \in Given /\ \A r \in batch'[v] : r.label \in Given
        BY <1>0 DEF KInv, LabelsFit, Keeps
    <2>2. \A i \in ItemIds : board'[i].stage = "Handoff Hecho" =>
            board'[i].lead \in Leads /\ "closed" \in trouble'[board'[i].lead]
        BY DEF KInv, LabelsFit, Grows
    <2> QED BY <2>1, <2>2 DEF KInv, LabelsFit
<1>3. ASSUME NEW m \in Leads PROVE KeepsUp(m)'
    <2>1. Upserts(m)' = Upserts(m) BY DEF Upserts, RowsOf
    <2>2. \A v \in Workers, x \in Labels : Holds(v, m, x)' <=> Holds(v, m, x)
        BY <1>0 DEF Holds
    <2>3. \A i \in ItemsOf(m) : board'[i].lead = m /\ Rank(board'[i].stage) >= Rank(board[i].stage)
        BY RankTyped DEF ItemsOf, IInv, TypeOK
    <2>4. Retains(m) BY <2>1, <2>2, <2>3 DEF Retains, Grows
    <2> QED BY <2>4, RetainsKeepsUp DEF KInv, IInv
<1> QED BY <1>1, <1>2, <1>3 DEF KInv

LEMMA ContinueKeepsUp ==
    ASSUME IInv, IInv', KInv, NEW w \in Workers, work[w].pc # "idle", NEW pc, NEW item,
           Continue(w, pc, item), UNCHANGED <<outbox, batch, board, upserted>>, Grows,
           pc # "idle",
           pc \in {"update", "create"} => work[w].op = "upsert_lead",
           pc \in {"read", "write"} => work[w].op = "change_stage"
    PROVE  KInv'
<1> DEFINE job == [work[w] EXCEPT !.pc = pc, !.item = item]
<1>1. /\ job.pc = pc /\ job.lead = work[w].lead /\ job.op = work[w].op
      /\ job.label = work[w].label
    BY DEF IInv, TypeOK
<1>2. work' = [work EXCEPT ![w] = job] BY DEF Continue
<1>3. Keeps(w) BY DEF Keeps, IInv, TypeOK
<1>4. job.label \in Given BY <1>1 DEF KInv, LabelsFit
<1> HIDE DEF job
<1>5. work'[w] = job BY <1>2 DEF IInv, TypeOK
<1>6. \A m \in Leads, x \in Labels : Holds(w, m, x)' <=> Holds(w, m, x)
    BY <1>1, <1>5 DEF Holds
<1> QED BY <1>1, <1>2, <1>3, <1>4, <1>6, JobKeepsUp

LEMMA DispatchKeepsUp ==
    ASSUME IInv, IInv', KInv, NEW w \in Workers, NEW r \in batch[w], Dispatch(w, r)
    PROVE  KInv'
<1> DEFINE job == [pc |-> "find", lead |-> r.lead, op |-> r.op, label |-> r.label,
                   item |-> Nobody]
<1>1. job.pc = "find" /\ job.lead = r.lead /\ job.op = r.op /\ job.label = r.label OBVIOUS
<1>2. /\ UNCHANGED <<outbox, board, upserted>> /\ Keeps(w) /\ Grows
      /\ batch' = [batch EXCEPT ![w] = @ \ {r}] /\ work[w].pc = "idle"
    BY DEF Dispatch, Keeps, Grows, IInv, TypeOK, fsmVars
<1>3. work' = [work EXCEPT ![w] = job] BY DEF Dispatch
<1>4. job.label \in Given BY <1>1 DEF KInv, LabelsFit
<1> HIDE DEF job
<1>5. work'[w] = job /\ batch'[w] = batch[w] \ {r} BY <1>2, <1>3 DEF IInv, TypeOK
<1>6. \A m \in Leads, x \in Labels : Holds(w, m, x)' <=> Holds(w, m, x)
    BY <1>1, <1>2, <1>5 DEF Holds
<1> QED BY <1>1, <1>2, <1>3, <1>4, <1>6, JobKeepsUp

\* What a worker claims of a lead without trouble is all there is of it.
LEMMA ClaimKeepsUp ==
    ASSUME IInv, IInv', KInv, NEW w \in Workers, Claim(w)
    PROVE  KInv'
<1>1. PICK due \in SUBSET outbox :
        /\ outbox' = outbox \ due
        /\ batch' = [batch EXCEPT ![w] =
                {[lead |-> r.lead, op |-> r.op, label |-> r.label,
                  turn |-> IF older[r.lead] = r.op THEN 1 ELSE 2] : r \in due}]
        /\ trouble' = [l \in Leads |->
                IF (\E r \in due : r.lead = l) /\ (\E v \in Workers \ {w} : Busy(v, l))
                THEN trouble[l] \cup {"overlap"} ELSE trouble[l]]
    BY DEF Claim
<1>2. UNCHANGED <<work, board, upserted>> /\ work[w].pc = "idle" /\ batch[w] = {}
    BY DEF Claim, fsmVars
<1>3. Grows BY <1>1 DEF Grows, IInv, TypeOK, Troubles
<1>4. \A v \in Workers \ {w} : batch'[v] = batch[v] BY <1>1 DEF IInv, TypeOK
<1>5. /\ \A q \in batch'[w] : \E r \in due : q.lead = r.lead /\ q.op = r.op /\ q.label = r.label
      /\ \A r \in due : \E q \in batch'[w] : q.lead = r.lead /\ q.op = r.op /\ q.label = r.label
    <2>1. batch'[w] = {[lead |-> r.lead, op |-> r.op, label |-> r.label,
                        turn |-> IF older[r.lead] = r.op THEN 1 ELSE 2] : r \in due}
        BY <1>1 DEF IInv, TypeOK
    <2>2. \A r \in due : \E q \in batch'[w] : q.lead = r.lead /\ q.op = r.op /\ q.label = r.label
        <3> TAKE r \in due
        <3> DEFINE q == [lead |-> r.lead, op |-> r.op, label |-> r.label,
                         turn |-> IF older[r.lead] = r.op THEN 1 ELSE 2]
        <3>1. q \in batch'[w] BY <2>1
        <3> QED BY <3>1
    <2> QED BY <2>1, <2>2
<1>6. OpsFit' BY <1>2 DEF KInv, OpsFit
<1>7. LabelsFit'
    <2>1. \A v \in Workers : work'[v].label \in Given /\ \A r \in batch'[v] : r.label \in Given
        <3>1. \A v \in Workers : work'[v].label \in Given BY <1>2 DEF KInv, LabelsFit
        <3>2. \A r \in batch'[w] : r.label \in Given BY <1>5 DEF KInv, LabelsFit
        <3>3. \A v \in Workers \ {w} : \A r \in batch'[v] : r.label \in Given
            BY <1>4 DEF KInv, LabelsFit
        <3> QED BY <3>1, <3>2, <3>3
    <2>2. \A i \in ItemIds : board'[i].stage = "Handoff Hecho" =>
            board'[i].lead \in Leads /\ "closed" \in trouble'[board'[i].lead]
        BY <1>2, <1>3 DEF KInv, LabelsFit, Grows
    <2> QED BY <1>1, <1>2, <2>1, <2>2 DEF KInv, LabelsFit
<1>8. ASSUME NEW m \in Leads PROVE KeepsUp(m)'
    <2> SUFFICES ASSUME upserted[m] # "none", trouble'[m] = {}
                 PROVE  KeepsUp(m)'
        BY <1>2 DEF KeepsUp
    <2>1. PICK u \in Labels : u = upserted[m] /\ u = upserted'[m]
        BY <1>2 DEF KInv, LabelsFit, Given
    <2>2. trouble[m] = {} BY <1>3 DEF Grows
    <2>3. Upserts(m)' = Upserts(m) \ due BY <1>1 DEF Upserts, RowsOf
    <2>4. \A r \in Upserts(m) : r.label = u BY <2>1, <2>2 DEF KInv, KeepsUp
    <2>5. \A v \in Workers \ {w} : Busy(v, m) => \A r \in due : r.lead # m BY <1>1
    <2>6. \A v \in Workers \ {w}, x \in Labels :
            (Holds(v, m, x)' <=> Holds(v, m, x)) /\ (Holds(v, m, x) => Busy(v, m))
        BY <1>2, <1>4 DEF Holds, Busy
    <2>7. \A x \in Labels :
            /\ ~ Holds(w, m, x)
            /\ Holds(w, m, x)' <=> \E r \in due : r \in Upserts(m) /\ r.label = x
        BY <1>2, <1>5 DEF Holds, Upserts, RowsOf
    <2>8. Upserts(m) = {} =>
            /\ \A v \in Workers, x \in Labels : Holds(v, m, x) => x = u
            /\ (\E v \in Workers : Holds(v, m, u)) \/ \E i \in ItemsOf(m) : AsFarAs(i, u)
        BY <2>1, <2>2 DEF KInv, KeepsUp
    <2>9. ASSUME Upserts(m) \ due = {}, NEW v \in Workers, NEW x \in Labels, Holds(v, m, x)'
          PROVE  x = u
        <3>1. CASE v = w BY <2>4, <2>7, <2>9, <3>1
        <3>2. CASE v # w
            <4>1. \A r \in due : r.lead # m BY <2>5, <2>6, <2>9, <3>2
            <4>2. Upserts(m) = {} BY <2>9, <4>1 DEF Upserts, RowsOf
            <4> QED BY <2>6, <2>8, <2>9, <3>2, <4>2
        <3> QED BY <3>1, <3>2
    <2>10. ASSUME Upserts(m) \ due = {}
           PROVE  (\E v \in Workers : Holds(v, m, u)') \/ \E i \in ItemsOf(m)' : AsFarAs(i, u)'
        <3>1. CASE Upserts(m) # {} BY <2>4, <2>7, <2>10, <3>1
        <3>2. CASE Upserts(m) = {}
            <4>1. ASSUME NEW v \in Workers, Holds(v, m, u) PROVE Holds(v, m, u)'
                BY <2>6, <2>7, <4>1
            <4>2. ASSUME NEW i \in ItemsOf(m), AsFarAs(i, u)
                  PROVE  i \in ItemsOf(m)' /\ AsFarAs(i, u)'
                BY <1>2, <4>2 DEF ItemsOf, AsFarAs
            <4> QED BY <2>8, <3>2, <4>1, <4>2
        <3> QED BY <3>1, <3>2
    <2>11. \A v \in Workers : Holds(v, m, u)' => Holds(v, m, upserted[m])'
        BY <2>1 DEF Holds
    <2>12. \A i : AsFarAs(i, u)' => AsFarAs(i, upserted[m])' BY <2>1 DEF AsFarAs
    <2> QED BY <2>1, <2>3, <2>4, <2>9, <2>10, <2>11, <2>12 DEF KeepsUp
<1> QED BY <1>6, <1>7, <1>8 DEF KInv

LEMMA AdapterKeepsUp ==
    ASSUME IInv, IInv', KInv, NEW w \in Workers, Adapter(w)
    PROVE  KInv'
<1> SUFFICES ASSUME work[w].pc # "idle" PROVE KInv'
    BY DEF Adapter, FindItem, FindNoItem, FindFails, UpdateItem, CreateItem, ReadStage,
           ReadStageFails, WriteStage, MutationRaises
<1>1. work[w].op \in Ops /\ (UNCHANGED trouble => Grows) BY DEF Grows, IInv, TypeOK
<1>2. ASSUME NEW marks \in SUBSET {"unread", "double"}, Remember(work[w].lead, marks) PROVE Grows
    BY <1>2 DEF Remember, Grows, Troubles, IInv, TypeOK
<1>3. UNCHANGED upserted
    BY DEF Adapter, FindItem, FindNoItem, FindFails, UpdateItem, CreateItem, ReadStage,
           ReadStageFails, WriteStage, MutationRaises, fsmVars
<1>4. CASE FindItem(w)
    <2>1. UNCHANGED <<outbox, batch, board>> /\ Grows BY <1>1, <1>4 DEF FindItem
    <2>2. PICK i : Continue(w, IF work[w].op = "upsert_lead" THEN "update" ELSE "read", i)
        BY <1>4 DEF FindItem
    <2>3. CASE work[w].op = "upsert_lead"
        <3>1. Continue(w, "update", i) BY <2>2, <2>3
        <3> QED BY <1>3, <2>1, <2>3, <3>1, ContinueKeepsUp
    <2>4. CASE work[w].op # "upsert_lead"
        <3>1. Continue(w, "read", i) /\ work[w].op = "change_stage" BY <1>1, <2>2, <2>4 DEF Ops
        <3> QED BY <1>3, <2>1, <3>1, ContinueKeepsUp
    <2> QED BY <2>3, <2>4
<1>5. CASE FindNoItem(w) \/ FindFails(w)
    <2>1. CASE /\ Continue(w, "create", Nobody) /\ work[w].op = "upsert_lead"
               /\ UNCHANGED <<outbox, batch, board>> /\ Grows
        BY <1>3, <2>1, ContinueKeepsUp
    <2>2. CASE Fail(w) /\ UNCHANGED board BY <1>3, <2>2, FailKeepsUp DEF Moves
    <2>3. ASSUME NEW marks \in {{}, {"double"}}, GoesToCreate(w, marks), UNCHANGED board
          PROVE  /\ Continue(w, "create", Nobody) /\ work[w].op = "upsert_lead"
                 /\ UNCHANGED <<outbox, batch, board>> /\ Grows
        BY <1>2, <2>3 DEF GoesToCreate
    <2> QED BY <1>5, <2>1, <2>2, <2>3 DEF FindNoItem, FindFails
<1>6. CASE UpdateItem(w) BY <1>3, <1>6, UpsertKeepsUp DEF UpdateItem
<1>7. CASE CreateItem(w) BY <1>3, <1>7, UpsertKeepsUp DEF CreateItem
<1>8. CASE ReadStage(w)
    <2>1. CASE CanAdvance(board[work[w].item].stage, work[w].label)
        <3>1. Continue(w, "write", work[w].item) /\ UNCHANGED <<outbox, batch, board>> /\ Grows
            BY <1>1, <1>8, <2>1 DEF ReadStage
        <3>2. work[w].op = "change_stage" BY <1>8 DEF ReadStage, KInv, OpsFit
        <3> QED BY <1>3, <3>1, <3>2, ContinueKeepsUp
    <2>2. CASE ~ CanAdvance(board[work[w].item].stage, work[w].label)
        BY <1>3, <1>8, <2>2, ChangeKeepsUp DEF ReadStage, Moves
    <2> QED BY <2>1, <2>2
<1>9. CASE ReadStageFails(w)
    <2>1. /\ Continue(w, "write", work[w].item) /\ UNCHANGED <<outbox, batch, board>>
          /\ Grows /\ work[w].op = "change_stage"
        BY <1>2, <1>9 DEF ReadStageFails, KInv, OpsFit
    <2> QED BY <1>3, <2>1, ContinueKeepsUp
<1>10. CASE WriteStage(w) BY <1>3, <1>10, ChangeKeepsUp DEF WriteStage, Moves
<1>11. CASE MutationRaises(w) BY <1>3, <1>11, FailKeepsUp DEF MutationRaises, Moves
<1> QED BY <1>4, <1>5, <1>6, <1>7, <1>8, <1>9, <1>10, <1>11 DEF Adapter

\* A crash leaves a mark at every lead whose rows it takes along.
LEMMA CrashKeepsUp ==
    ASSUME IInv, IInv', KInv, NEW w \in Workers, Crash(w)
    PROVE  KInv'
<1>1. /\ work' = [work EXCEPT ![w] = Idle] /\ batch' = [batch EXCEPT ![w] = {}]
      /\ trouble' = [l \in Leads |-> IF Busy(w, l) THEN trouble[l] \cup {"dropped"} ELSE trouble[l]]
      /\ UNCHANGED <<outbox, board, upserted>>
    BY DEF Crash, fsmVars
<1>2. /\ work'[w] = Idle /\ batch'[w] = {}
      /\ \A v \in Workers \ {w} : work'[v] = work[v] /\ batch'[v] = batch[v]
    BY <1>1 DEF IInv, TypeOK
<1>3. Grows BY <1>1 DEF Grows, IInv, TypeOK, Troubles
<1>4. OpsFit' BY <1>2 DEF KInv, OpsFit, Idle
<1>5. LabelsFit'
    <2>1. Idle.label \in Given BY DEF Idle, Given, Labels
    <2>2. \A v \in Workers : work'[v].label \in Given /\ \A r \in batch'[v] : r.label \in Given
        BY <1>2, <2>1 DEF KInv, LabelsFit
    <2>3. \A i \in ItemIds : board'[i].stage = "Handoff Hecho" =>
            board'[i].lead \in Leads /\ "closed" \in trouble'[board'[i].lead]
        BY <1>1, <1>3 DEF KInv, LabelsFit, Grows
    <2> QED BY <1>1, <2>2, <2>3 DEF KInv, LabelsFit
<1>6. ASSUME NEW m \in Leads PROVE KeepsUp(m)'
    <2>1. CASE trouble'[m] # {} BY <2>1 DEF KeepsUp
    <2>2. CASE trouble'[m] = {}
        <3>1. ~ Busy(w, m) /\ trouble[m] = {} BY <1>1, <2>2
        <3>2. Upserts(m)' = Upserts(m) BY <1>1 DEF Upserts, RowsOf
        <3>3. \A v \in Workers, x \in Labels : Holds(v, m, x)' <=> Holds(v, m, x)
            BY <1>2, <3>1 DEF Holds, Busy, Idle
        <3>4. \A i \in ItemsOf(m) : board'[i].lead = m /\ Rank(board'[i].stage) >= Rank(board[i].stage)
            BY <1>1, RankTyped DEF ItemsOf, IInv, TypeOK
        <3>5. Retains(m) BY <1>1, <3>1, <3>2, <3>3, <3>4 DEF Retains
        <3> QED BY <3>5, RetainsKeepsUp DEF KInv, IInv
    <2> QED BY <2>1, <2>2
<1> QED BY <1>4, <1>5, <1>6 DEF KInv

LEMMA KeepingUp == IInv /\ KInv /\ [Next]_vars => KInv'
<1> SUFFICES ASSUME IInv, KInv, [Next]_vars PROVE KInv' OBVIOUS
<1>0. IInv' BY Inductive
<1>1. CASE \E l \in Leads : Conversation(l) BY <1>0, <1>1, ConversationKeepsUp
<1>2. CASE \E i \in ItemIds : SellerCloses(i) BY <1>0, <1>2, SellerKeepsUp
<1>3. CASE \E w \in Workers : Worker(w)
    BY <1>0, <1>3, ClaimKeepsUp, DispatchKeepsUp, AdapterKeepsUp DEF Worker
<1>4. CASE \E w \in Workers : Crash(w) BY <1>0, <1>4, CrashKeepsUp
<1>5. CASE UNCHANGED vars
    <2>1. UNCHANGED <<outbox, batch, work, board, upserted, trouble>> BY <1>5 DEF vars
    <2>2. OpsFit' /\ LabelsFit' BY <2>1 DEF KInv, OpsFit, LabelsFit
    <2>3. ASSUME NEW m \in Leads PROVE KeepsUp(m)'
        <3>1. Upserts(m)' = Upserts(m) BY <2>1 DEF Upserts, RowsOf
        <3>2. \A w \in Workers, x \in Labels : Holds(w, m, x)' <=> Holds(w, m, x)
            BY <2>1 DEF Holds
        <3>3. \A i \in ItemsOf(m) : board'[i].lead = m /\ Rank(board'[i].stage) >= Rank(board[i].stage)
            BY <2>1, RankTyped DEF ItemsOf, IInv, TypeOK
        <3>4. Retains(m) BY <2>1, <3>1, <3>2, <3>3 DEF Retains
        <3> QED BY <1>0, <3>4, RetainsKeepsUp DEF KInv, IInv
    <2> QED BY <2>2, <2>3 DEF KInv
<1> QED BY <1>1, <1>2, <1>3, <1>4, <1>5 DEF Next

\* Nothing is asked of the board before the first message of a lead.
LEMMA UpToDateAtFirst == Init => KInv
<1> SUFFICES ASSUME Init PROVE KInv OBVIOUS
<1>1. \A w \in Workers : work[w] = Idle /\ work[w].pc = "idle" /\ batch[w] = {} BY DEF Init, Idle
<1>2. Idle.label \in Given BY DEF Idle, Given, Labels
<1>3. \A i \in ItemIds : board[i].stage # "Handoff Hecho"
    <2>1. \A s : StageLabel(s) # "Handoff Hecho" BY LabelGiven DEF Given
    <2> QED BY <2>1 DEF Init
<1>4. OpsFit BY <1>1 DEF OpsFit
<1>5. LabelsFit BY <1>1, <1>2, <1>3 DEF Init, LabelsFit
<1>6. \A l \in Leads : KeepsUp(l) BY DEF Init, KeepsUp
<1> QED BY <1>4, <1>5, <1>6 DEF KInv

\* The items, the rows and the jobs of the workers keep their types, and a
\* worker at an item is at one of its lead.
THEOREM BoardTypes == Spec => []TypeOK
<1>1. IInv => TypeOK BY DEF IInv
<1> QED BY <1>1, BoardInvariant, PTL

\* Once the rows of a lead are processed, its item is at least as far as the
\* last upsert_lead said, however its messages, its retries and the workers
\* interleave, unless one of the marks of trouble says why not.
THEOREM BoardCatchesUp == Spec => []BoardKeepsUp
<1>1. Init => IInv /\ KInv BY Initially, UpToDateAtFirst
<1>2. IInv /\ KInv /\ [Next]_vars => (IInv /\ KInv)' BY Inductive, KeepingUp
<1>3. IInv /\ KInv => BoardKeepsUp
    <2> SUFFICES ASSUME IInv, KInv, NEW l \in Leads, upserted[l] # "none", trouble[l] = {},
                        \A r \in outbox : r.lead # l, \A w \in Workers : ~ Busy(w, l)
                 PROVE  \E i \in ItemsOf(l) : Rank(board[i].stage) >= Rank(upserted[l])
        BY DEF BoardKeepsUp
    <2>1. Upserts(l) = {} BY DEF Upserts, RowsOf
    <2>2. \A w \in Workers : ~ Holds(w, l, upserted[l]) BY DEF Holds, Busy
    <2> QED BY <2>1, <2>2 DEF KInv, KeepsUp, AsFarAs
<1> QED BY <1>1, <1>2, <1>3, PTL DEF Spec
=============================================================================
