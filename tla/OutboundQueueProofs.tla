-------------------------- MODULE OutboundQueueProofs --------------------------
(***************************************************************************)
(* Proofs about OutboundQueue, for any campaigns, leads, workers and       *)
(* faults: a campaign reaches a customer at most once, and the outcome a   *)
(* row records is the truth.  The invariant follows each row through its   *)
(* life: not enqueued, pending, held by one worker (before, during and     *)
(* after its turn), settled or abandoned.                                  *)
(***************************************************************************)
EXTENDS OutboundQueue, TLAPS

\* A row that was not taken has no attempt, no text and no history.
Untouched(i) ==
    /\ queue[i].attempts = 0 /\ texts[i] = 0
    /\ i \notin doubtful /\ i \notin abandoned

\* A campaign only enqueues leads whose row does not exist.
CampaignsAreFresh ==
    \A c \in Campaigns, l \in Leads :
        campaign[c].pc = "new" \/ l \in campaign[c].leads => queue[<<c, l>>].status = "absent"

RowsFollowTheirLife ==
    \A i \in Ids :
        /\ queue[i].status \in {"absent", "pending"} => Untouched(i)
        /\ queue[i].attempts <= 1 /\ texts[i] <= 1
        /\ i \in abandoned => queue[i].status = "processing"

\* What a worker knows of its items: only the one of the turn may have been
\* sent, and how far it got is in pc.
WorkersFollowTheLoop ==
    \A w \in Workers :
        /\ item[w] \subseteq batch[w]
        /\ pc[w] \in {"idle", "send"} => item[w] = {}
        /\ \A i \in batch[w] :
            /\ pc[w] # "idle"
            /\ i \notin item[w] => texts[i] = 0 /\ i \notin doubtful
            /\ i \in item[w] /\ pc[w] = "mark_sent" => texts[i] = 1
            /\ i \in item[w] /\ i \notin doubtful /\ pc[w] = "failed" => texts[i] = 0

QueueInv ==
    /\ TypeOK
    /\ CampaignsAreFresh
    /\ RowsFollowTheirLife
    /\ ProcessingIsHeld
    /\ WorkersFollowTheLoop
    /\ OutcomeIsTrue
-----------------------------------------------------------------------------
\* Init establishes the invariant.
LEMMA QueueInit == Init => QueueInv
BY DEF Init, QueueInv, TypeOK, Row, Campaign, CampaignsAreFresh, RowsFollowTheirLife,
       Untouched, ProcessingIsHeld, WorkersFollowTheLoop, OutcomeIsTrue, Ids

\* A campaign starts with leads whose rows do not exist.
LEMMA ScheduleCampaignInv ==
  ASSUME QueueInv, NEW c \in Campaigns, NEW D \in SUBSET Leads, ScheduleCampaign(c, D)
  PROVE  QueueInv'
<1>1. TypeOK'
  <2>1. campaign' \in [Campaigns -> Campaign]
    BY DEF QueueInv, TypeOK, Campaign, ScheduleCampaign
  <2>. QED
    BY <2>1 DEF QueueInv, TypeOK, ScheduleCampaign
<1>2. CampaignsAreFresh'
  BY DEF QueueInv, TypeOK, CampaignsAreFresh, ScheduleCampaign
<1>3. RowsFollowTheirLife'
  BY DEF QueueInv, TypeOK, RowsFollowTheirLife, Untouched, ScheduleCampaign
<1>4. ProcessingIsHeld'
  BY DEF QueueInv, TypeOK, ProcessingIsHeld, ScheduleCampaign
<1>5. WorkersFollowTheLoop'
  BY DEF QueueInv, TypeOK, WorkersFollowTheLoop, ScheduleCampaign
<1>6. OutcomeIsTrue'
  BY DEF QueueInv, TypeOK, OutcomeIsTrue, ScheduleCampaign
<1>. QED BY <1>1, <1>2, <1>3, <1>4, <1>5, <1>6 DEF QueueInv

\* enqueue creates a row nobody has touched.
LEMMA EnqueueLeadInv ==
  ASSUME QueueInv, NEW c \in Campaigns, NEW l \in Leads, EnqueueLead(c, l)
  PROVE  QueueInv'
<1>1. TypeOK'
  <2>1. campaign' \in [Campaigns -> Campaign]
    BY DEF QueueInv, TypeOK, Campaign, EnqueueLead
  <2>2. queue' \in [Ids -> Row]
    BY DEF QueueInv, TypeOK, Campaign, Row, Ids, EnqueueLead
  <2>. QED
    BY <2>1, <2>2 DEF QueueInv, TypeOK, EnqueueLead
<1>2. CampaignsAreFresh'
  BY DEF QueueInv, TypeOK, CampaignsAreFresh, EnqueueLead
<1>3. RowsFollowTheirLife'
  BY DEF QueueInv, TypeOK, CampaignsAreFresh, RowsFollowTheirLife, Untouched, EnqueueLead
<1>4. ProcessingIsHeld'
  BY DEF QueueInv, TypeOK, CampaignsAreFresh, ProcessingIsHeld, EnqueueLead
<1>5. WorkersFollowTheLoop'
  BY DEF QueueInv, TypeOK, WorkersFollowTheLoop, EnqueueLead
<1>6. OutcomeIsTrue'
  BY DEF QueueInv, TypeOK, OutcomeIsTrue, EnqueueLead
<1>. QED BY <1>1, <1>2, <1>3, <1>4, <1>5, <1>6 DEF QueueInv

\* A campaign that ends leaves the queue alone.
LEMMA EndCampaignInv ==
  ASSUME QueueInv, NEW c \in Campaigns, EndCampaign(c)
  PROVE  QueueInv'
<1>1. TypeOK'
  <2>1. campaign' \in [Campaigns -> Campaign]
    BY DEF QueueInv, TypeOK, Campaign, EndCampaign
  <2>. QED
    BY <2>1 DEF QueueInv, TypeOK, EndCampaign
<1>2. CampaignsAreFresh'
  BY DEF QueueInv, TypeOK, CampaignsAreFresh, EndCampaign
<1>3. RowsFollowTheirLife'
  BY DEF QueueInv, TypeOK, RowsFollowTheirLife, Untouched, EndCampaign
<1>4. ProcessingIsHeld'
  BY DEF QueueInv, TypeOK, ProcessingIsHeld, EndCampaign
<1>5. WorkersFollowTheLoop'
  BY DEF QueueInv, TypeOK, WorkersFollowTheLoop, EndCampaign
<1>6. OutcomeIsTrue'
  BY DEF QueueInv, TypeOK, OutcomeIsTrue, EndCampaign
<1>. QED BY <1>1, <1>2, <1>3, <1>4, <1>5, <1>6 DEF QueueInv

\* The clock says nothing of a row.
LEMMA TickInv ==
  ASSUME QueueInv, Tick
  PROVE  QueueInv'
<1>1. TypeOK'
  BY DEF QueueInv, TypeOK, Tick
<1>2. CampaignsAreFresh'
  BY DEF QueueInv, TypeOK, CampaignsAreFresh, Tick
<1>3. RowsFollowTheirLife'
  BY DEF QueueInv, TypeOK, RowsFollowTheirLife, Untouched, Tick
<1>4. ProcessingIsHeld'
  BY DEF QueueInv, TypeOK, ProcessingIsHeld, Tick
<1>5. WorkersFollowTheLoop'
  BY DEF QueueInv, TypeOK, WorkersFollowTheLoop, Tick
<1>6. OutcomeIsTrue'
  BY DEF QueueInv, TypeOK, OutcomeIsTrue, Tick
<1>. QED BY <1>1, <1>2, <1>3, <1>4, <1>5, <1>6 DEF QueueInv

\* get_next_batch hands pending rows to a worker that holds none.
LEMMA GetNextBatchInv ==
  ASSUME QueueInv, NEW w \in Workers, GetNextBatch(w)
  PROVE  QueueInv'
<1>1. PICK S \in SUBSET Claimable :
          /\ queue' = [i \in Ids |-> IF i \in S
                       THEN Taken(queue[i])
                       ELSE queue[i]]
          /\ batch' = [batch EXCEPT ![w] = S]
  BY DEF GetNextBatch
<1>2. \A i \in S : i \in Ids /\ queue[i].status = "pending"
  BY DEF Claimable, Due
<1>3. /\ pc[w] = "idle" /\ pc' = [pc EXCEPT ![w] = "send"]
      /\ UNCHANGED <<now, campaign, item, texts, doubtful, abandoned>>
  BY DEF GetNextBatch
<1>4. queue' \in [Ids -> Row]
  <2>1. \A r \in Row : Taken(r) \in Row
    BY DEF Row, Taken
  <2>. QED BY <1>1, <2>1 DEF QueueInv, TypeOK
<1>5. \A i \in Ids : /\ i \in S => queue'[i].status = "processing" /\ queue'[i].attempts = queue[i].attempts + 1
                     /\ i \notin S => queue'[i] = queue[i]
  BY <1>1 DEF Taken
<1>6. batch[w] = {} /\ batch' = [batch EXCEPT ![w] = S]
  BY <1>1, <1>3 DEF QueueInv, TypeOK, WorkersFollowTheLoop
<1>7. TypeOK'
  BY <1>1, <1>2, <1>3, <1>4, <1>6 DEF QueueInv, TypeOK
<1>8. CampaignsAreFresh'
  BY <1>2, <1>3, <1>5, <1>6 DEF QueueInv, TypeOK, Ids, CampaignsAreFresh
<1>9. RowsFollowTheirLife'
  BY <1>2, <1>3, <1>5, <1>6 DEF QueueInv, TypeOK, RowsFollowTheirLife, Untouched
<1>10. ProcessingIsHeld'
  BY <1>2, <1>3, <1>5, <1>6 DEF QueueInv, TypeOK, RowsFollowTheirLife, ProcessingIsHeld
<1>11. WorkersFollowTheLoop'
  BY <1>2, <1>3, <1>5, <1>6 DEF QueueInv, TypeOK, RowsFollowTheirLife, Untouched,
         WorkersFollowTheLoop
<1>12. OutcomeIsTrue'
  BY <1>2, <1>3, <1>5, <1>6 DEF QueueInv, TypeOK, OutcomeIsTrue
<1>. QED BY <1>7, <1>8, <1>9, <1>10, <1>11, <1>12 DEF QueueInv

\* The rows of a worker that stops are abandoned in processing.
LEMMA StopWorkingInv ==
  ASSUME QueueInv, NEW w \in Workers, StopWorking(w)
  PROVE  QueueInv'
<1>1. TypeOK'
  BY DEF QueueInv, TypeOK, StopWorking, Goto
<1>2. CampaignsAreFresh'
  BY DEF QueueInv, TypeOK, CampaignsAreFresh, StopWorking
<1>3. RowsFollowTheirLife'
  BY DEF QueueInv, TypeOK, RowsFollowTheirLife, Untouched, ProcessingIsHeld, StopWorking
<1>4. ProcessingIsHeld'
  BY DEF QueueInv, TypeOK, ProcessingIsHeld, StopWorking
<1>5. WorkersFollowTheLoop'
  BY DEF QueueInv, TypeOK, WorkersFollowTheLoop, StopWorking, Goto
<1>6. OutcomeIsTrue'
  BY DEF QueueInv, TypeOK, OutcomeIsTrue, StopWorking
<1>. QED BY <1>1, <1>2, <1>3, <1>4, <1>5, <1>6 DEF QueueInv

\* A row that is skipped was not sent.
LEMMA SkipItemInv ==
  ASSUME QueueInv, NEW w \in Workers, NEW i \in Ids, SkipItem(w, i)
  PROVE  QueueInv'
<1>1. TypeOK'
  <2>1. queue' \in [Ids -> Row]
    BY DEF QueueInv, TypeOK, Row, SkipItem
  <2>. QED
    BY <2>1 DEF QueueInv, TypeOK, SkipItem, Goto, NextItem
<1>2. CampaignsAreFresh'
  BY DEF QueueInv, TypeOK, CampaignsAreFresh, ProcessingIsHeld, SkipItem, IsHead
<1>3. RowsFollowTheirLife'
  BY DEF QueueInv, TypeOK, RowsFollowTheirLife, Untouched, ProcessingIsHeld, SkipItem,
         IsHead
<1>4. ProcessingIsHeld'
  BY DEF QueueInv, TypeOK, ProcessingIsHeld, SkipItem, NextItem, IsHead
<1>5. WorkersFollowTheLoop'
  BY DEF QueueInv, TypeOK, WorkersFollowTheLoop, SkipItem, Goto, NextItem
<1>6. OutcomeIsTrue'
  BY DEF QueueInv, TypeOK, WorkersFollowTheLoop, OutcomeIsTrue, SkipItem, IsHead
<1>. QED BY <1>1, <1>2, <1>3, <1>4, <1>5, <1>6 DEF QueueInv

\* Nothing was sent when the rendering raises.
LEMMA RenderRaisesInv ==
  ASSUME QueueInv, NEW w \in Workers, NEW i \in Ids, RenderRaises(w, i)
  PROVE  QueueInv'
<1>1. TypeOK'
  BY DEF QueueInv, TypeOK, RenderRaises, Goto
<1>2. CampaignsAreFresh'
  BY DEF QueueInv, TypeOK, CampaignsAreFresh, RenderRaises
<1>3. RowsFollowTheirLife'
  BY DEF QueueInv, TypeOK, RowsFollowTheirLife, Untouched, RenderRaises
<1>4. ProcessingIsHeld'
  BY DEF QueueInv, TypeOK, ProcessingIsHeld, RenderRaises
<1>5. WorkersFollowTheLoop'
  BY DEF QueueInv, TypeOK, WorkersFollowTheLoop, RenderRaises, Goto, IsHead
<1>6. OutcomeIsTrue'
  BY DEF QueueInv, TypeOK, OutcomeIsTrue, RenderRaises
<1>. QED BY <1>1, <1>2, <1>3, <1>4, <1>5, <1>6 DEF QueueInv

\* The first and only text of a row.
LEMMA SendTextInv ==
  ASSUME QueueInv, NEW w \in Workers, NEW i \in Ids, SendText(w, i)
  PROVE  QueueInv'
<1>1. TypeOK'
  <2>1. texts' \in [Ids -> Nat]
    BY DEF QueueInv, TypeOK, SendText
  <2>. QED
    BY <2>1 DEF QueueInv, TypeOK, SendText, Goto
<1>2. CampaignsAreFresh'
  BY DEF QueueInv, TypeOK, CampaignsAreFresh, SendText
<1>3. RowsFollowTheirLife'
  BY DEF QueueInv, TypeOK, RowsFollowTheirLife, Untouched, ProcessingIsHeld,
         WorkersFollowTheLoop, SendText, IsHead
<1>4. ProcessingIsHeld'
  BY DEF QueueInv, TypeOK, ProcessingIsHeld, SendText
<1>5. WorkersFollowTheLoop'
  BY DEF QueueInv, TypeOK, ProcessingIsHeld, WorkersFollowTheLoop, SendText, Goto, IsHead
<1>6. OutcomeIsTrue'
  BY DEF QueueInv, TypeOK, ProcessingIsHeld, OutcomeIsTrue, SendText, IsHead
<1>. QED BY <1>1, <1>2, <1>3, <1>4, <1>5, <1>6 DEF QueueInv

\* A row is doubtful once send_text raised.
LEMMA SendTextRaisesInv ==
  ASSUME QueueInv, NEW w \in Workers, NEW i \in Ids, SendTextRaises(w, i)
  PROVE  QueueInv'
<1>1. TypeOK'
  <2>1. texts' \in [Ids -> Nat]
    BY DEF QueueInv, TypeOK, SendTextRaises
  <2>. QED
    BY <2>1 DEF QueueInv, TypeOK, SendTextRaises, Goto
<1>2. CampaignsAreFresh'
  BY DEF QueueInv, TypeOK, CampaignsAreFresh, SendTextRaises
<1>3. RowsFollowTheirLife'
  BY DEF QueueInv, TypeOK, RowsFollowTheirLife, Untouched, ProcessingIsHeld,
         WorkersFollowTheLoop, SendTextRaises, IsHead
<1>4. ProcessingIsHeld'
  BY DEF QueueInv, TypeOK, ProcessingIsHeld, SendTextRaises
<1>5. WorkersFollowTheLoop'
  BY DEF QueueInv, TypeOK, ProcessingIsHeld, WorkersFollowTheLoop, SendTextRaises, Goto,
         IsHead
<1>6. OutcomeIsTrue'
  BY DEF QueueInv, TypeOK, WorkersFollowTheLoop, OutcomeIsTrue, SendTextRaises, IsHead
<1>. QED BY <1>1, <1>2, <1>3, <1>4, <1>5, <1>6 DEF QueueInv

\* A row is marked as sent after its text.
LEMMA MarkAsSentInv ==
  ASSUME QueueInv, NEW w \in Workers, NEW i \in Ids, MarkAsSent(w, i)
  PROVE  QueueInv'
<1>1. TypeOK'
  <2>1. queue' \in [Ids -> Row]
    BY DEF QueueInv, TypeOK, Row, MarkAsSent
  <2>. QED
    BY <2>1 DEF QueueInv, TypeOK, MarkAsSent, Goto, NextItem
<1>2. CampaignsAreFresh'
  BY DEF QueueInv, TypeOK, CampaignsAreFresh, ProcessingIsHeld, WorkersFollowTheLoop,
         MarkAsSent
<1>3. RowsFollowTheirLife'
  BY DEF QueueInv, TypeOK, RowsFollowTheirLife, Untouched, ProcessingIsHeld,
         WorkersFollowTheLoop, MarkAsSent
<1>4. ProcessingIsHeld'
  BY DEF QueueInv, TypeOK, ProcessingIsHeld, WorkersFollowTheLoop, MarkAsSent, NextItem
<1>5. WorkersFollowTheLoop'
  BY DEF QueueInv, TypeOK, WorkersFollowTheLoop, MarkAsSent, Goto, NextItem
<1>6. OutcomeIsTrue'
  BY DEF QueueInv, TypeOK, WorkersFollowTheLoop, OutcomeIsTrue, MarkAsSent
<1>. QED BY <1>1, <1>2, <1>3, <1>4, <1>5, <1>6 DEF QueueInv

\* A row is doubtful once mark_as_sent raised.
LEMMA MarkAsSentRaisesInv ==
  ASSUME QueueInv, NEW w \in Workers, NEW i \in Ids, MarkAsSentRaises(w, i)
  PROVE  QueueInv'
<1>1. TypeOK'
  BY DEF QueueInv, TypeOK, MarkAsSentRaises, Goto
<1>2. CampaignsAreFresh'
  BY DEF QueueInv, TypeOK, CampaignsAreFresh, MarkAsSentRaises
<1>3. RowsFollowTheirLife'
  BY DEF QueueInv, TypeOK, RowsFollowTheirLife, Untouched, WorkersFollowTheLoop,
         MarkAsSentRaises
<1>4. ProcessingIsHeld'
  BY DEF QueueInv, TypeOK, ProcessingIsHeld, MarkAsSentRaises
<1>5. WorkersFollowTheLoop'
  BY DEF QueueInv, TypeOK, WorkersFollowTheLoop, MarkAsSentRaises, Goto
<1>6. OutcomeIsTrue'
  BY DEF QueueInv, TypeOK, OutcomeIsTrue, MarkAsSentRaises
<1>. QED BY <1>1, <1>2, <1>3, <1>4, <1>5, <1>6 DEF QueueInv

\* A row that failed is doubtful or was not sent.
LEMMA MarkAsFailedInv ==
  ASSUME QueueInv, NEW w \in Workers, NEW i \in Ids, MarkAsFailed(w, i)
  PROVE  QueueInv'
<1>1. TypeOK'
  <2>1. queue' \in [Ids -> Row]
    BY DEF QueueInv, TypeOK, Row, MarkAsFailed
  <2>. QED
    BY <2>1 DEF QueueInv, TypeOK, MarkAsFailed, Goto, NextItem
<1>2. CampaignsAreFresh'
  BY DEF QueueInv, TypeOK, CampaignsAreFresh, ProcessingIsHeld, WorkersFollowTheLoop,
         MarkAsFailed
<1>3. RowsFollowTheirLife'
  BY DEF QueueInv, TypeOK, RowsFollowTheirLife, Untouched, ProcessingIsHeld,
         WorkersFollowTheLoop, MarkAsFailed
<1>4. ProcessingIsHeld'
  BY DEF QueueInv, TypeOK, ProcessingIsHeld, WorkersFollowTheLoop, MarkAsFailed, NextItem
<1>5. WorkersFollowTheLoop'
  BY DEF QueueInv, TypeOK, WorkersFollowTheLoop, MarkAsFailed, Goto, NextItem
<1>6. OutcomeIsTrue'
  BY DEF QueueInv, TypeOK, WorkersFollowTheLoop, OutcomeIsTrue, MarkAsFailed
<1>. QED BY <1>1, <1>2, <1>3, <1>4, <1>5, <1>6 DEF QueueInv

-----------------------------------------------------------------------------
\* Every step keeps the invariant.
LEMMA QueueStep ==
  ASSUME QueueInv, [Next]_vars
  PROVE  QueueInv'
<1>1. CASE UNCHANGED vars
  BY <1>1 DEF vars, QueueInv, TypeOK, CampaignsAreFresh, RowsFollowTheirLife, Untouched,
         ProcessingIsHeld, WorkersFollowTheLoop, OutcomeIsTrue
<1>2. CASE Next
  BY <1>2, ScheduleCampaignInv, EnqueueLeadInv, EndCampaignInv,
           TickInv, GetNextBatchInv, StopWorkingInv,
           SkipItemInv, RenderRaisesInv, SendTextInv,
           SendTextRaisesInv, MarkAsSentInv, MarkAsSentRaisesInv,
           MarkAsFailedInv DEF Next, ItemStep
<1>. QED BY <1>1, <1>2

\* In every reachable state the rows follow their life, and what a worker
\* knows of its items is true: run_once and schedule_campaign together, for
\* any number of them.
THEOREM QueueInvariant == Spec => []QueueInv
<1>1. Init => QueueInv
  BY QueueInit
<1>2. QueueInv /\ [Next]_vars => QueueInv'
  BY QueueStep
<1>. QED BY <1>1, <1>2, PTL DEF Spec

\* A campaign reaches a customer at most once: get_next_batch takes a row
\* once, and no error of run_once puts it back.
THEOREM OneTextEver == Spec => []OneTextPerCampaign
<1>1. QueueInv => OneTextPerCampaign
  BY DEF QueueInv, RowsFollowTheirLife, OneTextPerCampaign
<1>. QED BY <1>1, QueueInvariant, PTL

\* The outcome mark_as_sent and mark_as_failed record is the truth, unless
\* send_text or mark_as_sent raised for the row.
THEOREM OutcomeTruth == Spec => []OutcomeIsTrue
<1>1. QueueInv => OutcomeIsTrue
  BY DEF QueueInv
<1>. QED BY <1>1, QueueInvariant, PTL

\* A row in processing is held by exactly one run_once, or was abandoned by
\* the one that held it.
THEOREM HeldRows == Spec => []ProcessingIsHeld
<1>1. QueueInv => ProcessingIsHeld
  BY DEF QueueInv
<1>. QED BY <1>1, QueueInvariant, PTL
=============================================================================
