----------------------------- MODULE OutboundQueue -----------------------------
(***************************************************************************)
(* Campaigns: CampaignAgent.schedule_campaign (core/services/campaign_     *)
(* agent.py) fills the table outbound_queue with one row per dormant lead, *)
(* and CampaignWorker.run_once (core/services/campaign_worker.py) sends    *)
(* what is due.  run_once is started by the scheduler of every process and *)
(* by POST /api/v1/campaigns/run, so any number of them may overlap.       *)
(*                                                                         *)
(* Every repository call (outbound_queue_repo.py) is one transaction and   *)
(* one step.  All rows have priority 1, the only one a producer uses.      *)
(***************************************************************************)
EXTENDS Naturals, FiniteSets

CONSTANTS
    Campaigns,    \* schedule_campaign calls, each with a campaign_id of its own
    Leads,        \* lead profiles
    Workers,      \* run_once activations that may overlap
    BatchSize,    \* limit of get_next_batch (10 in production)
    MaxTime,      \* bound: minutes of the clock
    Faults        \* which calls may raise: "wa", "db"; "crash"

ASSUME QueueConstants ==
    /\ BatchSize \in Nat \ {0}
    /\ MaxTime \in Nat
    /\ Faults \subseteq {"wa", "db", "crash"}

VARIABLES
    now,        \* the clock, in minutes
    campaign,   \* where each schedule_campaign is: its leads left and its next slot
    queue,      \* outbound_queue: the row of a campaign and a lead
    batch,      \* the items a worker still has in its run_once loop
    pc,         \* where the worker is in the body of that loop
    item,       \* the item of the turn, from the call of send_text: {} or {i}
    texts,      \* history: texts of the row that reached the customer
    doubtful,   \* history: rows whose send_text or mark_as_sent raised
    abandoned   \* history: rows a worker took and stopped working on

vars == <<now, campaign, queue, batch, pc, item, texts, doubtful, abandoned>>

-----------------------------------------------------------------------------
Ids == Campaigns \X Leads

Row == [status : {"absent", "pending", "processing", "sent", "failed"},
        attempts : Nat, scheduled_at : Nat]

Campaign == [pc : {"new", "enqueue", "ended"}, leads : SUBSET Leads, slot : Nat]

Due(i) == queue[i].status = "pending" /\ queue[i].scheduled_at <= now

Settled(i) == queue[i].status \in {"sent", "failed"}

Init ==
    /\ now = 0
    /\ campaign = [c \in Campaigns |-> [pc |-> "new", leads |-> {}, slot |-> 0]]
    /\ queue = [i \in Ids |-> [status |-> "absent", attempts |-> 0, scheduled_at |-> 0]]
    /\ batch = [w \in Workers |-> {}]
    /\ pc = [w \in Workers |-> "idle"]
    /\ item = [w \in Workers |-> {}]
    /\ texts = [i \in Ids |-> 0]
    /\ doubtful = {}
    /\ abandoned = {}

-----------------------------------------------------------------------------
(***************************************************************************)
(* CampaignAgent.schedule_campaign                                         *)
(***************************************************************************)

\* get_dormant_leads returns D; the slots are a minute apart, from now on.
ScheduleCampaign(c, D) ==
    /\ campaign[c].pc = "new"
    /\ now + Cardinality(D) <= MaxTime
    /\ campaign' = [campaign EXCEPT ![c] = [pc |-> "enqueue", leads |-> D, slot |-> now]]
    /\ UNCHANGED <<now, queue, batch, pc, item, texts, doubtful, abandoned>>

\* enqueue, for the next lead of the loop.
EnqueueLead(c, l) ==
    /\ campaign[c].pc = "enqueue" /\ l \in campaign[c].leads
    /\ queue' = [queue EXCEPT ![<<c, l>>] =
                    [status |-> "pending", attempts |-> 0, scheduled_at |-> campaign[c].slot]]
    /\ campaign' = [campaign EXCEPT ![c] =
                    [pc |-> @.pc, leads |-> @.leads \ {l}, slot |-> @.slot + 1]]
    /\ UNCHANGED <<now, batch, pc, item, texts, doubtful, abandoned>>

\* The loop is over, or enqueue raises, or the process stops: the rest of
\* the leads get no row.
EndCampaign(c) ==
    /\ campaign[c].pc = "enqueue"
    /\ campaign[c].leads = {} \/ Faults \cap {"db", "crash"} # {}
    /\ campaign' = [campaign EXCEPT ![c] = [pc |-> "ended", leads |-> {}, slot |-> @.slot]]
    /\ UNCHANGED <<now, queue, batch, pc, item, texts, doubtful, abandoned>>

Tick ==
    /\ now < MaxTime
    /\ now' = now + 1
    /\ UNCHANGED <<campaign, queue, batch, pc, item, texts, doubtful, abandoned>>

-----------------------------------------------------------------------------
(***************************************************************************)
(* CampaignWorker.run_once                                                 *)
(***************************************************************************)

\* Mutant: rows that are being processed are taken as well.
ClaimableTwice == {i \in Ids : Due(i) \/ queue[i].status = "processing"}

\* The rows get_next_batch may return.
Claimable == {i \in Ids : Due(i)}

\* A row that was taken.
Taken(row) == [status |-> "processing", attempts |-> row.attempts + 1,
               scheduled_at |-> row.scheduled_at]

\* get_next_batch: the BatchSize rows with the earliest scheduled_at.
GetNextBatch(w) ==
    /\ pc[w] = "idle"
    /\ \E S \in SUBSET Claimable :
        /\ S # {}
        /\ Cardinality(S) <= BatchSize
        /\ S # Claimable => Cardinality(S) = BatchSize
        /\ \A i \in S, j \in Claimable \ S : queue[i].scheduled_at <= queue[j].scheduled_at
        /\ queue' = [i \in Ids |-> IF i \in S
                                   THEN Taken(queue[i])
                                   ELSE queue[i]]
        /\ batch' = [batch EXCEPT ![w] = S]
    /\ pc' = [pc EXCEPT ![w] = "send"]
    /\ UNCHANGED <<now, campaign, item, texts, doubtful, abandoned>>

\* The item of the loop's present turn: the batch is in scheduled_at order.
IsHead(w, i) == /\ i \in batch[w]
                /\ \A j \in batch[w] : queue[i].scheduled_at <= queue[j].scheduled_at

Goto(w, label) == pc' = [pc EXCEPT ![w] = label]

\* The next turn of the loop, or the end of run_once.
NextItem(w, i) ==
    /\ batch' = [batch EXCEPT ![w] = @ \ {i}]
    /\ item' = [item EXCEPT ![w] = {}]
    /\ Goto(w, IF batch[w] = {i} THEN "idle" ELSE "send")

\* The message renders to nothing, and the row is marked as failed.
SkipItem(w, i) ==
    /\ pc[w] = "send" /\ IsHead(w, i)
    /\ queue' = [queue EXCEPT ![i].status = "failed"]
    /\ NextItem(w, i)
    /\ UNCHANGED <<now, campaign, texts, doubtful, abandoned>>

\* _render_message raises, or mark_as_failed does, before anything is sent.
RenderRaises(w, i) ==
    /\ pc[w] = "send" /\ IsHead(w, i)
    /\ item' = [item EXCEPT ![w] = {i}]
    /\ Goto(w, "failed")
    /\ UNCHANGED <<now, campaign, queue, batch, texts, doubtful, abandoned>>

\* send_text returns.
SendText(w, i) ==
    /\ pc[w] = "send" /\ IsHead(w, i)
    /\ texts' = [texts EXCEPT ![i] = @ + 1]
    /\ item' = [item EXCEPT ![w] = {i}]
    /\ Goto(w, "mark_sent")
    /\ UNCHANGED <<now, campaign, queue, batch, doubtful, abandoned>>

\* Mutant: an error of send_text is taken for a success.
SendTextRaisesSwallowed(w, i) ==
    /\ "wa" \in Faults
    /\ pc[w] = "send" /\ IsHead(w, i)
    /\ item' = [item EXCEPT ![w] = {i}]
    /\ Goto(w, "mark_sent")
    /\ UNCHANGED <<now, campaign, queue, batch, texts, doubtful, abandoned>>

\* send_text raises; the text may have been delivered all the same.
SendTextRaises(w, i) ==
    /\ "wa" \in Faults
    /\ pc[w] = "send" /\ IsHead(w, i)
    /\ \E n \in {0, 1} : texts' = [texts EXCEPT ![i] = @ + n]
    /\ doubtful' = doubtful \cup {i}
    /\ item' = [item EXCEPT ![w] = {i}]
    /\ Goto(w, "failed")
    /\ UNCHANGED <<now, campaign, queue, batch, abandoned>>

\* mark_as_sent
MarkAsSent(w, i) ==
    /\ pc[w] = "mark_sent" /\ item[w] = {i}
    /\ queue' = [queue EXCEPT ![i].status = "sent"]
    /\ NextItem(w, i)
    /\ UNCHANGED <<now, campaign, texts, doubtful, abandoned>>

\* Mutant: the row is put back and sent again by a later run.
MarkAsSentRaisesRequeue(w, i) ==
    /\ "db" \in Faults
    /\ pc[w] = "mark_sent" /\ item[w] = {i}
    /\ queue' = [queue EXCEPT ![i].status = "pending"]
    /\ doubtful' = doubtful \cup {i}
    /\ NextItem(w, i)
    /\ UNCHANGED <<now, campaign, texts, abandoned>>

\* mark_as_sent raises inside the try: what was sent counts as failed.
MarkAsSentRaises(w, i) ==
    /\ "db" \in Faults
    /\ pc[w] = "mark_sent" /\ item[w] = {i}
    /\ doubtful' = doubtful \cup {i}
    /\ Goto(w, "failed")
    /\ UNCHANGED <<now, campaign, queue, batch, item, texts, abandoned>>

\* Mutant: the exception is logged, and the row left as it is.
MarkAsFailedForgotten(w, i) ==
    /\ pc[w] = "failed" /\ item[w] = {i}
    /\ NextItem(w, i)
    /\ UNCHANGED <<now, campaign, queue, texts, doubtful, abandoned>>

\* mark_as_failed, in the except clause.
MarkAsFailed(w, i) ==
    /\ pc[w] = "failed" /\ item[w] = {i}
    /\ queue' = [queue EXCEPT ![i].status = "failed"]
    /\ NextItem(w, i)
    /\ UNCHANGED <<now, campaign, texts, doubtful, abandoned>>

\* mark_as_failed raises in the except clause, and run_once with it; or the
\* process stops.  The rows of the batch stay in "processing".
StopWorking(w) ==
    /\ \/ "db" \in Faults /\ pc[w] = "failed"
       \/ "crash" \in Faults /\ pc[w] # "idle"
    /\ batch' = [batch EXCEPT ![w] = {}]
    /\ item' = [item EXCEPT ![w] = {}]
    /\ Goto(w, "idle")
    /\ abandoned' = abandoned \cup batch[w]
    /\ UNCHANGED <<now, campaign, queue, texts, doubtful>>

ItemStep(w, i) ==
    \/ SkipItem(w, i) \/ RenderRaises(w, i)
    \/ SendText(w, i) \/ SendTextRaises(w, i)
    \/ MarkAsSent(w, i) \/ MarkAsSentRaises(w, i)
    \/ MarkAsFailed(w, i)

Next ==
    \/ \E c \in Campaigns, D \in SUBSET Leads : ScheduleCampaign(c, D)
    \/ \E c \in Campaigns, l \in Leads : EnqueueLead(c, l)
    \/ \E c \in Campaigns : EndCampaign(c)
    \/ Tick
    \/ \E w \in Workers : GetNextBatch(w) \/ StopWorking(w)
    \/ \E w \in Workers, i \in Ids : ItemStep(w, i)

Spec == Init /\ [][Next]_vars

(***************************************************************************)
(* Time passes, the scheduler keeps starting run_once, and the event loop  *)
(* runs it to its end.  Campaigns and faults are not fair.                 *)
(***************************************************************************)
FairSpec ==
    /\ Spec
    /\ WF_vars(Tick)
    /\ \A w \in Workers : WF_vars(GetNextBatch(w)) /\ WF_vars(\E i \in Ids : ItemStep(w, i))

-----------------------------------------------------------------------------
\* The variables hold rows, batches and labels of the right shape.
TypeOK ==
    /\ now \in Nat
    /\ campaign \in [Campaigns -> Campaign]
    /\ queue \in [Ids -> Row]
    /\ batch \in [Workers -> SUBSET Ids]
    /\ pc \in [Workers -> {"idle", "send", "mark_sent", "failed"}]
    /\ item \in [Workers -> SUBSET Ids]
    /\ texts \in [Ids -> Nat]
    /\ doubtful \subseteq Ids
    /\ abandoned \subseteq Ids

\* A campaign reaches a customer at most once, whatever overlaps, raises or
\* stops: a row is taken once, and what failed is not tried again.
OneTextPerCampaign == \A i \in Ids : texts[i] <= 1 /\ queue[i].attempts <= 1

\* The status a row ends with is the truth: "sent" was delivered, and
\* "failed" was not, unless send_text or mark_as_sent itself raised.
OutcomeIsTrue ==
    \A i \in Ids :
        /\ queue[i].status = "sent" => texts[i] = 1
        /\ queue[i].status = "failed" /\ i \notin doubtful => texts[i] = 0

\* A row in "processing" is in the batch of exactly one worker, unless that
\* worker stopped before marking it; such a row has no other way out.
ProcessingIsHeld ==
    /\ \A i \in Ids : queue[i].status = "processing" =>
            i \in abandoned \/ \E w \in Workers : i \in batch[w]
    /\ \A w \in Workers : \A i \in batch[w] :
            /\ queue[i].status = "processing" /\ i \notin abandoned
            /\ \A v \in Workers : i \in batch[v] => v = w

\* Every row is sent or failed in the end, if its worker is not stopped: runs
\* that overlap, raise or end early leave none behind unseen.
RowsAreSettled == \A i \in Ids : queue[i].status = "pending" ~> Settled(i) \/ i \in abandoned
=============================================================================
