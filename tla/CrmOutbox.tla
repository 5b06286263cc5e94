------------------------------- MODULE CrmOutbox -------------------------------
(***************************************************************************)
(* The transactional outbox between the conversation pipeline and the CRM: *)
(* the table crm_outbox with its partial unique index, the dead-letter     *)
(* table crm_dlq (adapters/storage/repositories/crm_outbox_repo.py) and    *)
(* the CRMSyncWorkers that drain it (core/services/crm_worker.py), started *)
(* by the scheduler every 30 s (infra/scheduler.py) in each process of the *)
(* service.                                                                *)
(*                                                                         *)
(* Every repository call is one SERIALIZABLE transaction, so it is one     *)
(* step; everything between two calls of a worker is an interleaving       *)
(* point.  A payload is abstracted to its version, the number of           *)
(* enqueue_operation calls made so far for its key.                        *)
(***************************************************************************)
EXTENDS Naturals, FiniteSets

CONSTANTS
    Keys,         \* pairs (aggregate_id, operation)
    Workers,      \* process_batch activations that may overlap
    BatchSize,    \* the limit of get_pending_batch (10 in the scheduler)
    MaxRows,      \* bound: rows ever inserted
    MaxVersion,   \* bound: enqueue_operation calls per key
    Faults        \* which failures may happen: "crm", "db", "crash"

ASSUME OutboxConstants ==
    /\ Keys # {}
    /\ BatchSize \in Nat \ {0}
    /\ MaxRows \in Nat
    /\ MaxVersion \in Nat
    /\ Faults \subseteq {"crm", "db", "crash"}

VARIABLES
    rows,      \* crm_outbox, by insertion order (the order of created_at)
    dlq,       \* number of crm_dlq entries whose original_outbox_id is the row
    batch,     \* the items a worker still has in its process_batch loop
    pc,        \* where the worker is in the body of that loop
    latest,    \* last version enqueued for each key
    crm,       \* version the CRM holds for each key
    applied,   \* history: versions the CRM has applied
    tries      \* history: dispatches of the row's present payload

vars == <<rows, dlq, batch, pc, latest, crm, applied, tries>>

-----------------------------------------------------------------------------
Ids == 1..MaxRows

Statuses == {"absent", "pending", "processing", "done", "dlq"}

\* next_retry_at is abstracted to whether it has passed (or is NULL).
Row == [key : Keys, payload : Nat, status : Statuses, attempts : Nat, next_retry_at : {"due", "later"}]

\* The OutboxItem copies a worker got from get_pending_batch.
Item == [id : Ids, key : Keys, payload : Nat, attempts : Nat]

\* "if next_attempt < 3" in process_batch.
MaxAttempts == 3

Pending(i) == rows[i].status = "pending"
Processing(i) == rows[i].status = "processing"
Settled(i) == rows[i].status \in {"done", "dlq"}

\* Mutant: processing rows are taken again, as if the claim could expire.
ClaimableTwice == {i \in Ids : Pending(i) \/ Processing(i)}

\* Mutant: only rows that never failed are taken.
ClaimableFirstTry == {i \in Ids : Pending(i) /\ rows[i].attempts = 0}

\* The rows get_pending_batch may return.
Claimable == {i \in Ids : Pending(i) /\ rows[i].next_retry_at = "due"}

\* An item of the batch is worked on when all older ones are finished:
\* the batch is ordered by created_at.
IsHead(w, it) == /\ it \in batch[w]
                 /\ \A o \in batch[w] : it.id <= o.id

\* Mutant: the partial unique index is missing.
IndexConflictIgnored(i) == FALSE

\* uq_crm_outbox_pending_operation would reject a second pending row.
IndexConflict(i) == \E j \in Ids \ {i} : Pending(j) /\ rows[j].key = rows[i].key

AbsentRow == [key |-> CHOOSE k \in Keys : TRUE, payload |-> 0, status |-> "absent",
              attempts |-> 0, next_retry_at |-> "due"]

Init ==
    /\ rows = [i \in Ids |-> AbsentRow]
    /\ dlq = [i \in Ids |-> 0]
    /\ batch = [w \in Workers |-> {}]
    /\ pc = [w \in Workers |-> "idle"]
    /\ latest = [k \in Keys |-> 0]
    /\ crm = [k \in Keys |-> 0]
    /\ applied = [k \in Keys |-> {}]
    /\ tries = [i \in Ids |-> 0]

-----------------------------------------------------------------------------
(***************************************************************************)
(* Producers: the inbound handler and the FSM actions.                     *)
(***************************************************************************)

\* INSERT ... : no pending row of the key exists, a new row is created.
EnqueueInsert(k, i) ==
    /\ rows[i].status = "absent"
    /\ \A j \in Ids : j < i => rows[j].status # "absent"
    /\ ~ \E j \in Ids : Pending(j) /\ rows[j].key = k
    /\ rows' = [rows EXCEPT ![i] = [key |-> k, payload |-> latest[k] + 1,
                                    status |-> "pending", attempts |-> 0, next_retry_at |-> "due"]]
    /\ tries' = [tries EXCEPT ![i] = 0]

\* Mutant: the conflict is resolved against a row that is being processed too.
EnqueueCoalesceProcessing(k, i) ==
    /\ Pending(i) \/ Processing(i)
    /\ rows[i].key = k
    /\ rows' = [rows EXCEPT ![i].payload = latest[k] + 1,
                            ![i].attempts = 0, ![i].next_retry_at = "due"]
    /\ tries' = [tries EXCEPT ![i] = 0]

\* Mutant: ON CONFLICT DO NOTHING.
EnqueueCoalesceNothing(k, i) ==
    /\ Pending(i) /\ rows[i].key = k
    /\ UNCHANGED <<rows, tries>>

\* ... ON CONFLICT DO UPDATE: the pending row takes the new payload and
\* starts its retries afresh, keeping its id and created_at.
EnqueueCoalesce(k, i) ==
    /\ Pending(i) /\ rows[i].key = k
    /\ rows' = [rows EXCEPT ![i].payload = latest[k] + 1,
                            ![i].attempts = 0, ![i].next_retry_at = "due"]
    /\ tries' = [tries EXCEPT ![i] = 0]

\* enqueue_operation
Enqueue(k) ==
    /\ latest[k] < MaxVersion
    /\ \E i \in Ids : EnqueueInsert(k, i) \/ EnqueueCoalesce(k, i)
    /\ latest' = [latest EXCEPT ![k] = @ + 1]
    /\ UNCHANGED <<dlq, batch, pc, crm, applied>>

\* Time passes next_retry_at of a row waiting for its retry.
RetryTimePasses(i) ==
    /\ Pending(i) /\ rows[i].next_retry_at = "later"
    /\ rows' = [rows EXCEPT ![i].next_retry_at = "due"]
    /\ UNCHANGED <<dlq, batch, pc, latest, crm, applied, tries>>

-----------------------------------------------------------------------------
(***************************************************************************)
(* CRMSyncWorker.process_batch                                             *)
(***************************************************************************)

\* get_pending_batch: the BatchSize oldest rows that are due, all at once.
ClaimBatch(w) ==
    /\ pc[w] = "idle"
    /\ \E S \in SUBSET Claimable :
        /\ S # {}
        /\ Cardinality(S) <= BatchSize
        /\ S # Claimable => Cardinality(S) = BatchSize
        /\ \A i \in S, j \in Claimable \ S : i < j
        /\ rows' = [i \in Ids |-> IF i \in S THEN [rows[i] EXCEPT !.status = "processing"]
                                  ELSE rows[i]]
        /\ batch' = [batch EXCEPT ![w] =
                        {[id |-> i, key |-> rows[i].key, payload |-> rows[i].payload,
                          attempts |-> rows[i].attempts] : i \in S}]
    /\ pc' = [pc EXCEPT ![w] = "dispatch"]
    /\ UNCHANGED <<dlq, latest, crm, applied, tries>>

\* What _dispatch_operation does to the CRM when the call takes effect.
ApplyToCrm(it) ==
    /\ crm' = [crm EXCEPT ![it.key] = it.payload]
    /\ applied' = [applied EXCEPT ![it.key] = @ \cup {it.payload}]

\* _dispatch_operation returns: the CRM has applied the payload.
DispatchOk(w, it) ==
    /\ pc[w] = "dispatch" /\ IsHead(w, it)
    /\ ApplyToCrm(it)
    /\ tries' = [tries EXCEPT ![it.id] = @ + 1]
    /\ pc' = [pc EXCEPT ![w] = "mark_done"]
    /\ UNCHANGED <<rows, dlq, batch, latest>>

\* Mutant: the error of the CRM is swallowed and the item goes on to mark_as_done.
DispatchRaisesSwallowed(w, it) ==
    /\ "crm" \in Faults
    /\ pc[w] = "dispatch" /\ IsHead(w, it)
    /\ tries' = [tries EXCEPT ![it.id] = @ + 1]
    /\ pc' = [pc EXCEPT ![w] = "mark_done"]
    /\ UNCHANGED <<rows, dlq, batch, latest, crm, applied>>

\* _dispatch_operation raises: an unsupported operation or a missing field
\* (no effect), an error of the CRM, or an answer lost after the effect.
DispatchRaises(w, it) ==
    /\ "crm" \in Faults
    /\ pc[w] = "dispatch" /\ IsHead(w, it)
    /\ ApplyToCrm(it) \/ UNCHANGED <<crm, applied>>
    /\ tries' = [tries EXCEPT ![it.id] = @ + 1]
    /\ pc' = [pc EXCEPT ![w] = "failed"]
    /\ UNCHANGED <<rows, dlq, batch, latest>>

\* The loop goes on with the next item, or process_batch ends with
\* _check_dlq_alerts, which only logs.
NextItem(w, it) ==
    /\ batch' = [batch EXCEPT ![w] = @ \ {it}]
    /\ pc' = [pc EXCEPT ![w] = IF batch[w] = {it} THEN "idle" ELSE "dispatch"]

\* mark_as_done
MarkAsDone(w, it) ==
    /\ pc[w] = "mark_done" /\ IsHead(w, it)
    /\ rows' = [rows EXCEPT ![it.id].status = "done", ![it.id].next_retry_at = "due"]
    /\ NextItem(w, it)
    /\ UNCHANGED <<dlq, latest, crm, applied, tries>>

\* Mutant: a mark that fails is answered by dispatching again, uncounted.
MarkAsDoneRaisesRedo(w, it) ==
    /\ "db" \in Faults
    /\ pc[w] = "mark_done" /\ IsHead(w, it)
    /\ pc' = [pc EXCEPT ![w] = "dispatch"]
    /\ UNCHANGED <<rows, dlq, batch, latest, crm, applied, tries>>

\* mark_as_done raises inside the try: the applied operation counts as failed.
MarkAsDoneRaises(w, it) ==
    /\ "db" \in Faults
    /\ pc[w] = "mark_done" /\ IsHead(w, it)
    /\ pc' = [pc EXCEPT ![w] = "failed"]
    /\ UNCHANGED <<rows, dlq, batch, latest, crm, applied, tries>>

\* Mutant: the status a failed item gets is not one the claim knows.
MarkAsFailedForGood(w, it) ==
    /\ pc[w] = "failed" /\ IsHead(w, it)
    /\ it.attempts + 1 < MaxAttempts
    /\ rows' = [rows EXCEPT ![it.id].status = "failed"]
    /\ NextItem(w, it)
    /\ UNCHANGED <<dlq, latest, crm, applied, tries>>

\* mark_as_failed_with_retry: back to pending, if the index allows it.
MarkAsFailedWithRetry(w, it) ==
    /\ pc[w] = "failed" /\ IsHead(w, it)
    /\ it.attempts + 1 < MaxAttempts
    /\ ~IndexConflict(it.id)
    /\ rows' = [rows EXCEPT ![it.id].status = "pending",
                            ![it.id].attempts = it.attempts + 1, ![it.id].next_retry_at = "later"]
    /\ NextItem(w, it)
    /\ UNCHANGED <<dlq, latest, crm, applied, tries>>

\* move_to_dlq: the crm_dlq entry and the status in one transaction.
MoveToDlq(w, it) ==
    /\ pc[w] = "failed" /\ IsHead(w, it)
    /\ it.attempts + 1 >= MaxAttempts
    /\ dlq' = [dlq EXCEPT ![it.id] = @ + 1]
    /\ rows' = [rows EXCEPT ![it.id].status = "dlq"]
    /\ NextItem(w, it)
    /\ UNCHANGED <<latest, crm, applied, tries>>

\* The repository call of the except clause raises: nothing catches it in
\* process_batch, which ends; the scheduler logs crm_sync_worker_run_failed.
\* The unique index makes mark_as_failed_with_retry raise when the key has
\* been enqueued again since the claim.
BatchAborts(w, it) ==
    /\ pc[w] = "failed" /\ IsHead(w, it)
    /\ \/ "db" \in Faults
       \/ it.attempts + 1 < MaxAttempts /\ IndexConflict(it.id)
    /\ batch' = [batch EXCEPT ![w] = {}]
    /\ pc' = [pc EXCEPT ![w] = "idle"]
    /\ UNCHANGED <<rows, dlq, latest, crm, applied, tries>>

\* The process is killed; the scheduler of its successor starts over.
Crash(w) ==
    /\ "crash" \in Faults
    /\ pc[w] # "idle"
    /\ batch' = [batch EXCEPT ![w] = {}]
    /\ pc' = [pc EXCEPT ![w] = "idle"]
    /\ UNCHANGED <<rows, dlq, latest, crm, applied, tries>>

\* One pass through the body of process_batch's loop for an item.
ItemStep(w, it) ==
    \/ DispatchOk(w, it)
    \/ DispatchRaises(w, it)
    \/ MarkAsDone(w, it)
    \/ MarkAsDoneRaises(w, it)
    \/ MarkAsFailedWithRetry(w, it)
    \/ MoveToDlq(w, it)
    \/ BatchAborts(w, it)

ProcessItem(w) == \E it \in batch[w] : ItemStep(w, it)

Next ==
    \/ \E k \in Keys : Enqueue(k)
    \/ \E i \in Ids : RetryTimePasses(i)
    \/ \E w \in Workers : ClaimBatch(w) \/ ProcessItem(w) \/ Crash(w)

Spec == Init /\ [][Next]_vars

(***************************************************************************)
(* The scheduler starts process_batch every 30 s, the event loop runs it   *)
(* to its end, and time passes.  Producers and faults are not fair.        *)
(***************************************************************************)
Fairness ==
    /\ \A w \in Workers : WF_vars(ClaimBatch(w)) /\ WF_vars(ProcessItem(w))
    /\ \A i \in Ids : WF_vars(RetryTimePasses(i))

FairSpec == Spec /\ Fairness

-----------------------------------------------------------------------------
(***************************************************************************)
(* Properties                                                              *)
(***************************************************************************)

\* The variables hold rows, counters and worker states of the right shape.
TypeOK ==
    /\ rows \in [Ids -> Row]
    /\ dlq \in [Ids -> Nat]
    /\ batch \in [Workers -> SUBSET Item]
    /\ pc \in [Workers -> {"idle", "dispatch", "mark_done", "failed"}]
    /\ latest \in [Keys -> Nat]
    /\ crm \in [Keys -> Nat]
    /\ applied \in [Keys -> SUBSET Nat]
    /\ tries \in [Ids -> Nat]

\* What a worker holds from get_pending_batch is its own and is not stale
\* when it is dispatched and marked, however long ago it was claimed: the
\* row is still "processing" with the claimed payload and attempts, and no
\* other worker has it.
ClaimsAreExclusive ==
    \A w \in Workers : \A it \in batch[w] :
        /\ Processing(it.id)
        /\ rows[it.id].key = it.key
        /\ rows[it.id].payload = it.payload
        /\ rows[it.id].attempts = it.attempts
        /\ \A v \in Workers : \A o \in batch[v] : o.id = it.id => v = w /\ o = it

\* A key never has two pending rows, so a producer's ON CONFLICT update
\* replaces all of the key's pending work: retries put rows back to
\* "pending" without looking for one that came after them.
PendingIsUnique ==
    \A i, j \in Ids : Pending(i) /\ Pending(j) /\ rows[i].key = rows[j].key => i = j

\* No payload is dispatched more than three times, through retries, lost
\* marks and aborted batches; a row is in crm_dlq exactly once, if and only
\* if all three dispatches of its last payload were spent.
RetryBudget ==
    \A i \in Ids :
        /\ tries[i] <= MaxAttempts
        /\ dlq[i] = (IF rows[i].status = "dlq" THEN 1 ELSE 0)
        /\ rows[i].status = "dlq" => tries[i] = MaxAttempts

\* The newest version of a key is never lost without a trace: the CRM has
\* applied it, or a row that is not done still carries it.
NewestVersionIsTracked ==
    \A k \in Keys : latest[k] > 0 =>
        \/ latest[k] \in applied[k]
        \/ \E i \in Ids : /\ rows[i].key = k /\ rows[i].payload = latest[k]
                          /\ rows[i].status \in {"pending", "processing", "dlq"}

\* A done row was applied: mark_as_done is reached only after a dispatch of
\* the payload the row still has.
DoneWasApplied ==
    \A i \in Ids : rows[i].status = "done" => rows[i].payload \in applied[rows[i].key]

\* No step takes a row out of "done" or "dlq", whichever worker, retry or
\* enqueue_operation comes late.
SettledIsFinal ==
    [][\A i \in Ids : Settled(i) => rows'[i] = rows[i]]_vars

\* The bookkeeping behind RetryBudget and DoneWasApplied: a row that waits or
\* is being worked on has spent exactly the dispatches its attempts counter
\* says, one more while the worker has not recorded the last one, and the
\* counter stays below the limit.
AttemptsAreCounted ==
    /\ \A i \in Ids :
        /\ rows[i].status \in {"pending", "processing"} => rows[i].attempts < MaxAttempts
        /\ Pending(i) => tries[i] = rows[i].attempts
    /\ \A w \in Workers : \A it \in batch[w] :
        LET dispatched == pc[w] \in {"mark_done", "failed"} /\ IsHead(w, it)
        IN  /\ dispatched => tries[it.id] = it.attempts + 1
            /\ ~dispatched => tries[it.id] = it.attempts
            /\ dispatched /\ pc[w] = "mark_done" => it.payload \in applied[it.key]

\* Why one worker cannot move the CRM backwards: a pending row carries the
\* newest version; a claimed one is not older than the CRM's, and if it is
\* not the newest, the newest is pending behind it, where the unique index
\* stops the claimed one from becoming pending again.
VersionsAreOrdered ==
    /\ \A k \in Keys : crm[k] <= latest[k]
    /\ \A i \in Ids : Pending(i) => rows[i].payload = latest[rows[i].key]
    /\ \A w \in Workers : \A it \in batch[w] :
        /\ crm[it.key] <= it.payload
        /\ it.payload <= latest[it.key]
        /\ \/ it.payload = latest[it.key]
           \/ \E j \in Ids : Pending(j) /\ rows[j].key = it.key
        /\ \A o \in batch[w] : o.key = it.key => o = it

\* With one process_batch at a time the CRM never goes back to an older
\* version of a key: the outbox implements CrmRegister.
Register == INSTANCE CrmRegister
RefinesCrmRegister == Register!Spec

\* The order by created_at starves nobody: every pending row is eventually
\* claimed, although rows of other keys keep arriving, retries come back
\* and batches abort.
PendingIsClaimed == \A i \in Ids : Pending(i) ~> ~Pending(i)

\* The retry contract of the port (core/ports/repositories.py:138-144): an
\* operation a worker has taken is being worked on, or it has been put back
\* to "pending" with its retry metadata, finished or moved to crm_dlq.
NoRowIsStranded ==
    \A i \in Ids : Processing(i) => \E w \in Workers : \E it \in batch[w] : it.id = i
=============================================================================
