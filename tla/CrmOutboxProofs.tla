--------------------------- MODULE CrmOutboxProofs ---------------------------
(***************************************************************************)
(* Proofs about CrmOutbox, for any number of keys, workers and rows, any   *)
(* batch size and any of the failures.                                     *)
(***************************************************************************)
EXTENDS CrmOutbox, TLAPS

\* One step keeps the variables in their types.
LEMMA TypeStep == TypeOK /\ [Next]_vars => TypeOK'
<1> USE OutboxConstants
<1> SUFFICES ASSUME TypeOK, [Next]_vars PROVE TypeOK'
  OBVIOUS
<1> USE DEF TypeOK
<1>1. ASSUME NEW k \in Keys, Enqueue(k) PROVE TypeOK'
  <2>1. latest' \in [Keys -> Nat]
    BY <1>1 DEF Enqueue
  <2>2. PICK i \in Ids : EnqueueInsert(k, i) \/ EnqueueCoalesce(k, i)
    BY <1>1 DEF Enqueue
  <2>3. CASE EnqueueInsert(k, i)
    BY <2>1, <2>3, <1>1 DEF Enqueue, EnqueueInsert, Row, Statuses
  <2>4. CASE EnqueueCoalesce(k, i)
    BY <2>1, <2>4, <1>1 DEF Enqueue, EnqueueCoalesce, Row, Statuses
  <2> QED BY <2>2, <2>3, <2>4
<1>2. ASSUME NEW i \in Ids, RetryTimePasses(i) PROVE TypeOK'
  <2>1. [rows[i] EXCEPT !.next_retry_at = "due"] \in Row
    BY DEF Row, Statuses
  <2>2. rows' = [rows EXCEPT ![i] = [rows[i] EXCEPT !.next_retry_at = "due"]]
    BY <1>2 DEF RetryTimePasses
  <2>3. rows' \in [Ids -> Row]
    BY <2>1, <2>2
  <2> QED BY <1>2, <2>3 DEF RetryTimePasses
<1>3. ASSUME NEW w \in Workers, ClaimBatch(w) PROVE TypeOK'
  <2>1. PICK S \in SUBSET Claimable :
          /\ rows' = [i \in Ids |-> IF i \in S THEN [rows[i] EXCEPT !.status = "processing"]
                                    ELSE rows[i]]
          /\ batch' = [batch EXCEPT ![w] =
                          {[id |-> i, key |-> rows[i].key, payload |-> rows[i].payload,
                            attempts |-> rows[i].attempts] : i \in S}]
    BY <1>3 DEF ClaimBatch
  <2>2. S \subseteq Ids
    BY DEF Claimable
  <2>3. rows' \in [Ids -> Row]
    BY <2>1, <2>2 DEF Row, Statuses
  <2>4. {[id |-> i, key |-> rows[i].key, payload |-> rows[i].payload,
          attempts |-> rows[i].attempts] : i \in S} \subseteq Item
    BY <2>2 DEF Item, Row
  <2>5. batch' \in [Workers -> SUBSET Item]
    BY <2>1, <2>4
  <2> QED BY <2>3, <2>5, <1>3 DEF ClaimBatch
<1>4. ASSUME NEW w \in Workers, NEW it \in batch[w], ItemStep(w, it) PROVE TypeOK'
  <2>0. it \in Item
    OBVIOUS
  <2>1. CASE DispatchOk(w, it)
    BY <2>0, <2>1 DEF DispatchOk, ApplyToCrm, Item
  <2>2. CASE DispatchRaises(w, it)
    BY <2>0, <2>2 DEF DispatchRaises, ApplyToCrm, Item
  <2>3. CASE MarkAsDone(w, it)
    BY <2>0, <2>3 DEF MarkAsDone, NextItem, Item, Row, Statuses
  <2>4. CASE MarkAsDoneRaises(w, it)
    BY <2>4 DEF MarkAsDoneRaises
  <2>5. CASE MarkAsFailedWithRetry(w, it)
    BY <2>0, <2>5 DEF MarkAsFailedWithRetry, NextItem, Item, Row, Statuses
  <2>6. CASE MoveToDlq(w, it)
    BY <2>0, <2>6 DEF MoveToDlq, NextItem, Item, Row, Statuses
  <2>7. CASE BatchAborts(w, it)
    BY <2>7 DEF BatchAborts
  <2> QED BY <1>4, <2>1, <2>2, <2>3, <2>4, <2>5, <2>6, <2>7 DEF ItemStep
<1>5. ASSUME NEW w \in Workers, Crash(w) PROVE TypeOK'
  BY <1>5 DEF Crash
<1>6. CASE UNCHANGED vars
  BY <1>6 DEF vars
<1> QED BY <1>1, <1>2, <1>3, <1>4, <1>5, <1>6 DEF Next, ProcessItem

\* Every action leaves the variables in their types.
THEOREM TypeCorrect == Spec => []TypeOK
<1> USE OutboxConstants
<1>1. Init => TypeOK
  BY DEF Init, TypeOK, AbsentRow, Row, Statuses, Item
<1>2. TypeOK /\ [Next]_vars => TypeOK'
  BY TypeStep
<1> QED BY <1>1, <1>2, PTL DEF Spec

-----------------------------------------------------------------------------
\* The inductive invariant: the safety properties of CrmOutbox together with
\* the count of the dispatches each row has spent.
OutboxInv ==
    /\ TypeOK
    /\ ClaimsAreExclusive
    /\ PendingIsUnique
    /\ RetryBudget
    /\ DoneWasApplied
    /\ AttemptsAreCounted
    /\ NewestVersionIsTracked

\* enqueue_operation touches only a row that no worker holds.
LEMMA EnqueueKeepsInv ==
  ASSUME OutboxInv, TypeOK', NEW k \in Keys, Enqueue(k) PROVE OutboxInv'
<1> USE OutboxConstants
<1> USE DEF OutboxInv, Pending, Processing, MaxAttempts
<1>1. PICK i \in Ids : EnqueueInsert(k, i) \/ EnqueueCoalesce(k, i)
  BY DEF Enqueue
<1>2. /\ rows[i].status \in {"absent", "pending"}
      /\ rows'[i].status = "pending" /\ rows'[i].key = k
      /\ rows'[i].payload = latest'[k] /\ rows'[i].attempts = 0 /\ tries'[i] = 0
      /\ \A j \in Ids \ {i} : rows'[j] = rows[j] /\ tries'[j] = tries[j]
      /\ \A j \in Ids \ {i} : ~(rows[j].status = "pending" /\ rows[j].key = k)
  <2>1. CASE EnqueueInsert(k, i)
    BY <2>1 DEF EnqueueInsert, Enqueue, TypeOK, Row
  <2>2. CASE EnqueueCoalesce(k, i)
    BY <2>2 DEF EnqueueCoalesce, Enqueue, TypeOK, Row, PendingIsUnique
  <2> QED BY <1>1, <2>1, <2>2
<1>3. batch' = batch /\ pc' = pc /\ dlq' = dlq /\ applied' = applied
  BY DEF Enqueue
<1>4. \A w \in Workers : \A it \in batch[w] : it.id \in Ids /\ it.id # i
  BY <1>2 DEF ClaimsAreExclusive, TypeOK, Item
<1>5. ClaimsAreExclusive'
  BY <1>2, <1>3, <1>4 DEF ClaimsAreExclusive
<1>6. PendingIsUnique'
  BY <1>2 DEF PendingIsUnique
<1>7. RetryBudget'
  BY <1>2, <1>3 DEF RetryBudget
<1>8. DoneWasApplied'
  BY <1>2, <1>3 DEF DoneWasApplied
<1>9. AttemptsAreCounted'
  BY <1>2, <1>3, <1>4 DEF AttemptsAreCounted, IsHead
<1>10. NewestVersionIsTracked'
  <2> SUFFICES ASSUME NEW q \in Keys, latest'[q] > 0
               PROVE  \/ latest'[q] \in applied'[q]
                      \/ \E j \in Ids : /\ rows'[j].key = q /\ rows'[j].payload = latest'[q]
                                        /\ rows'[j].status \in {"pending", "processing", "dlq"}
    BY DEF NewestVersionIsTracked
  <2>1. CASE q = k
    BY <1>2, <2>1
  <2>2. CASE q # k
    <3>1. latest'[q] = latest[q]
      BY <2>2 DEF Enqueue, TypeOK
    <3>2. rows[i].status = "pending" => rows[i].key = k
      BY <1>1 DEF EnqueueInsert, EnqueueCoalesce
    <3> QED BY <1>2, <1>3, <2>2, <3>1, <3>2 DEF NewestVersionIsTracked
  <2> QED BY <2>1, <2>2
<1> QED BY <1>5, <1>6, <1>7, <1>8, <1>9, <1>10

\* A claimed row was pending, hence held by nobody.
LEMMA ClaimKeepsInv ==
  ASSUME OutboxInv, TypeOK', NEW w \in Workers, ClaimBatch(w) PROVE OutboxInv'
<1> USE OutboxConstants
<1> USE DEF OutboxInv, Pending, Processing, MaxAttempts
<1> DEFINE Copy(i) == [id |-> i, key |-> rows[i].key, payload |-> rows[i].payload,
                       attempts |-> rows[i].attempts]
<1>1. PICK S \in SUBSET Claimable :
        /\ rows' = [i \in Ids |-> IF i \in S THEN [rows[i] EXCEPT !.status = "processing"]
                                  ELSE rows[i]]
        /\ batch' = [batch EXCEPT ![w] = {Copy(i) : i \in S}]
  BY DEF ClaimBatch
<1>2. /\ \A i \in S : /\ i \in Ids /\ rows[i].status = "pending"
                      /\ rows'[i].status = "processing" /\ rows'[i].key = rows[i].key
                      /\ rows'[i].payload = rows[i].payload
                      /\ rows'[i].attempts = rows[i].attempts
      /\ \A i \in Ids \ S : rows'[i] = rows[i]
  BY <1>1 DEF Claimable, TypeOK, Row
<1>3. /\ pc'[w] = "dispatch" /\ \A v \in Workers \ {w} : pc'[v] = pc[v]
      /\ dlq' = dlq /\ applied' = applied /\ tries' = tries /\ latest' = latest
  BY DEF ClaimBatch, TypeOK
<1>4. /\ batch'[w] = {Copy(i) : i \in S}
      /\ \A v \in Workers \ {w} : batch'[v] = batch[v]
  BY <1>1 DEF TypeOK
<1>5. \A v \in Workers \ {w} : \A it \in batch'[v] : it \in batch[v] /\ it.id \in Ids \ S
  BY <1>2, <1>4 DEF ClaimsAreExclusive, TypeOK, Item
<1>6. \A it \in batch'[w] : it = Copy(it.id) /\ it.id \in S
  BY <1>4
<1>7. ClaimsAreExclusive'
  <2> SUFFICES ASSUME NEW v \in Workers, NEW it \in batch'[v]
               PROVE  /\ rows'[it.id].status = "processing"
                      /\ rows'[it.id].key = it.key
                      /\ rows'[it.id].payload = it.payload
                      /\ rows'[it.id].attempts = it.attempts
                      /\ \A u \in Workers : \A o \in batch'[u] : o.id = it.id => u = v /\ o = it
    BY DEF ClaimsAreExclusive
  <2>1. CASE v = w
    BY <1>2, <1>5, <1>6, <2>1
  <2>2. CASE v # w
    BY <1>2, <1>5, <1>6, <2>2 DEF ClaimsAreExclusive
  <2> QED BY <2>1, <2>2
<1>8. PendingIsUnique'
  BY <1>2 DEF PendingIsUnique
<1>9. RetryBudget'
  BY <1>2, <1>3 DEF RetryBudget
<1>10. DoneWasApplied'
  BY <1>2, <1>3 DEF DoneWasApplied
<1>11. AttemptsAreCounted'
  <2>1. \A i \in Ids :
          /\ rows'[i].status \in {"pending", "processing"} => rows'[i].attempts < 3
          /\ rows'[i].status = "pending" => tries'[i] = rows'[i].attempts
    BY <1>2, <1>3 DEF AttemptsAreCounted
  <2>2. \A it \in batch'[w] : tries'[it.id] = it.attempts
    BY <1>2, <1>3, <1>6 DEF AttemptsAreCounted
  <2>3. \A v \in Workers \ {w} : batch'[v] = batch[v] /\ pc'[v] = pc[v]
    BY <1>3, <1>4
  <2> QED BY <1>3, <2>1, <2>2, <2>3 DEF AttemptsAreCounted, IsHead
<1>12. NewestVersionIsTracked'
  BY <1>2, <1>3 DEF NewestVersionIsTracked
<1> QED BY <1>7, <1>8, <1>9, <1>10, <1>11, <1>12

\* A dispatch spends one try of the row its worker holds.
LEMMA DispatchKeepsInv ==
  ASSUME OutboxInv, TypeOK', NEW w \in Workers, NEW it \in batch[w],
         DispatchOk(w, it) \/ DispatchRaises(w, it)
  PROVE  OutboxInv'
<1> USE OutboxConstants
<1> USE DEF OutboxInv, Pending, Processing, MaxAttempts
<1>1. /\ pc[w] = "dispatch" /\ IsHead(w, it) /\ it \in Item
      /\ rows' = rows /\ batch' = batch /\ dlq' = dlq /\ latest' = latest
      /\ pc'[w] \in {"mark_done", "failed"} /\ \A v \in Workers \ {w} : pc'[v] = pc[v]
      /\ tries'[it.id] = tries[it.id] + 1
      /\ \A i \in Ids \ {it.id} : tries'[i] = tries[i]
  BY DEF DispatchOk, DispatchRaises, TypeOK, Item
<1>2. \A k \in Keys : applied[k] \subseteq applied'[k]
  BY <1>1 DEF DispatchOk, DispatchRaises, ApplyToCrm, TypeOK, Item
<1>3. pc'[w] = "mark_done" => it.payload \in applied'[it.key]
  BY <1>1 DEF DispatchOk, DispatchRaises, ApplyToCrm, TypeOK, Item
<1>4. tries[it.id] = it.attempts /\ it.attempts < 3 /\ rows[it.id].status = "processing"
  BY <1>1 DEF AttemptsAreCounted, ClaimsAreExclusive, Item
<1>5. ClaimsAreExclusive' /\ PendingIsUnique'
  BY <1>1 DEF ClaimsAreExclusive, PendingIsUnique
<1>6. RetryBudget'
  BY <1>1, <1>4 DEF RetryBudget, TypeOK, Item
<1>7. DoneWasApplied'
  BY <1>1, <1>2 DEF DoneWasApplied, TypeOK, Row
<1>8. AttemptsAreCounted'
  <2>1. \A i \in Ids :
          /\ rows'[i].status \in {"pending", "processing"} => rows'[i].attempts < 3
          /\ rows'[i].status = "pending" => tries'[i] = rows'[i].attempts
    BY <1>1, <1>4 DEF AttemptsAreCounted
  <2>2. ASSUME NEW v \in Workers, NEW o \in batch[v], o # it \/ v # w
        PROVE  /\ o.id # it.id /\ o.id \in Ids /\ o.key \in Keys
               /\ tries'[o.id] = tries[o.id]
               /\ v = w => ~IsHead(w, o)
    <3>1. o.id # it.id /\ o \in Item
      BY <2>2 DEF ClaimsAreExclusive, TypeOK
    <3> QED BY <1>1, <2>2, <3>1 DEF Item, Ids, IsHead
  <2>3. ASSUME NEW v \in Workers, NEW o \in batch[v]
        PROVE  LET dispatched == pc'[v] \in {"mark_done", "failed"} /\ IsHead(v, o)
               IN  /\ dispatched => tries'[o.id] = o.attempts + 1
                   /\ ~dispatched => tries'[o.id] = o.attempts
                   /\ dispatched /\ pc'[v] = "mark_done" => o.payload \in applied'[o.key]
    <3>1. CASE v = w /\ o = it
      BY <1>1, <1>3, <1>4, <3>1
    <3>2. CASE v = w /\ o # it
      BY <1>1, <2>2, <3>2 DEF AttemptsAreCounted
    <3>3. CASE v # w
      BY <1>1, <1>2, <2>2, <3>3 DEF AttemptsAreCounted
    <3> QED BY <3>1, <3>2, <3>3
  <2>4. \A v \in Workers : \A o \in batch[v] : IsHead(v, o)' <=> IsHead(v, o)
    BY <1>1 DEF IsHead
  <2> QED BY <1>1, <2>1, <2>3, <2>4 DEF AttemptsAreCounted
<1>9. NewestVersionIsTracked'
  BY <1>1, <1>2 DEF NewestVersionIsTracked
<1> QED BY <1>5, <1>6, <1>7, <1>8, <1>9

\* What a worker that has finished an item leaves behind: its other items
\* still wait for their dispatch, the items of others are as they were.
LEMMA NextItemLeaves ==
  ASSUME OutboxInv, NEW w \in Workers, NEW it \in batch[w], NextItem(w, it), IsHead(w, it),
         pc[w] \in {"mark_done", "failed"}
  PROVE  /\ it.id \in Ids /\ it.key \in Keys
         /\ batch'[w] = batch[w] \ {it} /\ pc'[w] \in {"idle", "dispatch"}
         /\ \A v \in Workers \ {w} : batch'[v] = batch[v] /\ pc'[v] = pc[v]
         /\ \A v \in Workers : \A o \in batch'[v] :
                /\ o \in batch[v] /\ o.id \in Ids /\ o.id # it.id
                /\ v = w => tries[o.id] = o.attempts
<1> USE DEF OutboxInv
<1>1. /\ it.id \in Ids /\ it.key \in Keys
      /\ batch'[w] = batch[w] \ {it} /\ pc'[w] \in {"idle", "dispatch"}
      /\ \A v \in Workers \ {w} : batch'[v] = batch[v] /\ pc'[v] = pc[v]
  BY DEF NextItem, TypeOK, Item
<1>2. ASSUME NEW v \in Workers, NEW o \in batch'[v]
      PROVE  /\ o \in batch[v] /\ o.id \in Ids /\ o.id # it.id
             /\ v = w => tries[o.id] = o.attempts
  <2>1. o \in batch[v] /\ ~(v = w /\ o = it)
    BY <1>1
  <2>2. o \in Item
    BY <2>1 DEF TypeOK
  <2>3. o.id # it.id
    BY <2>1 DEF ClaimsAreExclusive
  <2>4. v = w => ~IsHead(w, o)
    BY <2>2, <2>3, <1>1 DEF Item, Ids, IsHead
  <2> QED BY <2>1, <2>2, <2>3, <2>4 DEF AttemptsAreCounted, Item
<1> QED BY <1>1, <1>2

\* mark_as_done, mark_as_failed_with_retry and move_to_dlq change the status
\* of one row held by the worker, which lets go of it.
LEMMA MarkKeepsInv ==
  ASSUME OutboxInv, TypeOK', NEW w \in Workers, NEW it \in batch[w],
         MarkAsDone(w, it) \/ MarkAsFailedWithRetry(w, it) \/ MoveToDlq(w, it)
  PROVE  OutboxInv'
<1> USE OutboxConstants
<1> USE DEF OutboxInv, Pending, Processing, MaxAttempts
<1>1. /\ IsHead(w, it) /\ pc[w] \in {"mark_done", "failed"} /\ NextItem(w, it)
      /\ applied' = applied /\ tries' = tries /\ latest' = latest
  BY DEF MarkAsDone, MarkAsFailedWithRetry, MoveToDlq
<1>2. /\ it.id \in Ids /\ it.key \in Keys
      /\ batch'[w] = batch[w] \ {it} /\ pc'[w] \in {"idle", "dispatch"}
      /\ \A v \in Workers \ {w} : batch'[v] = batch[v] /\ pc'[v] = pc[v]
      /\ \A v \in Workers : \A o \in batch'[v] :
             /\ o \in batch[v] /\ o.id \in Ids /\ o.id # it.id
             /\ v = w => tries[o.id] = o.attempts
  BY <1>1, NextItemLeaves
<1>3. /\ rows[it.id].status = "processing" /\ rows[it.id].key = it.key
      /\ rows[it.id].payload = it.payload /\ rows[it.id].attempts = it.attempts
      /\ it.attempts \in Nat /\ it.attempts < 3 /\ tries[it.id] = it.attempts + 1
      /\ pc[w] = "mark_done" => it.payload \in applied[it.key]
  BY <1>1, <1>2 DEF ClaimsAreExclusive, AttemptsAreCounted, TypeOK, Item
<1>4. /\ rows'[it.id].key = it.key /\ rows'[it.id].payload = it.payload
      /\ \A i \in Ids \ {it.id} : rows'[i] = rows[i] /\ dlq'[i] = dlq[i]
  BY <1>2, <1>3 DEF MarkAsDone, MarkAsFailedWithRetry, MoveToDlq, TypeOK, Row
<1>5. \/ /\ pc[w] = "mark_done" /\ rows'[it.id].status = "done" /\ dlq'[it.id] = dlq[it.id]
      \/ /\ rows'[it.id].status = "pending" /\ dlq'[it.id] = dlq[it.id]
         /\ rows'[it.id].attempts = it.attempts + 1 /\ it.attempts + 1 < 3
         /\ \A j \in Ids \ {it.id} : ~(rows[j].status = "pending" /\ rows[j].key = it.key)
      \/ /\ rows'[it.id].status = "dlq" /\ dlq'[it.id] = dlq[it.id] + 1
         /\ it.attempts + 1 >= 3
  BY <1>2, <1>3 DEF MarkAsDone, MarkAsFailedWithRetry, MoveToDlq, IndexConflict, TypeOK, Row
<1>6. ClaimsAreExclusive'
  BY <1>2, <1>4 DEF ClaimsAreExclusive
<1>7. PendingIsUnique'
  BY <1>3, <1>4, <1>5 DEF PendingIsUnique
<1>8. RetryBudget'
  BY <1>1, <1>2, <1>3, <1>4, <1>5 DEF RetryBudget
<1>9. DoneWasApplied'
  BY <1>1, <1>3, <1>4, <1>5 DEF DoneWasApplied
<1>10. AttemptsAreCounted'
  <2>1. \A i \in Ids :
          /\ rows'[i].status \in {"pending", "processing"} => rows'[i].attempts < 3
          /\ rows'[i].status = "pending" => tries'[i] = rows'[i].attempts
    BY <1>1, <1>3, <1>4, <1>5 DEF AttemptsAreCounted
  <2>2. \A o \in batch'[w] : tries'[o.id] = o.attempts
    BY <1>1, <1>2
  <2> QED BY <1>1, <1>2, <2>1, <2>2 DEF AttemptsAreCounted, IsHead
<1>11. NewestVersionIsTracked'
  <2> SUFFICES ASSUME NEW q \in Keys, latest[q] > 0
               PROVE  \/ latest[q] \in applied[q]
                      \/ \E j \in Ids : /\ rows'[j].key = q /\ rows'[j].payload = latest[q]
                                        /\ rows'[j].status \in {"pending", "processing", "dlq"}
    BY <1>1 DEF NewestVersionIsTracked
  <2>1. CASE rows[it.id].key = q /\ rows[it.id].payload = latest[q]
    BY <1>2, <1>3, <1>4, <1>5, <2>1
  <2>2. CASE ~(rows[it.id].key = q /\ rows[it.id].payload = latest[q])
    BY <1>4, <2>2 DEF NewestVersionIsTracked
  <2> QED BY <2>1, <2>2
<1> QED BY <1>6, <1>7, <1>8, <1>9, <1>10, <1>11

\* Steps after which the worker holds no item, or only changes its mind
\* about the one it is at.
LEMMA AbortKeepsInv ==
  ASSUME OutboxInv, TypeOK', NEW w \in Workers,
         \/ Crash(w)
         \/ \E it \in batch[w] : BatchAborts(w, it) \/ MarkAsDoneRaises(w, it)
  PROVE  OutboxInv'
<1> USE DEF OutboxInv, Pending, Processing, MaxAttempts
<1>1. /\ rows' = rows /\ dlq' = dlq /\ applied' = applied /\ tries' = tries /\ latest' = latest
      /\ \A v \in Workers \ {w} : batch'[v] = batch[v] /\ pc'[v] = pc[v]
      /\ \/ batch'[w] = {}
         \/ batch'[w] = batch[w] /\ pc[w] = "mark_done" /\ pc'[w] = "failed"
  BY DEF Crash, BatchAborts, MarkAsDoneRaises, TypeOK
<1>2. \A v \in Workers : batch'[v] \subseteq batch[v]
  BY <1>1
<1>3. ClaimsAreExclusive' /\ PendingIsUnique' /\ RetryBudget' /\ DoneWasApplied'
  BY <1>1, <1>2 DEF ClaimsAreExclusive, PendingIsUnique, RetryBudget, DoneWasApplied
<1>4. AttemptsAreCounted'
  BY <1>1 DEF AttemptsAreCounted, IsHead
<1>5. NewestVersionIsTracked'
  BY <1>1 DEF NewestVersionIsTracked
<1> QED BY <1>3, <1>4, <1>5

\* The passing of time only makes a pending row claimable.
LEMMA RetryTimeKeepsInv ==
  ASSUME OutboxInv, TypeOK', NEW i \in Ids, RetryTimePasses(i) PROVE OutboxInv'
<1> USE DEF OutboxInv, Pending, Processing, MaxAttempts
<1>1. /\ batch' = batch /\ pc' = pc /\ dlq' = dlq /\ applied' = applied /\ tries' = tries
      /\ latest' = latest
      /\ \A j \in Ids : /\ rows'[j].status = rows[j].status /\ rows'[j].key = rows[j].key
                        /\ rows'[j].payload = rows[j].payload
                        /\ rows'[j].attempts = rows[j].attempts
  BY DEF RetryTimePasses, TypeOK, Row
<1>2. \A w \in Workers : \A it \in batch[w] : it.id \in Ids
  BY DEF TypeOK, Item
<1>3. ClaimsAreExclusive' /\ PendingIsUnique'
  BY <1>1, <1>2 DEF ClaimsAreExclusive, PendingIsUnique
<1>4. RetryBudget' /\ DoneWasApplied'
  BY <1>1 DEF RetryBudget, DoneWasApplied
<1>5. AttemptsAreCounted'
  BY <1>1 DEF AttemptsAreCounted, IsHead
<1>6. NewestVersionIsTracked'
  BY <1>1 DEF NewestVersionIsTracked
<1> QED BY <1>3, <1>4, <1>5, <1>6

\* Every step of every worker and producer preserves the invariant.
LEMMA InvStep == OutboxInv /\ [Next]_vars => OutboxInv'
<1> SUFFICES ASSUME OutboxInv, [Next]_vars PROVE OutboxInv'
  OBVIOUS
<1>1. TypeOK'
  BY TypeStep DEF OutboxInv
<1>2. ASSUME NEW k \in Keys, Enqueue(k) PROVE OutboxInv'
  BY <1>1, <1>2, EnqueueKeepsInv
<1>3. ASSUME NEW i \in Ids, RetryTimePasses(i) PROVE OutboxInv'
  BY <1>1, <1>3, RetryTimeKeepsInv
<1>4. ASSUME NEW w \in Workers, ClaimBatch(w) PROVE OutboxInv'
  BY <1>1, <1>4, ClaimKeepsInv
<1>5. ASSUME NEW w \in Workers, NEW it \in batch[w], ItemStep(w, it) PROVE OutboxInv'
  <2>1. CASE DispatchOk(w, it) \/ DispatchRaises(w, it)
    BY <1>1, <2>1, DispatchKeepsInv
  <2>2. CASE MarkAsDone(w, it) \/ MarkAsFailedWithRetry(w, it) \/ MoveToDlq(w, it)
    BY <1>1, <2>2, MarkKeepsInv
  <2>3. CASE BatchAborts(w, it) \/ MarkAsDoneRaises(w, it)
    BY <1>1, <2>3, AbortKeepsInv
  <2> QED BY <1>5, <2>1, <2>2, <2>3 DEF ItemStep
<1>6. ASSUME NEW w \in Workers, Crash(w) PROVE OutboxInv'
  BY <1>1, <1>6, AbortKeepsInv
<1>7. CASE UNCHANGED vars
  BY <1>7 DEF vars, OutboxInv, TypeOK, ClaimsAreExclusive, PendingIsUnique, RetryBudget,
              DoneWasApplied, AttemptsAreCounted, NewestVersionIsTracked, Pending, Processing,
              IsHead
<1> QED BY <1>2, <1>3, <1>4, <1>5, <1>6, <1>7 DEF Next, ProcessItem

\* The invariant holds of every reachable state.
THEOREM OutboxInvariant == Spec => []OutboxInv
<1>1. Init => OutboxInv
  <2> SUFFICES ASSUME Init PROVE OutboxInv
    OBVIOUS
  <2>1. TypeOK
    BY OutboxConstants DEF Init, TypeOK, AbsentRow, Row, Statuses, Item
  <2>2. /\ \A i \in Ids : rows[i].status = "absent" /\ tries[i] = 0 /\ dlq[i] = 0
        /\ \A w \in Workers : batch[w] = {}
        /\ \A k \in Keys : latest[k] = 0
    BY DEF Init, AbsentRow
  <2> QED BY <2>1, <2>2 DEF OutboxInv, ClaimsAreExclusive, PendingIsUnique, RetryBudget,
                 DoneWasApplied, AttemptsAreCounted, NewestVersionIsTracked, Pending, MaxAttempts
<1> QED BY <1>1, InvStep, PTL DEF Spec

\* The safety properties the runs check, for every instance: claims are
\* exclusive, a key has one pending row, payloads have three dispatches,
\* "done" means applied and the newest version is tracked.
THEOREM OutboxSafety ==
  Spec => [](/\ ClaimsAreExclusive /\ PendingIsUnique /\ RetryBudget
             /\ DoneWasApplied /\ NewestVersionIsTracked)
<1>1. OutboxInv => /\ ClaimsAreExclusive /\ PendingIsUnique /\ RetryBudget
                   /\ DoneWasApplied /\ NewestVersionIsTracked
  BY DEF OutboxInv
<1> QED BY <1>1, OutboxInvariant, PTL

\* A payload is dispatched three times at most, whatever is retried or aborted.
THEOREM ThreeDispatches == Spec => []RetryBudget
BY OutboxSafety, PTL

\* A row that is marked done was applied, although the mark may fail or come late.
THEOREM DoneMeansApplied == Spec => []DoneWasApplied
BY OutboxSafety, PTL

\* The newest version of a key is pending, in work, applied, given up or
\* stranded with its row: never lost without a trace.
THEOREM NewestIsTracked == Spec => []NewestVersionIsTracked
BY OutboxSafety, PTL

\* Nothing reopens a row that is done or in the dead-letter queue: whoever
\* writes a row's status holds it, or found it pending.
THEOREM SettledRowsStay == Spec => SettledIsFinal
<1>1. OutboxInv /\ [Next]_vars => [\A i \in Ids : Settled(i) => rows'[i] = rows[i]]_vars
  <2> SUFFICES ASSUME OutboxInv, Next, NEW i \in Ids, rows[i].status \in {"done", "dlq"}
               PROVE  rows'[i] = rows[i]
    BY DEF Settled
  <2> USE DEF OutboxInv
  <2>1. ASSUME NEW k \in Keys, Enqueue(k) PROVE rows'[i] = rows[i]
    BY <2>1 DEF Enqueue, EnqueueInsert, EnqueueCoalesce, Pending, TypeOK
  <2>2. ASSUME NEW j \in Ids, RetryTimePasses(j) PROVE rows'[i] = rows[i]
    BY <2>2 DEF RetryTimePasses, Pending, TypeOK
  <2>3. ASSUME NEW w \in Workers, ClaimBatch(w) PROVE rows'[i] = rows[i]
    BY <2>3 DEF ClaimBatch, Claimable, Pending, TypeOK
  <2>4. ASSUME NEW w \in Workers, NEW it \in batch[w], ItemStep(w, it) PROVE rows'[i] = rows[i]
    <3>1. it.id # i /\ it.id \in Ids
      BY DEF ClaimsAreExclusive, Processing, TypeOK, Item
    <3> QED BY <2>4, <3>1 DEF ItemStep, DispatchOk, DispatchRaises, MarkAsDone, MarkAsDoneRaises,
                   MarkAsFailedWithRetry, MoveToDlq, BatchAborts, TypeOK
  <2>5. ASSUME NEW w \in Workers, Crash(w) PROVE rows'[i] = rows[i]
    BY <2>5 DEF Crash
  <2> QED BY <2>1, <2>2, <2>3, <2>4, <2>5 DEF Next, ProcessItem
<1> QED BY <1>1, OutboxInvariant, PTL DEF Spec, SettledIsFinal

-----------------------------------------------------------------------------
\* A batch holds at most one row of a key, for a key has one pending row.
\* With a single worker no second batch can get in between.
LEMMA OrderStep ==
  ASSUME NEW w0, Workers = {w0}
  PROVE  OutboxInv /\ OutboxInv' /\ VersionsAreOrdered /\ [Next]_vars => VersionsAreOrdered'
<1> SUFFICES ASSUME OutboxInv, OutboxInv', VersionsAreOrdered, [Next]_vars
             PROVE  VersionsAreOrdered'
  OBVIOUS
<1> USE DEF OutboxInv, Pending, Processing
<1>0. \A w \in Workers : \A it \in batch[w] :
        /\ it \in Item /\ it.id \in Ids /\ it.key \in Keys /\ it.payload \in Nat
        /\ rows[it.id].status = "processing"
  BY DEF TypeOK, Item, ClaimsAreExclusive
<1>1. ASSUME NEW k \in Keys, Enqueue(k) PROVE VersionsAreOrdered'
  <2>1. PICK i \in Ids : EnqueueInsert(k, i) \/ EnqueueCoalesce(k, i)
    BY <1>1 DEF Enqueue
  <2>2. /\ rows'[i].status = "pending" /\ rows'[i].key = k /\ rows'[i].payload = latest[k] + 1
        /\ \A j \in Ids \ {i} : /\ rows'[j] = rows[j]
                                /\ ~(rows[j].status = "pending" /\ rows[j].key = k)
        /\ rows[i].status = "pending" => rows[i].key = k
    <3>1. CASE EnqueueInsert(k, i)
      BY <3>1 DEF EnqueueInsert, TypeOK, Row
    <3>2. CASE EnqueueCoalesce(k, i)
      BY <3>2 DEF EnqueueCoalesce, PendingIsUnique, TypeOK, Row
    <3> QED BY <2>1, <3>1, <3>2
  <2>3. /\ batch' = batch /\ crm' = crm /\ latest'[k] = latest[k] + 1
        /\ \A q \in Keys \ {k} : latest'[q] = latest[q]
        /\ \A q \in Keys : latest[q] \in Nat /\ crm[q] \in Nat
    BY <1>1 DEF Enqueue, TypeOK
  <2>4. (\A q \in Keys : crm[q] <= latest[q])'
    BY <2>3 DEF VersionsAreOrdered
  <2>5. \A j \in Ids : rows'[j].status = "pending" => rows'[j].payload = latest'[rows'[j].key]
    <3>1. \A j \in Ids : rows[j].key \in Keys
      BY DEF TypeOK, Row
    <3> QED BY <2>2, <2>3, <3>1 DEF VersionsAreOrdered
  <2>6. ASSUME NEW w \in Workers, NEW it \in batch[w]
        PROVE  /\ crm'[it.key] <= it.payload
               /\ it.payload <= latest'[it.key]
               /\ \/ it.payload = latest'[it.key]
                  \/ \E j \in Ids : rows'[j].status = "pending" /\ rows'[j].key = it.key
               /\ \A o \in batch[w] : o.key = it.key => o = it
    <3>1. /\ crm'[it.key] <= it.payload /\ it.payload <= latest'[it.key]
          /\ \A o \in batch[w] : o.key = it.key => o = it
      BY <1>0, <2>3 DEF VersionsAreOrdered
    <3>2. CASE it.key = k
      BY <2>2, <3>1, <3>2
    <3>3. CASE it.key # k
      BY <1>0, <2>2, <2>3, <3>1, <3>3 DEF VersionsAreOrdered
    <3> QED BY <3>2, <3>3
  <2> QED BY <2>3, <2>4, <2>5, <2>6 DEF VersionsAreOrdered
<1>2. ASSUME NEW i \in Ids, RetryTimePasses(i) PROVE VersionsAreOrdered'
  <2>1. /\ batch' = batch /\ crm' = crm /\ latest' = latest
        /\ \A j \in Ids : /\ rows'[j].status = rows[j].status /\ rows'[j].key = rows[j].key
                          /\ rows'[j].payload = rows[j].payload
    BY <1>2 DEF RetryTimePasses, TypeOK, Row
  <2> QED BY <2>1 DEF VersionsAreOrdered
<1>3. ASSUME NEW w \in Workers, ClaimBatch(w) PROVE VersionsAreOrdered'
  <2> DEFINE Copy(i) == [id |-> i, key |-> rows[i].key, payload |-> rows[i].payload,
                         attempts |-> rows[i].attempts]
  <2>1. PICK S \in SUBSET Claimable :
          /\ rows' = [i \in Ids |-> IF i \in S THEN [rows[i] EXCEPT !.status = "processing"]
                                    ELSE rows[i]]
          /\ batch' = [batch EXCEPT ![w] = {Copy(i) : i \in S}]
    BY <1>3 DEF ClaimBatch
  <2>2. \A i \in S : i \in Ids /\ rows[i].status = "pending"
    BY DEF Claimable
  <2>3. /\ crm' = crm /\ latest' = latest
        /\ \A i \in Ids : rows'[i].status = "pending" => rows'[i] = rows[i]
    BY <1>3, <2>1, <2>2 DEF ClaimBatch, TypeOK, Row
  <2>4. \A v \in Workers : \A it \in batch'[v] : it.id \in S /\ it = Copy(it.id)
    BY <2>1 DEF TypeOK
  <2>5. \A i \in S : /\ rows[i].key \in Keys /\ rows[i].payload = latest[rows[i].key]
                     /\ latest[rows[i].key] \in Nat
                     /\ crm[rows[i].key] <= rows[i].payload
    BY <2>2 DEF VersionsAreOrdered, TypeOK, Row
  <2>6. \A i, j \in S : rows[i].key = rows[j].key => i = j
    BY <2>2 DEF PendingIsUnique
  <2> QED BY <2>3, <2>4, <2>5, <2>6 DEF VersionsAreOrdered
<1>4. ASSUME NEW w \in Workers, NEW it \in batch[w], ItemStep(w, it) PROVE VersionsAreOrdered'
  <2>1. CASE DispatchOk(w, it) \/ DispatchRaises(w, it)
    <3>1. /\ rows' = rows /\ batch' = batch /\ latest' = latest
          /\ \/ crm' = [crm EXCEPT ![it.key] = it.payload]
             \/ crm' = crm
      BY <2>1 DEF DispatchOk, DispatchRaises, ApplyToCrm
    <3>2. \A k \in Keys : crm'[k] <= latest'[k]
      BY <1>0, <3>1 DEF VersionsAreOrdered, TypeOK
    <3>3. \A v \in Workers : \A o \in batch[v] : crm'[o.key] <= o.payload
      <4>1. \A v \in Workers : v = w
        OBVIOUS
      <4> QED BY <1>0, <3>1, <4>1 DEF VersionsAreOrdered, TypeOK
    <3> QED BY <3>1, <3>2, <3>3 DEF VersionsAreOrdered
  <2>2. CASE MarkAsDone(w, it) \/ MoveToDlq(w, it)
    <3>1. /\ crm' = crm /\ latest' = latest
          /\ \A v \in Workers : batch'[v] \subseteq batch[v]
          /\ \A i \in Ids : rows'[i].status = "pending" => rows'[i] = rows[i]
          /\ \A i \in Ids : rows[i].status = "pending" => rows'[i] = rows[i]
      BY <1>0, <2>2 DEF MarkAsDone, MoveToDlq, NextItem, TypeOK, Row
    <3> QED BY <3>1 DEF VersionsAreOrdered
  <2>3. CASE MarkAsFailedWithRetry(w, it)
    <3>1. /\ crm' = crm /\ latest' = latest
          /\ \A v \in Workers : batch'[v] \subseteq batch[v]
          /\ \A i \in Ids \ {it.id} : rows'[i] = rows[i]
          /\ rows'[it.id].key = rows[it.id].key /\ rows'[it.id].payload = rows[it.id].payload
      BY <1>0, <2>3 DEF MarkAsFailedWithRetry, NextItem, TypeOK, Row
    <3>2. /\ rows[it.id].key = it.key /\ rows[it.id].payload = it.payload
          /\ \A j \in Ids \ {it.id} : ~(rows[j].status = "pending" /\ rows[j].key = it.key)
      BY <2>3 DEF MarkAsFailedWithRetry, IndexConflict, ClaimsAreExclusive
    <3>3. it.payload = latest[it.key]
      BY <1>0, <3>2 DEF VersionsAreOrdered
    <3>4. \A i \in Ids : rows[i].status = "pending" => rows'[i] = rows[i]
      BY <1>0, <3>1
    <3>5. \A i \in Ids : rows'[i].status = "pending" => rows'[i].payload = latest[rows'[i].key]
      BY <3>1, <3>2, <3>3 DEF VersionsAreOrdered
    <3> QED BY <3>1, <3>4, <3>5 DEF VersionsAreOrdered
  <2>4. CASE MarkAsDoneRaises(w, it) \/ BatchAborts(w, it)
    <3>1. /\ crm' = crm /\ latest' = latest /\ rows' = rows
          /\ \A v \in Workers : batch'[v] \subseteq batch[v]
      BY <2>4 DEF MarkAsDoneRaises, BatchAborts, TypeOK
    <3> QED BY <3>1 DEF VersionsAreOrdered
  <2> QED BY <1>4, <2>1, <2>2, <2>3, <2>4 DEF ItemStep
<1>5. ASSUME NEW w \in Workers, Crash(w) PROVE VersionsAreOrdered'
  <2>1. /\ crm' = crm /\ latest' = latest /\ rows' = rows
        /\ \A v \in Workers : batch'[v] \subseteq batch[v]
    BY <1>5 DEF Crash, TypeOK
  <2> QED BY <2>1 DEF VersionsAreOrdered
<1>6. CASE UNCHANGED vars
  BY <1>6 DEF vars, VersionsAreOrdered
<1> QED BY <1>1, <1>2, <1>3, <1>4, <1>5, <1>6 DEF Next, ProcessItem

\* The outbox drained by one worker implements CrmRegister: whatever fails,
\* the CRM only moves to newer versions of a key, all of them enqueued.
THEOREM SingleWorkerRefinement ==
  ASSUME NEW w0, Workers = {w0} PROVE Spec => RefinesCrmRegister
<1>1. Init => VersionsAreOrdered
  BY DEF Init, VersionsAreOrdered, Pending, AbsentRow
<1>2. OutboxInv /\ OutboxInv' /\ VersionsAreOrdered /\ [Next]_vars => VersionsAreOrdered'
  BY OrderStep
<1>3. Spec => []VersionsAreOrdered
  BY <1>1, <1>2, OutboxInvariant, PTL DEF Spec
<1>4. Init => Register!Init
  BY DEF Init, Register!Init
<1>5. OutboxInv /\ VersionsAreOrdered /\ [Next]_vars => [Register!Next]_(Register!vars)
  <2> SUFFICES ASSUME OutboxInv, VersionsAreOrdered, Next
               PROVE  Register!Next \/ (latest' = latest /\ crm' = crm)
    BY DEF vars, Register!vars
  <2>1. ASSUME NEW k \in Keys, Enqueue(k) PROVE Register!Next
    BY <2>1 DEF Enqueue, Register!Next, Register!Update
  <2>2. ASSUME NEW w \in Workers, NEW it \in batch[w], ItemStep(w, it)
        PROVE  Register!Next \/ (latest' = latest /\ crm' = crm)
    <3>1. it.key \in Keys /\ it.payload \in crm[it.key]..latest[it.key]
      BY DEF VersionsAreOrdered, OutboxInv, TypeOK, Item
    <3>2. CASE latest' = latest /\ crm' = [crm EXCEPT ![it.key] = it.payload]
      BY <3>1, <3>2 DEF Register!Next, Register!Sync
    <3> QED BY <2>2, <3>2 DEF ItemStep, DispatchOk, DispatchRaises, ApplyToCrm, MarkAsDone,
                 MarkAsDoneRaises, MarkAsFailedWithRetry, MoveToDlq, BatchAborts
  <2>3. ASSUME NEW w \in Workers, ClaimBatch(w) \/ Crash(w)
        PROVE  latest' = latest /\ crm' = crm
    BY <2>3 DEF ClaimBatch, Crash
  <2>4. ASSUME NEW i \in Ids, RetryTimePasses(i) PROVE latest' = latest /\ crm' = crm
    BY <2>4 DEF RetryTimePasses
  <2> QED BY <2>1, <2>2, <2>3, <2>4 DEF Next, ProcessItem
<1> QED BY <1>3, <1>4, <1>5, OutboxInvariant, PTL
         DEF Spec, RefinesCrmRegister, Register!Spec
=============================================================================
