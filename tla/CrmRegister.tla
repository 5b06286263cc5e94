------------------------------ MODULE CrmRegister ------------------------------
(***************************************************************************)
(* What the outbox promises its producers, key by key: the CRM holds a     *)
(* version that was enqueued, and it only ever moves forward.  Versions    *)
(* may be skipped: enqueue_operation lets a newer payload replace one that *)
(* is still pending.                                                       *)
(***************************************************************************)
EXTENDS Naturals

CONSTANT Keys

VARIABLES
    latest,   \* last version enqueued for each key
    crm       \* version the CRM holds for each key

vars == <<latest, crm>>

Init ==
    /\ latest = [k \in Keys |-> 0]
    /\ crm = [k \in Keys |-> 0]

Update(k) ==
    /\ latest' = [latest EXCEPT ![k] = @ + 1]
    /\ UNCHANGED crm

Sync(k, v) ==
    /\ crm' = [crm EXCEPT ![k] = v]
    /\ UNCHANGED latest

Next == \E k \in Keys : Update(k) \/ \E v \in crm[k]..latest[k] : Sync(k, v)

Spec == Init /\ [][Next]_vars
=============================================================================
