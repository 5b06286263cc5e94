----------------------------- MODULE MCCrmOutbox -----------------------------
\* Instances of CrmOutbox for TLC.
EXTENDS CrmOutbox, TLC

CONSTANTS k1, k2, w1, w2

\* The workers are interchangeable: they run the same process_batch.
WorkerSymmetry == Permutations({w1, w2})
=============================================================================
