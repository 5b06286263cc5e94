---------------------------- MODULE MCMondayBoard ----------------------------
\* Instances of MondayBoard for TLC.
EXTENDS MondayBoard, TLC

CONSTANTS l1, l2, i1, i2, i3, w1, w2, nobody

\* Items, leads and workers are interchangeable: ids are only compared.
BoardSymmetry == Permutations(ItemIds) \cup Permutations(Workers) \cup Permutations(Leads)
=============================================================================
