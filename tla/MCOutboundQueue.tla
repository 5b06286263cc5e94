---------------------------- MODULE MCOutboundQueue ----------------------------
\* Instances of OutboundQueue for TLC.
EXTENDS OutboundQueue

CONSTANTS a, l1, l2, l3, w1, w2
=============================================================================
