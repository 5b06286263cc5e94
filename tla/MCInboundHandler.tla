--------------------------- MODULE MCInboundHandler ---------------------------
\* Instances of InboundHandler for TLC.
EXTENDS InboundHandler, TLC

CONSTANTS c1, c2, c3, m1, m2, p1, p2, r1, r2, s0, none

\* Deliveries, messages and processes are interchangeable: a session is named
\* after the call that creates it, and the kinds of the messages are chosen.
HandlerSymmetry == Permutations(Calls) \cup Permutations(Msgs) \cup Permutations(Procs)
=============================================================================
