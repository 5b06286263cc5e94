CONSTANTS
    c1 = c1
    c2 = c2
    c3 = c3
    m1 = m1
    m2 = m2
    p1 = p1
    p2 = p2
    r1 = r1
    r2 = r2
    s0 = s0
    none = none
    OldSession = s0
    NoCall = none
    Msgs = {m1, m2}
    Kinds = {"chat", "opt_out"}
    Calls = {c1, c2}
    Procs = {p1}
    Requests = {}
    StartStates = {"idle", "handoff_active"}
    Faults = {}
SYMMETRY HandlerSymmetry
SPECIFICATION Spec
INVARIANT OptOutIsHonoured
CHECK_DEADLOCK FALSE
