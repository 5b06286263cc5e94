CONSTANTS
    c1 = c1
    c2 = c2
    c3 = c3
    m1 = m1
    m2 = m2
    p1 = p1
    p2 = p2
    r1 = r1
    r2 = r2
    s0 = s0
    none = none
    Msgs = {m1, m2}
    Kinds = {"chat", "document", "command", "media", "unsupported", "opt_out", "handoff"}
    Calls = {c1, c2}
    Procs = {p1}
    Requests = {}
    StartStates = {"catalog_navigation"}
    OldSession = s0
    NoCall = none
    Faults = {}
SPECIFICATION FairSpec
INVARIANT NoHandoffIsLeftPending
PROPERTIES
    EveryCallEnds
    StoredIsAnswered
CHECK_DEADLOCK FALSE
