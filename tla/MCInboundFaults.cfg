CONSTANTS
    c1 = c1
    c2 = c2
    c3 = c3
    m1 = m1
    m2 = m2
    p1 = p1
    p2 = p2
    r1 = r1
    r2 = r2
    s0 = s0
    none = none
    Msgs = {m1, m2}
    Kinds = {"chat", "handoff", "opt_out"}
    Calls = {c1, c2}
    Procs = {p1, p2}
    Requests = {r1}
    StartStates = {"absent", "discovery", "closed", "handoff_active"}
    OldSession = s0
    NoCall = none
    Faults = {"db", "wa", "llm", "crash"}
SYMMETRY HandlerSymmetry
SPECIFICATION Spec
INVARIANTS
    TypeOK
    OneAnswerPerMessage
    TakeoverHolds
    OneSessionUnlessRaced
PROPERTIES
    BotIsSilentUnderControl
    ImplementsDebounce
CHECK_DEADLOCK FALSE
