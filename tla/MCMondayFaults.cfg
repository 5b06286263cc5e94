CONSTANTS
    l1 = l1
    l2 = l2
    i1 = i1
    i2 = i2
    i3 = i3
    w1 = w1
    w2 = w2
    nobody = nobody
    Nobody = nobody
    Leads = {l1}
    ItemIds = {i1, i2}
    Workers = {w1, w2}
    MaxEvents = 2
    StartStates = {"idle", "qualification"}
    Faults = {"read", "write", "crash", "seller"}
SYMMETRY BoardSymmetry
SPECIFICATION Spec
INVARIANTS
    TypeOK
    OneItemPerLead
    BoardKeepsUp
PROPERTY ChangesAdvance
CHECK_DEADLOCK FALSE
