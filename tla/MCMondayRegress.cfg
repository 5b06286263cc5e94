CONSTANTS
    l1 = l1
    l2 = l2
    i1 = i1
    i2 = i2
    i3 = i3
    w1 = w1
    w2 = w2
    nobody = nobody
    Nobody = nobody
    Leads = {l1}
    ItemIds = {i1}
    Workers = {w1}
    MaxEvents = 2
    StartStates = {"greeting", "qualification"}
    Faults = {}
SPECIFICATION FairSpec
PROPERTY StageOnlyAdvances
CHECK_DEADLOCK FALSE
