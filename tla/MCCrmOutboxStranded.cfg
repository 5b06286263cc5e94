CONSTANTS
    k1 = k1
    k2 = k2
    w1 = w1
    w2 = w2
    Keys = {k1, k2}
    Workers = {w1}
    BatchSize = 2
    MaxRows = 3
    MaxVersion = 2
    Faults = {"crm"}
SPECIFICATION Spec
INVARIANT NoRowIsStranded
CHECK_DEADLOCK FALSE
