CONSTANTS
    k1 = k1
    k2 = k2
    w1 = w1
    w2 = w2
    Keys = {k1, k2}
    Workers = {w1, w2}
    BatchSize = 2
    MaxRows = 3
    MaxVersion = 2
    Faults = {"crm", "db", "crash"}
SPECIFICATION Spec
INVARIANTS
    TypeOK
    ClaimsAreExclusive
    RetryBudget
    NewestVersionIsTracked
    DoneWasApplied
SYMMETRY WorkerSymmetry
PROPERTY SettledIsFinal
CHECK_DEADLOCK FALSE
