CONSTANTS
    a = a
    l1 = l1
    l2 = l2
    l3 = l3
    w1 = w1
    w2 = w2
    Campaigns = {a}
    Leads = {l1, l2, l3}
    Workers = {w1, w2}
    BatchSize = 2
    MaxTime = 3
    Faults = {"wa", "db", "crash"}
SPECIFICATION FairSpec
INVARIANTS
    OneTextPerCampaign
    OutcomeIsTrue
    ProcessingIsHeld
PROPERTY RowsAreSettled
CHECK_DEADLOCK FALSE
