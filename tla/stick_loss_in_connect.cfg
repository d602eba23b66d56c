SPECIFICATION FairSpec
CONSTANTS
    c1 = c1
    c2 = c2
    Task = {c1, c2}
    First = c1
    MissThreshold = 2
    AttemptCap = 2
    MaxSends = 1
PROPERTY EveryLossRetried
CHECK_DEADLOCK FALSE
