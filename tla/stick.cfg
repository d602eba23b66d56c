SPECIFICATION FairSpec
CONSTANTS
    c1 = c1
    c2 = c2
    Task = {c1, c2}
    First = c1
    MissThreshold = 2
    AttemptCap = 2
    MaxSends = 1
INVARIANTS
    TypeOK
    NoStaleLoss
    OneTimer
    NoOverlap
    ConnectedHasPort
    NoRefusedWait
PROPERTIES
    ClosedStaysQuiet
    LinkSpec
    LossRetried
    FrozenDetected
    ConnectReturns
\* After disconnect() has returned the system is at rest.
CHECK_DEADLOCK FALSE
