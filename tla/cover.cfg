SPECIFICATION FairSpec
CONSTANTS
    Top = 3
    LoopId = {t1, t2}
    None = none
    Lost = lost
    MaxSteps = 4
    Overlap = FALSE
INVARIANTS
    TypeOK
    OneLoop
    AtRestExact
    GoalReached
PROPERTIES
    PromiseSpec
    MoveEnds
