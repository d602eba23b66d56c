\* One motor that pairs, two enums, two dialogs.
CONSTANTS
    Motor = {m1}
    Enum <- MCEnum
    None = None
    Dialog = {d1, d2}
    MaxSteps = 4
    MaxCal = 0
SPECIFICATION FairSpec
INVARIANTS
    TypeOK
    EnumsApart
    EntitiesComplete
PROPERTIES
    PairingEnds
    EntrySettles
CHECK_DEADLOCK FALSE
