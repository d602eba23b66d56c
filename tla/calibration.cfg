\* One motor that pairs, one enum, two dialogs.
CONSTANTS
    Motor = {m1}
    Enum <- MCEnum
    None = None
    Dialog = {d1, d2}
    MaxSteps = 4
    MaxCal = 2
    Uptime = "long"
SPECIFICATION Spec
INVARIANTS
    TypeOK
    OwnRuns
    CalibrationKept
SYMMETRY Symmetry
CHECK_DEADLOCK FALSE
