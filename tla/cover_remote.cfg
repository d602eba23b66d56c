SPECIFICATION Spec
CONSTANTS
    Top = 3
    LoopId = {t1, t2}
    None = none
    Lost = lost
    MaxSteps = 3
    Overlap = TRUE
PROPERTY PressNotOverruled
