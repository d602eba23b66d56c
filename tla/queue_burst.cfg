SPECIFICATION Spec
CONSTANTS
    Cmd = {up, down, stop}
    Probe = probe
    None = none
    Cap = 2
    HalfDuplex = FALSE
    MaxWire = 2
INVARIANT BurstKept
CHECK_DEADLOCK FALSE
