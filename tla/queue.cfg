SPECIFICATION FairSpec
CONSTANTS
    Cmd = {up, down, stop}
    Probe = probe
    None = none
    Cap = 2
    HalfDuplex = TRUE
    MaxWire = 1
INVARIANTS
    TypeOK
    NoReplayAcrossLoss
    NothingLost
PROPERTIES
    PlaceKept
    DeliverySpec
    RetryHappens
CHECK_DEADLOCK FALSE
