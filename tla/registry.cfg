SPECIFICATION RegistrySpec
CONSTANTS
    Motor = {m1, m2, m3}
    Timed = {m1, m2}
    Remote = {r}
    Channel = {c1, c2}
    None = none
    Stored <- Bindings
INVARIANTS
    RegistryTypeOK
    RefCountExact
    RegistryExact
    ChannelWins
