SPECIFICATION Spec
CONSTANTS
    m1 = m1
    m2 = m2
    r = r
    c1 = c1
    c2 = c2
    Motor = {m1, m2}
    Timed = {m1, m2}
    DialogMotor = m1
    Remote = {r}
    Channel = {c1, c2}
    None = none
    Stored <- Bindings
    Sender <- RemoteSenders
    MaxPress = 2
    MaxFrame = 2
    Hold = TRUE
PROPERTY LeftoversIgnored
CHECK_DEADLOCK FALSE
