\* Two projects that change once, two connections, three failures and one
\* refresh or reset by hand.
SPECIFICATION LiveSpec
CONSTANTS
    p1 = p1
    p2 = p2
    k1 = k1
    k2 = k2
    Project = {p1, p2}
    Conn = {k1, k2}
    MaxAttempts = 1
    MaxErrors = 1
    MaxRetries = 1
    MaxVersion = 1
    MaxFaults = 2
    MaxRefreshes = 1
    MaxVisits = 2
    NONE = NONE
PROPERTIES
    StreamInOrder
    CatchesUp
CHECK_DEADLOCK FALSE
