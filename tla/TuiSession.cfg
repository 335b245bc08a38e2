SPECIFICATION MCSpec
CONSTANTS
    g1 = g1
    g2 = g2
    n1 = n1
    n2 = n2
    q1 = q1
    None = None
    Guests = {g1, g2}
    Nodes = {n1, n2}
    Queries = {q1}
    ChanCap = 2
    MaxCycles = 2
    MaxFaults = 2
    Gated = {"stop", "delete"}
    Blocked = {g2}
    Telegram = TRUE
    Encrypted = TRUE
    MaxTasks = 2
    MaxKeys = 6
INVARIANTS OperatorInControl ScreenIsTrue
PROPERTIES WaitsEnd
CHECK_DEADLOCK FALSE
