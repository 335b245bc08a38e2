SPECIFICATION Spec
CONSTANTS
    r1 = r1
    r2 = r2
    u1 = u1
    u2 = u2
    u3 = u3
    d1 = d1
    d2 = d2
    p1 = p1
    p2 = p2
    Requests = {r1, r2}
    Users = {u1}
    Allowed = {u1}
    Places = {p1}
    Daemons = {d1}
    Op <- MCOpMixed
    Require <- MCRequireOne
    Ttl = 1
    Retention = 0
    LostReplies = TRUE
    StoreFaults = FALSE
    MaxTime = 0
    MaxPresses = 2
    MaxCrashes = 0
INVARIANTS ApprovedIsInFlight
CHECK_DEADLOCK FALSE
