SPECIFICATION Spec
CONSTANTS
    r1 = r1
    r2 = r2
    u1 = u1
    u2 = u2
    u3 = u3
    d1 = d1
    d2 = d2
    p1 = p1
    p2 = p2
    Requests = {r1}
    Users = {u1, u2, u3}
    Allowed = {u1, u2}
    Places = {p1}
    Daemons = {d1, d2}
    Op <- MCOp
    Require <- MCRequire
    Ttl = 1
    Retention = 0
    LostReplies = FALSE
    StoreFaults = TRUE
    MaxTime = 1
    MaxPresses = 2
    MaxCrashes = 1
SYMMETRY DaemonSymmetry
INVARIANTS AtMostOneCall CallNeedsQuorum StatusTellsOutcome
PROPERTIES KeepsContract
CHECK_DEADLOCK FALSE
