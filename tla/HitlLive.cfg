SPECIFICATION FairSpec
CONSTANTS
    r1 = r1
    r2 = r2
    u1 = u1
    u2 = u2
    u3 = u3
    d1 = d1
    d2 = d2
    p1 = p1
    p2 = p2
    Requests = {r1}
    Users = {u1, u2}
    Allowed = {u1, u2}
    Places = {p1}
    Daemons = {d1}
    Op <- MCOp
    Require <- MCRequire
    Ttl = 1
    Retention = 1
    LostReplies = FALSE
    StoreFaults = FALSE
    MaxTime = 1
    MaxPresses = 3
    MaxCrashes = 1
PROPERTIES QuorumDecides ApprovedSettles
CHECK_DEADLOCK FALSE
