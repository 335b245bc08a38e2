SPECIFICATION MCSpec
CONSTANTS
    Ops = {1, 2, 3}
    Persistable = {1}
    Severe = {1}
    Require <- McRequire
    Approvers = {a1, a2}
    HitlTTL = 1
    WaitTTL = 1
    SuccessTTL = 1
    ErrorKeep = 0
    HardCap = 1
    MaxSessions = 3
    MaxPresses = 2
    MaxFaults = 1
INVARIANTS SentAtMostOnce QueueTellsTruth ApprovedIsNotTimedOut
PROPERTIES CallsAreAllowed PendingIsKept RunningResolves
CHECK_DEADLOCK FALSE
