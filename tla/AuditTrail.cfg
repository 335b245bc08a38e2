SPECIFICATION MCSpec
CONSTANTS
    p1 = p1
    p2 = p2
    m1 = m1
    m2 = m2
    t1 = t1
    t2 = t2
    Procs = {p1, p2}
    Muts = {m1, m2}
    Home <- MCHome
    Rotators = {t1, t2}
    Faults = {"commit", "restore", "sync", "crash"}
    MaxTime = 1
    MaxCrashes = 1
INVARIANTS LogIsOneChain TrailCoversIssued LogVerifies
PROPERTIES MutationsEnd
CHECK_DEADLOCK FALSE
