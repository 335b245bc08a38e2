SPECIFICATION FairSpec
CONSTANTS
    c1 = c1
    c2 = c2
    prod = prod
    Calls = {c1, c2}
    Mutations = {c1}
    Profiles = {prod}
    ProfileOf <- MCProfileOf
    MaxAttempts = 2
    Ttls = {0, 1}
    MaxTime = 1
    MaxTurns = 2
INVARIANTS LockedMeansUnsent ExecutedAtMostOnce BooksAreTrue
PROPERTIES CallsEnd
CHECK_DEADLOCK FALSE
