SPECIFICATION FairSpec
CONSTANTS
    Rules = {"r1"}
    NodeRules = {"r1"}
    Nodes = {"n1"}
    Others = {}
    ForSecs = 1
    DedupSecs = 2
    EvictSecs = 2
    Interval = 1
    MaxTick = 1
    MaxFaults = 3
    Jobs = {"j1"}
    Every = 2
    UseCron = TRUE
    MaxCommands = 2
    Flavours <- MCFlavours
INVARIANTS DaemonTellsTruth
PROPERTIES NothingTooEarly Stops TroubleIsHeard
