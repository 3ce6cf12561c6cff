CONSTANTS
    w1 = w1
    w2 = w2
    Workers = {w1, w2}
    MaxJobs = 2
    Container <- TwoContainers
    NShards = 1
    NPieces = 2
    NReducers = 2
    FailAfter <- NobodyFails
    StorageFails = FALSE
    Late = {w2}
    MaxNodes = 3
    EarlyReads = FALSE
    Faults = {"crash", "late ping", "container"}
    MaxFaults = 1
    LeaderFails = FALSE
    FollowerFirst = FALSE
SPECIFICATION FairSpec
INVARIANTS
    OutputRight
    TaskHasConnection
    ClientsListed
    RegisteredReachable
PROPERTIES
    JobsFinish
CHECK_DEADLOCK FALSE
