CONSTANTS
    w1 = w1
    w2 = w2
    Workers = {w1, w2}
    MaxJobs = 1
    Container <- OneContainer
    NShards = 2
    NPieces = 1
    NReducers = 1
    FailAfter <- FirstFails
    StorageFails = FALSE
    Late = {}
    MaxNodes = 2
    EarlyReads = FALSE
    Faults = {"late", "late exchange", "late ping", "crash", "stray", "container"}
    MaxFaults = 1
    LeaderFails = TRUE
    FollowerFirst = FALSE
SPECIFICATION FairSpec
INVARIANTS
    OutputRight
    IntBlobsRight
    OneCallPerTask
PROPERTIES
    JobsFinish
CHECK_DEADLOCK FALSE
