SPECIFICATION FairSpec
CONSTANTS
    NShards = 2
    m_nmappers = 2
    MaxRpcs = 1
    Checkpoints = {{0, 1}}
    FailAfter = 0
    MaxFailures = 1
PROPERTIES
    TakeoverEnds
