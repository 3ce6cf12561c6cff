SPECIFICATION FairSpec
CONSTANTS
    NMasters = 4
    AnyTime = FALSE
INVARIANTS
    OneLeader
    LeaderIsSmallest
PROPERTIES
    LeaderElected
    MastersSettle
CHECK_DEADLOCK FALSE
