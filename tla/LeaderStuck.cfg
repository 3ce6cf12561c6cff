SPECIFICATION FairSpec
CONSTANTS
    NMasters = 2
    AnyTime = TRUE
PROPERTIES
    LeaderElected
CHECK_DEADLOCK FALSE
