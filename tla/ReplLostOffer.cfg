SPECIFICATION FairSpec
CONSTANTS
    NShards = 2
    MaxJobs = 1
    FollowerAtStart = TRUE
    FreedReads = {"intact"}
    SecondChild = {"follower"}
PROPERTIES
    AllReplicated
CHECK_DEADLOCK FALSE
