SPECIFICATION FairSpec
CONSTANTS
    NShards = 3
    MaxJobs = 2
    FollowerAtStart = FALSE
    FreedReads = {"intact", "crash"}
    SecondChild = {"follower"}
INVARIANTS
    CheckpointInOrder
PROPERTIES
    CheckpointGrows
    FollowerInformed
    NewsIsPushed
CHECK_DEADLOCK FALSE
