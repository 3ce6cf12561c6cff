SPECIFICATION FairSpec
CONSTANTS
    Inputs <- MCInputs
    MaxMappers = 4
    FloatBits = 3
    OffsetBits = 4
    MaxBlobs = 3
    MaxSize = 8
INVARIANTS
    EqualShards
    AllBytesSharded
    RemainderInRange
PROPERTIES
    ShardingEnds
