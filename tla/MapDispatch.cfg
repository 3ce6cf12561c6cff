SPECIFICATION FairSpec
CONSTANTS
    NShards = 4
    m_nmappers = 4
    MaxRpcs = 1
    Checkpoints = {{}, {2}, {1, 3}, {0, 1, 2}}
    FailAfter = 5
    MaxFailures = 2
INVARIANTS
    TypeOK
    OnePlace
    NrpcsExact
    SafeReturn
    OfferedOnce
PROPERTIES
    ImplementsTaskPhase
    PhaseEnds
