SPECIFICATION FairSpec
CONSTANTS
    m_nreducers = 4
    NClients = 1
    FailAfter = 6
    MaxFailures = 3
INVARIANTS
    OnePlace
    QuietCollect
    NoUnderflow
    CompleteOutput
PROPERTIES
    ImplementsTaskPhase
    PhaseEnds
