SPECIFICATION TimedSpec
CONSTANTS
    NClients = 3
    Reliable = {3}
    MaxTasks = 2
INVARIANTS
    ChosenAnswered
PROPERTIES
    SearchReturns
    DeadWorkerDetected
    StopEndsHeartbeat
