CONSTANTS
    Settings <- MCSettings
    WordSize = 2
    MaxTime = 3
    MaxUpdates = 2
    EventQueue = 1
SPECIFICATION FairSpec
INVARIANTS
    StartedHasItsWindow
    LastTriggerIsPast
PROPERTIES
    WarmupRespected
    CooldownRespected
    WorkerComesBack
