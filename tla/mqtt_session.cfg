CONSTANTS
    MaxConns = 7
    MaxFaults = 3
SPECIFICATION FairSpec
CHECK_DEADLOCK FALSE
INVARIANTS
    PresenceIsExact
    SessionIsWhole
PROPERTIES
    FlagSpec
    SessionSettles
