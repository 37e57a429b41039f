CONSTANTS
    QueueLength = 1
    MaxMessages = 3
    ClientLock = TRUE
SPECIFICATION FairSpec
INVARIANTS
    TypeOK
    NothingLostOrReordered
    TaskOrderKept
PROPERTIES
    FifoSpec
    AcceptedIsHanded
    NoTaskStaysBlocked
    SessionLossIsNoticed
