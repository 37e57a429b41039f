CONSTANTS
    Captures <- MCCaptures
    DataLen <- MCDataLen
    IndexRoom <- MCIndexRoom
    ChunkSize = 2
    QueueLength = 2
    WireRoom = 2
    MaxBreaks = 1
SPECIFICATION FairSpec
CHECK_DEADLOCK FALSE
INVARIANTS
    DoneMeansComplete
PROPERTY
    SuccessArrives
