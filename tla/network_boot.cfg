CONSTANTS
    Brokers = {gw1, gw2}
    LoopLength = 5
    MaxChanges = 7
SPECIFICATION FairSpec
CHECK_DEADLOCK FALSE
INVARIANTS
    AddressIsReported
    LinkBitSettles
    StartedWithBroker
PROPERTY
    NodeComesUp
