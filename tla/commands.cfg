CONSTANTS
    Payloads <- MCPayloads
    NodeLen = 6
    TopicMax = 42
    RequestIdMax = 16
    PayloadMax = 12
    ClientBuffer = 8
    QueueLength = 2
    MaxMessages = 2
SPECIFICATION FairSpec
INVARIANTS
    RunsOnceAndWhole
    AtMostOneReply
    EventsInOrder
    ExecutedHasTopic
PROPERTY
    RebootHappens
