CONSTANTS
    Default = 2
    MaxInterval = 3
    Requested = {0, 1, 2, 3, 4}
    Milli = 10
    TickRate = 10
    Word = 320
    PushWait = 5
SPECIFICATION FairSpec
PROPERTIES
    GapIsTheInterval
    IntervalTakesOver
