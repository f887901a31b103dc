SPECIFICATION FairSpec
CONSTANTS
    Marked = 3
    BatchSize = 3
    Interval = 2
    Delay = 1
    MaxPending = 3
    Mixes <- SafetyMixes
INVARIANTS
    TypeOK
    InOrder
    ReadIsKept
PROPERTIES
    StopLosesOneBatch
    TrafficFlushes
