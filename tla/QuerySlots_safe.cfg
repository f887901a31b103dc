SPECIFICATION FairSpec
CONSTANTS
    r1 = r1
    r2 = r2
    Requests = {r1, r2}
    MaxConcurrent = 1
    Timeout = 1
    ShortTtl = 2
    LongTtl = 3
    QueueBound = 2
    FaultMixes <- Mixes
INVARIANTS
    TypeOK
    SlotLimit
    SemExact
    KeyOutlivesOwners
    QueueExact
PROPERTIES
    ImplementsPool
    QueuedIsAnswered
    RecoversWhenIdle
