SPECIFICATION Spec
CONSTANTS
    t1 = t1
    t2 = t2
    q1 = q1
    NoToken = NoToken
    Tokens = {t1, t2}
    Expiring = {t1}
    Idle = 1
    Requests = {q1}
    MaxRestarts = 1
    Faults = {"outage", "wipe", "restart"}
INVARIANTS
    TypeOK
    NoActiveLost
    NoOtherStray
PROPERTIES
    SyncRepairs
    IdleIsFinal
CHECK_DEADLOCK FALSE
