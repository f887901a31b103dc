SPECIFICATION FairSpec
CONSTANTS
    c1 = c1
    c2 = c2
    Loop = Loop
    Calls = {c1, c2}
    HoursPerDay = 3
    LastHour = 3
    FaultMixes <- Mixes
INVARIANTS
    TypeOK
    HourlyExact
    DailyExact
PROPERTIES
    RowsStand
    HoursRolledUp
