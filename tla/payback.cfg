SPECIFICATION FairSpec
CONSTANTS
    MaxTime = 4
    MaxEarned = 1
    MaxPayments = 2
    MaxSats = 1
    MinuteLength = 2
    CronEvery = 1
    Share = 1
    MinPayback = 1
    PeriodMax = 1
    AnnualMax = 2
    Cost = 0
    CostShare = 2
    BobCapital = 1
INVARIANTS
    TypeOK
    StatedWasReceived
    CountedOnce
PROPERTIES
    ImplementsLedger
    TicksEnd
CHECK_DEADLOCK FALSE
