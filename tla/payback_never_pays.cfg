SPECIFICATION Spec
CONSTANTS
    MaxTime = 4
    MaxEarned = 2
    MaxPayments = 2
    MaxSats = 1
    MinuteLength = 2
    CronEvery = 1
    Share = 1
    MinPayback = 2
    PeriodMax = 2
    AnnualMax = 2
    Cost = 0
    CostShare = 2
    BobCapital = 1
PROPERTY
    CarriesBelowMinimum
CHECK_DEADLOCK FALSE
