SPECIFICATION FairSpec
CONSTANTS
    r1 = r1
    r2 = r2
    r3 = r3
    reset = reset
    mainnet = mainnet
    Request = {r1, r2}
    Reset = {}
    HashOf <- Distinct
    IdOf <- Distinct
    StrategyOf <- OneStrategy
    ChainOf <- OneChain
    KindOf <- ApprovalUnwindTrade
    AmountOf <- EachCostsTwo
    AllChains = mainnet
    SignOnly = {r1}
    Awaits = {r2}
    MaxFailures = 1
    DayCap = 3
    Outcomes = 2
    Lag = 1
INVARIANTS
    AnswersMatchTheLog
PROPERTIES
    EveryRunEnds
CHECK_DEADLOCK FALSE
