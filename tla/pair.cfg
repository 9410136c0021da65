SPECIFICATION Spec
CONSTANTS
    r1 = r1
    r2 = r2
    r3 = r3
    reset = reset
    mainnet = mainnet
    Request = {r1, r2}
    Reset = {}
    HashOf <- Distinct
    IdOf <- Distinct
    StrategyOf <- OneStrategy
    ChainOf <- OneChain
    KindOf <- AllTrades
    AmountOf <- EachCostsTwo
    AllChains = mainnet
    SignOnly = {}
    Awaits = {r1}
    MaxFailures = 1
    DayCap = 4
    Outcomes = 1
    Lag = 0
CONSTRAINT QuietAfterPair
INVARIANTS
    TypeOK
    WriteAhead
    AnswersMatchTheLog
    ReconciledBeforeNext
PROPERTIES
    ImplementsGate
CHECK_DEADLOCK FALSE
