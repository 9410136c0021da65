SPECIFICATION Spec
CONSTANTS
    r1 = r1
    r2 = r2
    r3 = r3
    reset = reset
    mainnet = mainnet
    Request = {r1, r2, r3}
    Reset = {reset}
    HashOf <- Distinct
    IdOf <- Distinct
    StrategyOf <- OneStrategy
    ChainOf <- OneChain
    KindOf <- AllTrades
    AmountOf <- EachCostsTwo
    AllChains = mainnet
    SignOnly = {}
    Awaits = {r1, r2, r3}
    MaxFailures = 2
    DayCap = 5
    Outcomes = 1
    Lag = 0
SYMMETRY Alike
CONSTRAINT PlainSequence
INVARIANTS
    
    PausedAfterReverts
PROPERTIES
    PauseLiftedBySuccessOrReset
CHECK_DEADLOCK FALSE
