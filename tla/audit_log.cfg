SPECIFICATION Spec
CONSTANTS
    first = first
    resent = resent
    approval = approval
    reset = reset
    mainnet = mainnet
    Request = {first, resent, approval}
    Reset = {reset}
    HashOf <- MCHashOf
    IdOf <- MCHashOf
    StrategyOf <- MCStrategyOf
    ChainOf <- MCChainOf
    KindOf <- MCKindOf
    AmountOf <- MCAmountOf
    AllChains = mainnet
    Chain = {"base", "bob"}
    MaxLength = 4
SYMMETRY Alike
INVARIANTS
    StreakIsTheLoop
    BestIsTheLoop
    GapIsTheReplay
PROPERTIES
    LanesAreIndependent
    GapsOutliveRecords
CHECK_DEADLOCK FALSE
