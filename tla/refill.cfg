SPECIFICATION Spec
CONSTANTS
    usdc = usdc
    weth = weth
    Resources = {usdc, weth}
    Candidates <- MCCandidates
    Legs <- MCLegs
    Lifi = "lifi"
    Intermediate = "intermediate"
    Threshold = 1
    Need = 1
    MaxSource = 2
    MaxRounds = 1
    MaxManual = 1
    None = None
INVARIANTS TypeOK DebitedOncePerRound DebitsReserved
CHECK_DEADLOCK FALSE
