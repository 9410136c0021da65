SPECIFICATION FairSpec
CONSTANTS
    q1 = q1
    q2 = q2
    Reader = {q1, q2}
INVARIANTS
    TypeOK
    OperatorHaltStands
    CleanTripStands
PROPERTIES
    StaleKeepsHalting
