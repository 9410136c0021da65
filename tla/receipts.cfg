SPECIFICATION FairSpec
CONSTANTS
    Request = {first, resent}
    HashOf <- MCHashOf
    Awaited = {first}
    Watcher = {autopilot}
    ByHand = {first}
    MaxReceipts = 2
    MaxDeaths = 1
    None = None
INVARIANTS TypeOK OutcomesRest OncePerWriter
PROPERTY Drained
CHECK_DEADLOCK FALSE
