CONSTANTS
    first = first
    second = second
    Tasks = {first, second}
    PoolSizes = {1, 2}
    Pool = Pool
    None = None
    Nesting = FALSE
    MaxScopes <- TwoAndOne
SPECIFICATION FairSpec
INVARIANTS
    TypeOK
    RollbackLeavesNothing
    OutcomesAreTrue
    HandlesAreLive
PROPERTY
    WaitsEnd
CHECK_DEADLOCK FALSE
