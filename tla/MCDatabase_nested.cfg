CONSTANTS
    first = first
    second = second
    Tasks = {first}
    PoolSizes = {1, 2}
    Pool = Pool
    None = None
    Nesting = TRUE
    MaxScopes <- TwoAndOne
SPECIFICATION Spec
INVARIANT
    RollbackLeavesNothing
CHECK_DEADLOCK FALSE
