CONSTANTS
    config = config
    pool = pool
    user = user
    main = main
    worker = worker
    None = None
    Types = {config, pool, user}
    Recipes <- Independent
    Threads = {main, worker}
    Main = main
    Scopes = {"root", "request"}
    Root = "root"
    MaxDepth = 4
    MaxCalls <- TwoCallsOfWorker
SPECIFICATION Spec
INVARIANT
    CyclesAreReal
CHECK_DEADLOCK FALSE
