CONSTANTS
    config = config
    pool = pool
    user = user
    main = main
    worker = worker
    None = None
    Types = {config, pool, user}
    Recipes <- Catalogue
    Threads = {main, worker}
    Main = main
    Scopes = {"root", "request"}
    Root = "root"
    MaxDepth = 4
    MaxCalls <- OneCallEach
SPECIFICATION FairSpec
INVARIANTS
    TypeOK
    CallersAgree
    CyclesRealUntilPanic
    BootedMeansReady
PROPERTY
    EveryCallReturns
CHECK_DEADLOCK FALSE
