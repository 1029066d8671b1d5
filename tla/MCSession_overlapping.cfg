CONSTANTS
    a = a
    b = b
    a1 = a1
    a2 = a2
    a3 = a3
    b1 = b1
    None = None
    Clients = {a, b}
    Requests = {a1, a2, a3, b1}
    Keys = {}
    ClientOf <- Browsers
    RouteOps = {"flash", "flush", "regenerate", "login", "destroy"}
    Ops <- Routes
    TTL = 1
    MaxDraws = 2
    MaxInFlight = 3
    MaxClock = 2
SYMMETRY Swaps
VIEW Relevant
CONSTRAINT Either
SPECIFICATION Spec
INVARIANTS
    TypeOK
    FixationDefeated
    FlashConsumed
    SessionsIsolated
PROPERTY
    DeadIdsStayDead
