CONSTANTS
    a = a
    b = b
    a1 = a1
    a2 = a2
    a3 = a3
    b1 = b1
    None = None
    Clients = {a, b}
    Requests = {a1, a2, a3}
    Keys = {"cart"}
    ClientOf <- Browsers
    RouteOps = {"put", "forget", "flash", "flush", "destroy", "set_subject", "regenerate", "login"}
    Ops <- Routes
    TTL = 1
    MaxDraws = 2
    MaxInFlight = 1
    MaxClock = 0
SYMMETRY Swaps
VIEW Relevant
SPECIFICATION Spec
INVARIANTS
    RetiredIdsGone
    NoEntryLeftBehind
PROPERTY
    ImplementsCell
