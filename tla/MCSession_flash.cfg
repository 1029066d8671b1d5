CONSTANTS
    a = a
    b = b
    a1 = a1
    a2 = a2
    a3 = a3
    b1 = b1
    None = None
    Clients = {a, b}
    Requests = {a1, a2, a3}
    Keys = {}
    ClientOf <- Browsers
    RouteOps = {"flash"}
    Ops <- Routes
    TTL = 1
    MaxDraws = 2
    MaxInFlight = 1
    MaxClock = 0
SPECIFICATION Spec
INVARIANT
    FlashReadOnce
