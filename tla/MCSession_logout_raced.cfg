CONSTANTS
    a = a
    b = b
    a1 = a1
    a2 = a2
    a3 = a3
    b1 = b1
    None = None
    Clients = {a, b}
    Requests = {a1, a2, a3}
    Keys = {"cart"}
    ClientOf <- Browsers
    RouteOps = {"put", "destroy"}
    Ops <- Routes
    TTL = 1
    MaxDraws = 2
    MaxInFlight = 2
    MaxClock = 0
SPECIFICATION Spec
INVARIANT
    LogoutInvalidates
