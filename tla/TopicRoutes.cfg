CONSTANTS
    o = o
    a = a
    b = b
    Node = {o, a, b}
    Link <- Triangle
    Origin = o
    LEASE = 1
    MAX_TTL = 3
    CALM = 3
    MaxSeq = 4
    MaxFaults = 1
SPECIFICATION RouteSpec
INVARIANTS RouteInv RoutesRecover RoutesForgotten
CHECK_DEADLOCK FALSE
