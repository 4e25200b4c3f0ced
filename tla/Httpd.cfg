SPECIFICATION HSpec
CONSTANTS
    c1 = c1
    c2 = c2
    c3 = c3
    Connections = {c1, c2, c3}
    CONNS = 2
    NumNbrs = 7
    NbrEnd <- Lines39
    NumRoutes = 2
    RouteLen <- Longest
SYMMETRY Peers
INVARIANTS
    HTypeOK
    PoolExact
    BufferFits
    PageReceived
CHECK_DEADLOCK FALSE
