SPECIFICATION FairSpec
CONSTANTS
    Connections = {1}
    CONNS = 1
    NumNbrs = 1
    NbrEnd <- Lines39
    NumRoutes = 0
    RouteLen <- Longest
    Motes = {m1}
    m1 = m1
    Host = Host
    Nobody = Nobody
INVARIANTS
    RadioAfterRoot
    SlipFilter
    FramesWhole
PROPERTIES
    Boots
    Released
CHECK_DEADLOCK FALSE
