SPECIFICATION FairSpec
CONSTANTS
    Root = 1
    Relays = {2, 3, 4}
    Clients = {5, 6}
    Rank <- MeshRank
    Nbr <- MeshNbr
    Joins = {5, 6}
    MAX_CHILD = 3
    MAX_PATH_NODES = 5
    NUM_NODES = 20
    CLOCK_SECOND = 100
    UIP_UDP_CONNS = 10
    NullBindTraps = TRUE
    Requests = {30}
    MaxReq = 1
    Lossy = FALSE
    SettledFirst = {2, 3, 4}
INVARIANTS
    PathWellFormed
    CopyIsLoop
PROPERTIES
    EveryClientReported
CHECK_DEADLOCK FALSE
