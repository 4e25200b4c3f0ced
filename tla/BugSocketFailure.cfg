SPECIFICATION Spec
CONSTANTS
    Root = 1
    Relays = {2}
    Clients = {3, 4}
    Rank <- TreeRank
    Nbr <- TreeNbr
    Joins = {3, 4}
    MAX_CHILD = 3
    MAX_PATH_NODES = 5
    NUM_NODES = 20
    CLOCK_SECOND = 100
    UIP_UDP_CONNS = 4
    NullBindTraps = TRUE
    Requests = {30}
    MaxReq = 2
    Lossy = TRUE
    SettledFirst = {2}
INVARIANTS
    SocketFailureHandled
CHECK_DEADLOCK FALSE
