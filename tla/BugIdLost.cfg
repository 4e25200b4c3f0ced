SPECIFICATION Spec
CONSTANTS
    Root = 1
    Relays = {2, 3}
    Clients = {4, 8}
    Rank <- DeepRank
    Nbr <- DeepNbr
    Joins = {4, 8}
    MAX_CHILD = 3
    MAX_PATH_NODES = 5
    NUM_NODES = 20
    CLOCK_SECOND = 100
    UIP_UDP_CONNS = 10
    NullBindTraps = TRUE
    Requests = {30, 40}
    MaxReq = 2
    Lossy = TRUE
    SettledFirst = {2, 3}
PROPERTIES
    NoIdLost
CHECK_DEADLOCK FALSE
