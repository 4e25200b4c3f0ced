SPECIFICATION Spec
CONSTANTS
    Root = 1
    Relays = {2}
    Clients = {3, 4}
    Rank <- TreeRank
    Nbr <- RangeNbr
    Joins = {3, 4}
    MAX_CHILD = 3
    MAX_PATH_NODES = 4
    NUM_NODES = 20
    CLOCK_SECOND = 1000
    UIP_UDP_CONNS = 5
    NullBindTraps = FALSE
    Requests = {30, 40}
    MaxReq = 2
    Lossy = FALSE
    SettledFirst = {}
INVARIANTS
    TypeOK
    PathHasRoom
    BroadcastIsAggregate
    PathWellFormed
PROPERTIES
    TimeoutCountsHops
CHECK_DEADLOCK FALSE
