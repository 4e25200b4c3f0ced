-------------------------------- MODULE Node --------------------------------
(***************************************************************************)
(* What every mote of the swarm is linked with: the identities, checksums, *)
(* packets and sockets of utility-functions.c and utility-functions.h.     *)
(*                                                                         *)
(* The RPL routing state (rank and neighbour table of each mote) is kept   *)
(* by Contiki; that it is constant is an assumption of the model: the call *)
(* of stop_parent_switch() is commented out.  The build is the shipped     *)
(* one: BROADCAST_TO_PARENTS 1, ATTESTATION_TIME_TEST 1, BINARY_TREE 0.    *)
(***************************************************************************)
EXTENDS Integers, Sequences, FiniteSets

CONSTANTS
    Root,            \* id of the border router
    Relays,          \* ids of the motes running udp-relay.c
    Clients,         \* ids of the motes running udp-client.c
    Rank,            \* RPL rank of every mote
    Nbr,             \* radio neighbours = entries of rpl_parents
    Joins,           \* motes on which uip_ds6_maddr_add finds a free entry
    MAX_CHILD,       \* size of checksum_children and of the child table
    MAX_PATH_NODES,  \* size of a path array
    NUM_NODES,       \* assumed depth of the swarm, for the topology timeout
    CLOCK_SECOND,    \* ticks of Contiki's clock per second: 100 on the IoT-LAB M3,
                     \* 1000 on other platforms
    UIP_UDP_CONNS,   \* size of uIP's table of UDP connections
    NullBindTraps    \* does the MCU trap the store of udp_bind(NULL, port)?

Nodes == {Root} \cup Relays \cup Clients

UInt16 == {n \in Nat : n < 65536}

ASSUME NodesAssumption ==
    /\ Nodes \subseteq UInt16 \ {0}
    /\ Root \notin Relays /\ Root \notin Clients /\ Relays \cap Clients = {}

ASSUME RankAssumption == Rank \in [Nodes -> UInt16]

ASSUME NbrAssumption == Nbr \in [Nodes -> SUBSET Nodes]

ASSUME JoinsAssumption == Joins \subseteq Nodes

ASSUME SizesAssumption ==
    /\ MAX_CHILD \in 1..255
    /\ MAX_PATH_NODES \in 3..255
    /\ NUM_NODES \in 0..255
    /\ CLOCK_SECOND \in Nat \ {0}
    /\ UIP_UDP_CONNS \in Nat /\ UIP_UDP_CONNS >= 4
    /\ NullBindTraps \in BOOLEAN

TOPOLOGY    == 30
ATTESTATION == 40
ReqTypes    == {TOPOLOGY, ATTESTATION}

RPL_MIN_HOPRANKINC == 256

\* join_mcast_group of clients and of childless relays: not NULL.
join_mcast_group(n) == n \in Joins

\* Length of a broadcast frame.
FRAME_LENGTH == 31

-----------------------------------------------------------------------------
(* Checksums: a uint64_t is the set of its one bits, XOR their symmetric   *)
(* difference.                                                             *)

Word == 0..63

Xor(a, b) == (a \ b) \cup (b \ a)

\* XOR of the words of a sequence: the bits that an odd number of them set.
XorAll(ws) == {b \in Word : Cardinality({k \in 1..Len(ws) : b \in ws[k]}) % 2 = 1}

\* The bits of the 16-bit mote id.
IdBits(n) == {b \in 0..15 : (n \div 2^b) % 2 = 1}

\* 0x11e108b7
Seed == {0, 1, 2, 4, 5, 7, 11, 16, 21, 22, 23, 24, 28}

\* attest_memory: the real memory walk is commented out; the nonce is unused.
attest_memory(n) == Xor(Seed, IdBits(n))

-----------------------------------------------------------------------------
(* Packets.  A response starts with the same pkt_type byte as a request.   *)

UNINIT == -1      \* a field of a stack packet that was never written

TopologyResp(path, pathindex, max_leaf_rank, checksum) ==
    [pkt_type |-> TOPOLOGY, path |-> path, pathindex |-> pathindex,
     max_leaf_rank |-> max_leaf_rank, checksum |-> checksum]

AttResp(checksum) == [pkt_type |-> ATTESTATION, checksum |-> checksum]

Request(type) == [pkt_type |-> type]

\* create_response of a client or of a leaf relay: what it answers to mpkt.
create_response(n, mpkt) ==
    IF mpkt.pkt_type = TOPOLOGY
    THEN TopologyResp(<<n>>, 1, Rank[n], attest_memory(n))
    ELSE AttResp(attest_memory(n))

(* A datagram in flight.  port: 5001 multicast requests, 4005 unicast      *)
(* responses, 4010 link-local broadcast responses.                         *)
MCAST_SINK_UDP_PORT      == 5001
PARENT_UDP_CHECKSUM_PORT == 4005
CHECKSUM_PORT            == 4010

Datagram(src, dst, port, pkt) ==
    [src |-> src, dst |-> dst, port |-> port, pkt |-> pkt]

\* broadcast_to_parents: link-local all-nodes.  A client's receiver for this
\* port only logs, so no copy for a client is kept in flight.
broadcast_to_parents(n, pkt) ==
    {Datagram(n, m, CHECKSUM_PORT, pkt) : m \in Nbr[n] \ Clients}

rpl_neighbor_is_parent(n, p, is_client) == is_client \/ Rank[p] < Rank[n]

(* udp_new takes a free entry of uIP's table or returns NULL, and udp_bind *)
(* stores through whatever it returned; the store through NULL traps or    *)
(* not depending on the MCU.  s is the state of a mote, with fields conns  *)
(* and fault.                                                              *)
ConnFree(s) == s.conns < UIP_UDP_CONNS

\* Mutant: a connection is taken even when the table is full.
udp_new_bind_Unchecked(s) == [s EXCEPT !.conns = @ + 1]

udp_new_bind(s) ==
    IF ConnFree(s) THEN [s EXCEPT !.conns = @ + 1]
                   ELSE [s EXCEPT !.fault = @ \/ NullBindTraps]

\* A new connection on every call of send_to_parents, never freed.
get_parent_conn(s) == udp_new_bind(s)

\* What send_to_parents sends; with no connection it returns.
send_to_parents(n, s, pkt, is_client) ==
    IF ConnFree(s)
    THEN {Datagram(n, p, PARENT_UDP_CHECKSUM_PORT, pkt) :
             p \in {q \in Nbr[n] : rpl_neighbor_is_parent(n, q, is_client)}}
    ELSE {}
=============================================================================
