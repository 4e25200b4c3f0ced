------------------------------- MODULE Swarm --------------------------------
(***************************************************************************)
(* The first round of SWARNA: the verifier's requests, the border router,  *)
(* the relays and the clients, over a radio that reorders and may lose     *)
(* datagrams.  Each action is one Contiki event handled to completion by   *)
(* one mote; motes interleave.  Time is abstract: an armed timer may fire  *)
(* at any moment.                                                          *)
(***************************************************************************)
EXTENDS Relay

CONSTANTS
    Requests,   \* the request types the verifier sends: a subset of ReqTypes
    MaxReq,     \* bound: requests the verifier sends
    Lossy,      \* may datagrams be lost?
    SettledFirst \* relays whose network_settled ran before the verifier starts

ASSUME SwarmAssumption ==
    /\ Requests \subseteq ReqTypes /\ MaxReq \in Nat /\ Lossy \in BOOLEAN
    /\ SettledFirst \subseteq Relays

VARIABLES
    relay,      \* relay[r]: the globals of relay r
    client,     \* client[c]: the globals of client c
    root,       \* border router: cnt, and the ids on its agg_path lines
    net,        \* datagrams in flight
    reqs        \* requests the verifier has sent

vars == <<relay, client, root, net, reqs>>

-----------------------------------------------------------------------------
(* client-node/udp-client.c: sink, secreq and broadcast connections open.  *)
ClientBoot == [checksum |-> {}, conns |-> 3, fault |-> FALSE]

\* A client answers every datagram its process is given: requests on the
\* multicast port and, once send_to_parents has left a connection bound to
\* PARENT_UDP_CHECKSUM_PORT, the responses of its neighbours too.  Without the
\* group the process has exited.
ClientAccepts(c, s, d) ==
    /\ join_mcast_group(c)
    /\ d.port = MCAST_SINK_UDP_PORT \/ s.conns > ClientBoot.conns

client_tcpip_handler(c, s, pkt) ==
    LET resp == create_response(c, pkt)
        s1   == [s EXCEPT !.checksum = attest_memory(c)]
    IN  IF pkt.pkt_type = TOPOLOGY
        THEN [st |-> get_parent_conn(s1), out |-> send_to_parents(c, s1, resp, TRUE)]
        ELSE [st |-> s1, out |-> broadcast_to_parents(c, resp)]

ClientReceive(c, s, d) ==
    IF ClientAccepts(c, s, d) THEN client_tcpip_handler(c, s, d.pkt)
                           ELSE [st |-> s, out |-> {}]

-----------------------------------------------------------------------------
(* border-router.c *)

\* udp_checksum_callback: count an attestation, log a topology path.
udp_checksum_callback(s, pkt) ==
    CASE pkt.pkt_type = TOPOLOGY ->
           [s EXCEPT !.agg = @ \cup {pkt.path[i] : i \in 1..Len(pkt.path)}]
      [] pkt.pkt_type = ATTESTATION -> [s EXCEPT !.cnt = @ + 1]
      [] OTHER -> s

\* multicast_send: only the motes with no child below them ever join.
multicast_send(type) ==
    {Datagram(Root, n, MCAST_SINK_UDP_PORT, Request(type)) :
        n \in Clients \cup {r \in Relays : \A p \in Nbr[r] : Rank[p] <= Rank[r]}}

-----------------------------------------------------------------------------
Init ==
    /\ relay = [r \in Relays |-> IF r \in SettledFirst THEN network_settled(r, RelayBoot)
                                                       ELSE RelayBoot]
    /\ client = [c \in Clients |-> ClientBoot]
    /\ root = [cnt |-> 0, agg |-> {}]
    /\ net = {}
    /\ reqs = 0

\* The verifier's request reaches the border router (tcpip_handler).
VerifierRequest(type) ==
    /\ reqs < MaxReq
    /\ reqs' = reqs + 1
    /\ root' = [root EXCEPT !.cnt = 0]
    /\ net' = net \cup multicast_send(type)
    /\ UNCHANGED <<relay, client>>

Settle(r) ==
    /\ ~relay[r].settled /\ ~relay[r].fault
    /\ relay' = [relay EXCEPT ![r] = network_settled(r, @)]
    /\ UNCHANGED <<client, root, net, reqs>>

DeliverRelay(d) ==
    /\ d.dst \in Relays /\ ~relay[d.dst].fault
    /\ LET rx == RelayReceive(d.dst, relay[d.dst], d)
       IN  /\ relay' = [relay EXCEPT ![d.dst] = rx.st]
           /\ net' = (net \ {d}) \cup rx.out
    /\ UNCHANGED <<client, root, reqs>>

DeliverClient(d) ==
    /\ d.dst \in Clients /\ ~client[d.dst].fault
    /\ LET rx == ClientReceive(d.dst, client[d.dst], d)
       IN  /\ client' = [client EXCEPT ![d.dst] = rx.st]
           /\ net' = (net \ {d}) \cup rx.out
    /\ UNCHANGED <<relay, root, reqs>>

DeliverRoot(d) ==
    /\ d.dst = Root
    /\ root' = udp_checksum_callback(root, d.pkt)
    /\ net' = net \ {d}
    /\ UNCHANGED <<relay, client, reqs>>

Lose(d) ==
    /\ Lossy
    /\ net' = net \ {d}
    /\ UNCHANGED <<relay, client, root, reqs>>

\* periodic_timer expires and runs its callback.
PeriodicTimer(r) ==
    /\ relay[r].periodic_timer.armed /\ ~relay[r].fault
    /\ LET s == [relay[r] EXCEPT !.periodic_timer.armed = FALSE]
           topo == send_topology_resp(r, s)
       IN  \/ /\ s.periodic_timer.f = "send_topology_resp"
              /\ relay' = [relay EXCEPT ![r] = topo.st]
              /\ net' = net \cup topo.out
           \/ /\ s.periodic_timer.f = "send_attestation_resp"
              /\ relay' = [relay EXCEPT ![r] = send_attestation_resp(r, s)]
              /\ UNCHANGED net
           \/ /\ s.periodic_timer.f = "none"
              /\ relay' = [relay EXCEPT ![r] = s]
              /\ UNCHANGED net
    /\ UNCHANGED <<client, root, reqs>>

\* p_timer expires: whatever ctimer_resp holds now is broadcast.
PTimer(r) ==
    /\ relay[r].p_timer /\ ~relay[r].fault
    /\ relay' = [relay EXCEPT ![r].p_timer = FALSE]
    /\ net' = net \cup broadcast_to_parents(r, relay[r].ctimer_resp)
    /\ UNCHANGED <<client, root, reqs>>

Deliver(d) == DeliverRelay(d) \/ DeliverClient(d) \/ DeliverRoot(d)

Next ==
    \/ \E type \in Requests : VerifierRequest(type)
    \/ \E d \in net : Deliver(d) \/ Lose(d)
    \/ \E r \in Relays : Settle(r) \/ PeriodicTimer(r) \/ PTimer(r)

Spec == Init /\ [][Next]_vars

\* As long as the radio carries a datagram or a timer is set, something
\* happens: it is delivered, or Contiki runs the timer.  Which goes first is
\* open, and nobody promises that the verifier asks.
SwarmStep ==
    \/ \E r \in Relays : Settle(r) \/ PTimer(r) \/ PeriodicTimer(r)
    \/ \E d \in net : DeliverRoot(d) \/ DeliverClient(d)
    \/ \E d \in net : DeliverRelay(d) \/ Lose(d)

Fairness == WF_vars(SwarmStep)

FairSpec == Spec /\ Fairness

-----------------------------------------------------------------------------
(* Types *)

TopologyPackets ==
    [pkt_type : {TOPOLOGY}, path : Seq(Nodes \cup {0}), pathindex : Int,
     max_leaf_rank : UInt16, checksum : SUBSET Word]

AttPackets == [pkt_type : {0, ATTESTATION}, checksum : SUBSET Word]

RequestPackets == [pkt_type : ReqTypes]

RelayStates ==
    [child_list : SUBSET Nodes, received_pkt : SUBSET Nodes,
     checksum_children : Seq(SUBSET Word),
     max_index : Nat, first_round_completed : BOOLEAN, my_checksum : SUBSET Word,
     paths : Seq(Nodes \cup {0}), first_child : BOOLEAN, max_leaf_rank : UInt16,
     periodic_timer : [armed : BOOLEAN, f : Callbacks, timeout : Nat],
     p_timer : BOOLEAN, ctimer_resp : AttPackets,
     conns : 0..UIP_UDP_CONNS, settled : BOOLEAN, sink : BOOLEAN, fault : BOOLEAN]

ClientStates ==
    [checksum : SUBSET Word, conns : 0..UIP_UDP_CONNS, fault : BOOLEAN]

\* What each port carries.
Datagrams ==
    [src : Nodes, dst : Nodes, port : {MCAST_SINK_UDP_PORT}, pkt : RequestPackets]
    \cup [src : Nodes, dst : Nodes, port : {PARENT_UDP_CHECKSUM_PORT}, pkt : TopologyPackets]
    \cup [src : Nodes, dst : Nodes, port : {CHECKSUM_PORT}, pkt : AttPackets]

\* Every global keeps its C type: ids, ranks, timeouts, checksums of
\* 64 bits, and no more UDP connections than uIP's table holds; each port only
\* carries packets its receiver can read.
TypeOK ==
    /\ relay \in [Relays -> RelayStates]
    /\ client \in [Clients -> ClientStates]
    /\ root \in [cnt : Nat, agg : SUBSET (Nodes \cup {0})]
    /\ net \subseteq Datagrams
    /\ reqs \in 0..MaxReq

-----------------------------------------------------------------------------
(* Properties.  Which of them hold depends on what the verifier asks for   *)
(* (Requests, MaxReq) and on the shape of the swarm; README.md says which  *)
(* run checks what.                                                        *)

PathIds(path) == {path[i] : i \in 1..Len(path)}

TopologyInFlight == {d \in net : d.pkt.pkt_type = TOPOLOGY /\ d.port = PARENT_UDP_CHECKSUM_PORT}

\* XOR of the checksums of the motes of S, each once.
XorOf(S) == {b \in Word : Cardinality({n \in S : b \in attest_memory(n)}) % 2 = 1}

\* A topology response that goes up the swarm, however its path was merged,
\* filtered and split by process_topology_req: pathindex was set, it fits the
\* path array with a slot to spare, no mote is named twice, the sender comes
\* last and everybody before it is further from the root.
PathWellFormed ==
    \A d \in TopologyInFlight :
        LET path == d.pkt.path
        IN  /\ d.pkt.pathindex = Len(path)
            /\ Len(path) \in 1..(MAX_PATH_NODES - 1)
            /\ path[Len(path)] = d.src
            /\ \A i \in 1..(Len(path) - 1) : path[i] # 0 /\ Rank[path[i]] > Rank[d.src]
            /\ \A i, j \in 1..Len(path) : i # j => path[i] # path[j]

\* Between events a relay has at least one free slot before the flush mark:
\* the "path full" branch of send_topology_resp, which would send an
\* uninitialised pathindex, is dead code.
PathHasRoom == \A r \in Relays : Len(relay[r].paths) < MAX_PATH_NODES - 2

\* The copy loop of process_topology_req, in which paths_loc lags behind i and a
\* flush may come in the middle of a packet, does what copy_paths says it
\* does: for every packet on its way to a relay and, before the verifier asks,
\* for all that a relay can hold and a packet can carry.
Paths(n) == UNION {[1..k -> Relays \cup Clients] : k \in 0..n}

Holding(s, held) == [s EXCEPT !.checksum_children = <<{0}>>, !.paths = held]

CopyIsLoop ==
    \A r \in Relays :
        /\ \A d \in TopologyInFlight : d.dst = r =>
              copy_loop(r, relay[r], d.pkt.path) = copy_paths(r, relay[r], d.pkt.path)
        /\ reqs = 0 => \A held \in Paths(PathRoom - 1), path \in Paths(PathRoom + 1) :
              LET s == Holding(relay[r], held)
              IN  copy_loop(r, s, path) = copy_paths(r, s, path)

\* A relay never sits on a child's topology response without a timer that
\* will send it (udp-relay.c: "Do not hold the response forever").  Claimed
\* when the verifier asks for topologies only.
HeldHasTimer ==
    \A r \in Relays :
        /\ ~relay[r].fault
        /\ relay[r].checksum_children # <<>> \/ relay[r].paths # <<>>
        => /\ relay[r].periodic_timer.armed
           /\ relay[r].periodic_timer.f = "send_topology_resp"

\* Topology responses alone never overrun checksum_children, however many
\* packets each child sends: a relay between events has heard fewer than it
\* has children.
TopologyFits ==
    \A r \in Relays :
        \/ relay[r].checksum_children = <<>>
        \/ Len(relay[r].checksum_children) < get_child_count(relay[r])

\* Topology ids are handed on, never dropped: what a relay held, or was sent
\* by a child, is afterwards held or in a packet the relay sent - as long as
\* send_to_parents still gets a connection.
InFlightFrom(r) == UNION {PathIds(d.pkt.path) : d \in {e \in TopologyInFlight : e.src = r}}

GivenTo(r) ==
    UNION {PathIds(d.pkt.path) : d \in {e \in TopologyInFlight \ TopologyInFlight' :
              e.dst = r /\ is_child(relay[r], e.src) /\ relay'[r] # relay[r]}}

IdsHandedOn ==
    \A r \in Relays :
        ConnFree(relay'[r]) /\ ~relay'[r].fault =>
            PathIds(relay[r].paths) \cup GivenTo(r)
                \subseteq PathIds(relay'[r].paths) \cup (InFlightFrom(r))'

NoIdLost == [][IdsHandedOn]_vars

\* Where the checksums of a swarm add up.  process_attestation_req stores the
\* checksum of whoever is heard, a parent's broadcast too (udp-relay.c:254), so
\* for attestations a relay must hear nobody but motes further from the root.
RelaysHearBelow ==
    \A n \in Relays \cup Clients, r \in Relays : r \in Nbr[n] => Rank[n] > Rank[r]

\* One layer of relays around the border router, the clients of a relay below
\* it, and no two clients in range.
OneLayer ==
    \A n \in Relays \cup Clients : \A m \in Nbr[n] \ {Root} :
        \/ n \in Relays  /\ m \in Clients /\ Rank[n] < Rank[m]
        \/ n \in Clients /\ m \in Relays  /\ Rank[n] > Rank[m]

\* What the verifier relies on in a topology response: its checksum is the
\* XOR of the checksums of exactly the motes its path names.  Claimed for one
\* layer of settled relays and one request.  It fails with a second layer: a
\* lower relay whose timer goes off after it has sent everything reports
\* itself once more, and the upper one filters its id but not its checksum.
ChecksumMatchesPath ==
    \A d \in TopologyInFlight : d.pkt.checksum = XorOf(PathIds(d.pkt.path))

\* A response, topology or attestation, covers its sender and, each at most
\* once, motes further from the root, however many rounds and partial answers
\* were merged.  Claimed for topologies in any swarm, for attestations where
\* RelaysHearBelow.
AggregateFromBelow ==
    \A d \in net : d.port # MCAST_SINK_UDP_PORT =>
        \E S \in SUBSET {n \in Nodes : Rank[n] > Rank[d.src]} :
            d.pkt.checksum = XorOf(S \cup {d.src})

\* A request, over a radio that loses nothing, gets every client onto the
\* border router's agg_path lines.  Claimed for topologies when every relay
\* settled first.
EveryClientReported == reqs > 0 ~> Clients \subseteq root.agg

\* What p_timer will broadcast is a finished, non-zero aggregate, never the
\* zeroed or half-written ctimer_resp.
BroadcastIsAggregate ==
    \A r \in Relays : relay[r].p_timer =>
        relay[r].ctimer_resp.pkt_type = ATTESTATION /\ relay[r].ctimer_resp.checksum # {}

\* How long a relay waits for the rest of its children when the first one has
\* answered an attestation (udp-relay.c:269): ten frames, in ticks, for every hop
\* (FrameTicks) that some mote below it is away, if it has learnt the rank of a
\* leaf from topology responses (udp-relay.c:110: "number of hops to the farthest
\* leaf node").  If it has learnt none, max_leaf_rank is 0, the difference of the
\* ranks negative and the uint8_t wraps: 256 minus its own hops.  Claimed for the
\* ranks OF0 gives, RanksCountHops; and for the step that starts the timer, which
\* ctimer_reset may start again later.
RanksCountHops == \A n \in Nodes : Rank[n] % 768 = 256

OwnHops(r) == (Rank[r] - 256) \div 768

\* hops is what relay r knows of the depth of the swarm below it.
HopsBelow(r, hops) ==
    \/ /\ relay[r].max_leaf_rank > 0
       /\ \E n \in Nodes : Rank[n] > Rank[r] /\ hops = (Rank[n] - Rank[r]) \div 768
    \/ /\ relay[r].max_leaf_rank = 0
       /\ hops = (256 - OwnHops(r)) % 256

TimeoutCountsHops ==
    [][\A r \in Relays :
          relay[r].first_child /\ ~relay'[r].first_child
          => \E hops \in 0..255 :
                /\ HopsBelow(r, hops)
                /\ relay'[r].periodic_timer =
                     [armed |-> TRUE, f |-> "send_attestation_resp",
                      timeout |-> hops * FrameTicks]]_vars

-----------------------------------------------------------------------------
(* Statements of the repository about itself that the code does not keep.  *)

\* udp-relay.c:70, in reset_variable: "Copy to second round variables".  A relay
\* that has just handed on children's checksums remembers how many they were.
SecondRoundKept ==
    [][\A r \in Relays :
          /\ relay[r].checksum_children # <<>>
          /\ relay'[r].checksum_children = <<>>
          => relay'[r].max_index > 0]_vars

\* utility-functions.c:107: "Failed to create socket to parent" - running out of
\* connections is a case that is handled, not one that stops the mote.
SocketFailureHandled ==
    /\ \A r \in Relays : relay[r].fault => ConnFree(relay[r])
    /\ \A c \in Clients : client[c].fault => ConnFree(client[c])
=============================================================================
