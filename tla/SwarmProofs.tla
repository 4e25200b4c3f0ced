---------------------------- MODULE SwarmProofs -----------------------------
(***************************************************************************)
(* What TLAPS proves of Swarm.tla, for every swarm: any number of relays   *)
(* and clients, any neighbourhood and ranks, any array sizes.              *)
(***************************************************************************)
EXTENDS Swarm, FiniteSetTheorems, TLAPS

-----------------------------------------------------------------------------
(* The inductive invariant, as a statement about one relay and one set of  *)
(* datagrams.                                                              *)

\* Only a mote without children listens for multicast requests: a relay with
\* children never takes a request for a response.
SinkIsLeaf(s) == s.sink => s.settled /\ s.child_list = {}

RelayOK(s) ==
    /\ s \in RelayStates
    /\ Len(s.paths) < PathRoom
    /\ SinkIsLeaf(s)

\* A topology response leaves a slot of its path array free; that is why the
\* copy loop flushes at most twice.  The border router gets no request.
OutOK(out) ==
    /\ out \subseteq Datagrams
    /\ \A d \in out : d.port = MCAST_SINK_UDP_PORT => d.dst # Root
    /\ \A d \in out : d.port = PARENT_UDP_CHECKSUM_PORT => Len(d.pkt.path) <= PathRoom + 1

\* t differs from s at most in what sending a response changes.
SameTable(s, t) ==
    t.child_list = s.child_list /\ t.sink = s.sink /\ t.settled = s.settled

PathInv ==
    /\ TypeOK
    /\ \A r \in Relays : RelayOK(relay[r])
    /\ OutOK(net)

-----------------------------------------------------------------------------
(* Checksums, packets, connections. *)

\* The checksums attest_memory and the XOR loops compute are 64-bit words.
LEMMA ChecksumType ==
    /\ \A n : attest_memory(n) \in SUBSET Word
    /\ \A ws : XorAll(ws) \in SUBSET Word
    /\ \A a, b \in SUBSET Word : Xor(a, b) \in SUBSET Word
  BY DEF attest_memory, XorAll, Xor, Seed, IdBits, Word

\* Ranks are uint16_t.
LEMMA RankType == \A n \in Nodes : Rank[n] \in UInt16
  BY RankAssumption

\* Neighbours are motes.
LEMMA NbrType == \A n \in Nodes : Nbr[n] \subseteq Nodes
  BY NbrAssumption

\* There are finitely many motes: their ids are uint16_t.
LEMMA NodesFinite == IsFiniteSet(Nodes)
<1>1. ASSUME NEW n \in Nat PROVE IsFiniteSet({m \in Nat : m < n})
  <2>1. IsFiniteSet(0..n)
    BY FS_Interval
  <2>2. {m \in Nat : m < n} \subseteq 0..n
    OBVIOUS
  <2> QED
    BY <2>1, <2>2, FS_Subset
<1>2. IsFiniteSet(UInt16)
  BY <1>1 DEF UInt16
<1>3. Nodes \subseteq UInt16
  BY NodesAssumption
<1> QED
  BY <1>2, <1>3, FS_Subset

\* create_response builds a packet of one of the two response types.
LEMMA CreateResponseType ==
    ASSUME NEW n \in Nodes, NEW pkt
    PROVE  /\ pkt.pkt_type = TOPOLOGY =>
                /\ create_response(n, pkt) \in TopologyPackets
                /\ Len(create_response(n, pkt).path) = 1
           /\ pkt.pkt_type # TOPOLOGY => create_response(n, pkt) \in AttPackets
<1>1. <<n>> \in Seq(Nodes \cup {0}) /\ Len(<<n>>) = 1
  OBVIOUS
<1>2. attest_memory(n) \in SUBSET Word /\ Rank[n] \in UInt16
  BY ChecksumType, RankType
<1>3. /\ TopologyResp(<<n>>, 1, Rank[n], attest_memory(n)) \in TopologyPackets
      /\ TopologyResp(<<n>>, 1, Rank[n], attest_memory(n)).path = <<n>>
  BY <1>1, <1>2 DEF TopologyResp, TopologyPackets
<1>4. AttResp(attest_memory(n)) \in AttPackets
  BY <1>2 DEF AttResp, AttPackets
<1> QED
  BY <1>1, <1>3, <1>4 DEF create_response

\* What send_to_parents puts on the air.
LEMMA SendToParentsType ==
    ASSUME NEW n \in Nodes, NEW s, NEW pkt \in TopologyPackets, NEW is_client,
           Len(pkt.path) <= PathRoom + 1
    PROVE  OutOK(send_to_parents(n, s, pkt, is_client))
<1>1. ASSUME NEW p \in Nodes
      PROVE  /\ Datagram(n, p, PARENT_UDP_CHECKSUM_PORT, pkt) \in Datagrams
             /\ Datagram(n, p, PARENT_UDP_CHECKSUM_PORT, pkt).pkt = pkt
             /\ Datagram(n, p, PARENT_UDP_CHECKSUM_PORT, pkt).port # MCAST_SINK_UDP_PORT
  BY DEF Datagram, Datagrams, PARENT_UDP_CHECKSUM_PORT, MCAST_SINK_UDP_PORT
<1>2. {q \in Nbr[n] : rpl_neighbor_is_parent(n, q, is_client)} \subseteq Nodes
  BY NbrType
<1>3. \A d \in send_to_parents(n, s, pkt, is_client) :
         \E p \in Nodes : d = Datagram(n, p, PARENT_UDP_CHECKSUM_PORT, pkt)
  BY <1>2 DEF send_to_parents
<1> QED
  BY <1>1, <1>3 DEF OutOK

\* What broadcast_to_parents puts on the air.
LEMMA BroadcastType ==
    ASSUME NEW n \in Nodes, NEW pkt \in AttPackets
    PROVE  OutOK(broadcast_to_parents(n, pkt))
<1>1. ASSUME NEW p \in Nodes
      PROVE  /\ Datagram(n, p, CHECKSUM_PORT, pkt) \in Datagrams
             /\ Datagram(n, p, CHECKSUM_PORT, pkt).port # PARENT_UDP_CHECKSUM_PORT
             /\ Datagram(n, p, CHECKSUM_PORT, pkt).port # MCAST_SINK_UDP_PORT
  BY DEF Datagram, Datagrams, CHECKSUM_PORT, PARENT_UDP_CHECKSUM_PORT, MCAST_SINK_UDP_PORT
<1>2. \A d \in broadcast_to_parents(n, pkt) :
         \E p \in Nodes : d = Datagram(n, p, CHECKSUM_PORT, pkt)
  BY NbrType DEF broadcast_to_parents
<1> QED
  BY <1>1, <1>2 DEF OutOK

\* A relay with a new connection, or that failed to get one.
LEMMA BindType ==
    ASSUME NEW s \in RelayStates
    PROVE  /\ udp_new_bind(s) \in RelayStates
           /\ udp_new_bind(s).paths = s.paths
           /\ SameTable(s, udp_new_bind(s))
<1>1. CASE ConnFree(s)
  <2>1. s.conns + 1 \in 0..UIP_UDP_CONNS
    BY <1>1, SizesAssumption DEF ConnFree, RelayStates
  <2>2. [s EXCEPT !.conns = s.conns + 1] \in RelayStates
    BY <2>1 DEF RelayStates
  <2>3. /\ [s EXCEPT !.conns = s.conns + 1].paths = s.paths
        /\ SameTable(s, [s EXCEPT !.conns = s.conns + 1])
    BY DEF RelayStates, SameTable
  <2> QED BY <1>1, <2>2, <2>3 DEF udp_new_bind
<1>2. CASE ~ConnFree(s)
  <2>1. (s.fault \/ NullBindTraps) \in BOOLEAN
    BY SizesAssumption DEF RelayStates
  <2>2. [s EXCEPT !.fault = s.fault \/ NullBindTraps] \in RelayStates
    BY <2>1 DEF RelayStates
  <2>3. /\ [s EXCEPT !.fault = s.fault \/ NullBindTraps].paths = s.paths
        /\ SameTable(s, [s EXCEPT !.fault = s.fault \/ NullBindTraps])
    BY DEF RelayStates, SameTable
  <2> QED BY <1>2, <2>2, <2>3 DEF udp_new_bind
<1> QED
  BY <1>1, <1>2

-----------------------------------------------------------------------------
(* Sending. *)

LEMMA ResetType ==
    ASSUME NEW s \in RelayStates
    PROVE  /\ reset_variable(s) \in RelayStates
           /\ reset_variable(s).paths = <<>>
           /\ SameTable(s, reset_variable(s))
<1> DEFINE n == Len(s.checksum_children)
           t == [s EXCEPT !.first_round_completed = TRUE, !.max_index = n,
                          !.checksum_children = <<>>, !.paths = <<>>, !.first_child = TRUE]
<1>1. /\ n \in Nat
      /\ <<>> \in Seq(SUBSET Word) /\ <<>> \in Seq(Nodes \cup {0}) /\ {} \in SUBSET Nodes
  BY DEF RelayStates
<1>2. t \in RelayStates /\ t.paths = <<>> /\ SameTable(s, t)
  BY <1>1 DEF RelayStates, SameTable
<1>3. reset_variable(s) = [t EXCEPT !.received_pkt = {}]
  BY DEF reset_variable, rest_child_list
<1> HIDE DEF t
<1>4. /\ [t EXCEPT !.received_pkt = {}] \in RelayStates
      /\ [t EXCEPT !.received_pkt = {}].paths = t.paths
      /\ SameTable(t, [t EXCEPT !.received_pkt = {}])
  BY <1>1, <1>2 DEF RelayStates, SameTable
<1> QED
  BY <1>2, <1>3, <1>4 DEF SameTable

\* send_topology_resp, called with at most PathRoom ids, never takes its
\* "path full" branch.
LEMMA SendTopologyType ==
    ASSUME NEW r \in Relays, NEW s \in RelayStates, Len(s.paths) <= PathRoom
    PROVE  /\ send_topology_resp(r, s).st \in RelayStates
           /\ send_topology_resp(r, s).st.paths = <<>>
           /\ SameTable(s, send_topology_resp(r, s).st)
           /\ OutOK(send_topology_resp(r, s).out)
<1> DEFINE a == attested(r, s)
           b == get_parent_conn(a)
           c == get_combined_checksum(r, s)
           resp == TopologyResp(Append(s.paths, r), Len(s.paths) + 1, s.max_leaf_rank, c)
<1>1. r \in Nodes
  BY DEF Nodes
<1>2. ~(Len(s.paths) >= MAX_PATH_NODES - 1)
  BY SizesAssumption DEF PathRoom, RelayStates
<1>3. /\ send_topology_resp(r, s).st = reset_variable(b)
      /\ send_topology_resp(r, s).out = send_to_parents(r, s, resp, FALSE)
  BY <1>2 DEF send_topology_resp
<1>4. a \in RelayStates /\ SameTable(s, a)
  BY ChecksumType DEF attested, RelayStates, SameTable
<1>5. b \in RelayStates /\ SameTable(s, b)
  BY <1>4, BindType DEF get_parent_conn, SameTable
<1>6. c \in SUBSET Word
  BY ChecksumType DEF get_combined_checksum
<1>7. /\ Append(s.paths, r) \in Seq(Nodes \cup {0})
      /\ Len(Append(s.paths, r)) = Len(s.paths) + 1
      /\ Len(s.paths) + 1 \in Int
  BY <1>1 DEF RelayStates
<1>8. s.max_leaf_rank \in UInt16
  BY DEF RelayStates
<1>9. resp \in TopologyPackets /\ resp.path = Append(s.paths, r)
  BY <1>6, <1>7, <1>8 DEF TopologyResp, TopologyPackets
<1>10. Len(resp.path) <= PathRoom + 1
  BY <1>7, <1>9, SizesAssumption DEF PathRoom, RelayStates
<1> HIDE DEF a, b, c, resp
<1>11. OutOK(send_to_parents(r, s, resp, FALSE))
  BY <1>1, <1>9, <1>10, SendToParentsType
<1>12. /\ reset_variable(b) \in RelayStates
       /\ reset_variable(b).paths = <<>>
       /\ SameTable(b, reset_variable(b))
  BY <1>5, ResetType
<1> QED
  BY <1>3, <1>5, <1>11, <1>12 DEF SameTable

\* send_attestation_resp sends nothing itself; what it leaves for p_timer is an
\* attestation packet.
LEMMA SendAttestationType ==
    ASSUME NEW r \in Relays, NEW s, RelayOK(s)
    PROVE  RelayOK(send_attestation_resp(r, s))
<1> DEFINE a == attested(r, s)
           c == get_combined_checksum(r, s)
           t == [a EXCEPT !.ctimer_resp = AttResp(c), !.p_timer = TRUE]
<1> s \in RelayStates /\ Len(s.paths) < PathRoom /\ SinkIsLeaf(s)
  BY DEF RelayOK
<1>1. a \in RelayStates /\ SameTable(s, a) /\ a.paths = s.paths
  BY ChecksumType DEF attested, RelayStates, SameTable
<1>2. AttResp(c) \in AttPackets
  BY ChecksumType DEF get_combined_checksum, AttResp, AttPackets
<1> HIDE DEF a, c
<1>3. t \in RelayStates /\ SameTable(a, t)
  BY <1>1, <1>2 DEF RelayStates, SameTable
<1>4. /\ reset_variable(t) \in RelayStates
      /\ reset_variable(t).paths = <<>>
      /\ SameTable(t, reset_variable(t))
  BY <1>3, ResetType
<1>5. RelayOK(a)
  BY <1>1 DEF RelayOK, SameTable, SinkIsLeaf
<1>6. Len(<<>>) < PathRoom
  BY SizesAssumption DEF PathRoom
<1>7. RelayOK(reset_variable(t))
  BY <1>1, <1>3, <1>4, <1>6 DEF RelayOK, SameTable, SinkIsLeaf
<1>8. send_attestation_resp(r, s) = IF c = {} THEN a ELSE reset_variable(t)
  BY DEF send_attestation_resp, a, c, t
<1> QED
  BY <1>5, <1>7, <1>8

-----------------------------------------------------------------------------
(* Timeouts and stores. *)

\* Both factors are uint8_t, whatever the ranks, and both intervals a number of
\* ticks.
LEMMA TimeoutType ==
    ASSUME NEW r \in Relays, NEW s \in RelayStates
    PROVE  /\ get_attestation_timeout(r, s) \in 0..255
           /\ get_topology_timeout(r) \in 0..255
           /\ FrameTicks \in Nat
           /\ get_attestation_timeout(r, s) * FrameTicks \in Nat
           /\ get_topology_timeout(r) * CLOCK_SECOND \in Nat
<1>1. Rank[r] \in Int /\ s.max_leaf_rank \in Int /\ NUM_NODES \in Int
  BY RankType, SizesAssumption DEF Nodes, UInt16, RelayStates
<1>2. \A a \in Int : CDiv(a, 3) \in Int
  BY DEF CDiv
<1>3. \A a \in Int : a % 256 \in 0..255
  OBVIOUS
<1>4. /\ (s.max_leaf_rank \div RPL_MIN_HOPRANKINC) - (Rank[r] \div RPL_MIN_HOPRANKINC) \in Int
      /\ (Rank[r] \div RPL_MIN_HOPRANKINC) - 1 \in Int
  BY <1>1 DEF RPL_MIN_HOPRANKINC
<1>5. NUM_NODES - CDiv((Rank[r] \div RPL_MIN_HOPRANKINC) - 1, 3) \in Int
  BY <1>1, <1>2, <1>4
<1>6. /\ get_attestation_timeout(r, s) \in 0..255
      /\ get_topology_timeout(r) \in 0..255
  BY <1>2, <1>3, <1>4, <1>5 DEF get_attestation_timeout, get_topology_timeout
<1>7. FrameTicks \in Nat /\ CLOCK_SECOND \in Nat
  <2>1. CLOCK_SECOND \div 1000 \in Nat
    BY SizesAssumption
  <2> QED
    BY <2>1, SizesAssumption DEF FrameTicks, FRAME_LENGTH
<1>8. \A a, b \in Nat : a * b \in Nat
  OBVIOUS
<1>9. \A a \in 0..255 : a \in Nat
  OBVIOUS
<1> HIDE DEF FrameTicks
<1> QED
  BY <1>6, <1>7, <1>8, <1>9

\* Arming the timer, re-arming it, storing a checksum and marking a child leave
\* the paths and the child table alone.
LEMMA SmallStepsType ==
    ASSUME NEW s \in RelayStates
    PROVE  /\ \A t \in Nat, f \in Callbacks :
                 /\ ctimer_set(s, t, f) \in RelayStates
                 /\ ctimer_set(s, t, f).paths = s.paths
                 /\ SameTable(s, ctimer_set(s, t, f))
           /\ /\ ctimer_reset(s) \in RelayStates
              /\ ctimer_reset(s).paths = s.paths
              /\ SameTable(s, ctimer_reset(s))
           /\ \A c \in SUBSET Word :
                 /\ store_checksum(s, c) \in RelayStates
                 /\ store_checksum(s, c).paths = s.paths
                 /\ SameTable(s, store_checksum(s, c))
           /\ \A id :
                 /\ child_set_pkt_received(s, id) \in RelayStates
                 /\ child_set_pkt_received(s, id).paths = s.paths
                 /\ SameTable(s, child_set_pkt_received(s, id))
<1>1. ASSUME NEW t \in Nat, NEW f \in Callbacks
      PROVE  /\ ctimer_set(s, t, f) \in RelayStates
             /\ ctimer_set(s, t, f).paths = s.paths
             /\ SameTable(s, ctimer_set(s, t, f))
  <2> DEFINE tm == [armed |-> TRUE, f |-> f, timeout |-> t]
  <2>1. tm \in [armed : BOOLEAN, f : Callbacks, timeout : Nat]
    OBVIOUS
  <2>2. ctimer_set(s, t, f) = [s EXCEPT !.periodic_timer = tm]
    BY DEF ctimer_set
  <2> HIDE DEF tm
  <2>3. [s EXCEPT !.periodic_timer = tm] \in RelayStates
    BY <2>1 DEF RelayStates
  <2>4. /\ [s EXCEPT !.periodic_timer = tm].paths = s.paths
        /\ SameTable(s, [s EXCEPT !.periodic_timer = tm])
    BY DEF RelayStates, SameTable
  <2> QED
    BY <2>2, <2>3, <2>4
<1>2. /\ ctimer_reset(s) \in RelayStates
      /\ ctimer_reset(s).paths = s.paths
      /\ SameTable(s, ctimer_reset(s))
  <2> DEFINE tm == [s.periodic_timer EXCEPT !.armed = TRUE]
  <2>1. tm \in [armed : BOOLEAN, f : Callbacks, timeout : Nat]
    BY DEF RelayStates
  <2>2. ctimer_reset(s) = [s EXCEPT !.periodic_timer = tm]
    BY DEF ctimer_reset, RelayStates
  <2> HIDE DEF tm
  <2>3. [s EXCEPT !.periodic_timer = tm] \in RelayStates
    BY <2>1 DEF RelayStates
  <2>4. /\ [s EXCEPT !.periodic_timer = tm].paths = s.paths
        /\ SameTable(s, [s EXCEPT !.periodic_timer = tm])
    BY DEF RelayStates, SameTable
  <2> QED
    BY <2>2, <2>3, <2>4
<1>3. ASSUME NEW c \in SUBSET Word
      PROVE  /\ store_checksum(s, c) \in RelayStates
             /\ store_checksum(s, c).paths = s.paths
             /\ SameTable(s, store_checksum(s, c))
  <2>1. Append(s.checksum_children, c) \in Seq(SUBSET Word)
    BY DEF RelayStates
  <2> DEFINE t == [s EXCEPT !.checksum_children = Append(s.checksum_children, c)]
             u == [s EXCEPT !.fault = TRUE]
  <2>2. t \in RelayStates
    BY <2>1 DEF RelayStates
  <2>3. u \in RelayStates
    BY DEF RelayStates
  <2>4. t.paths = s.paths /\ SameTable(s, t) /\ u.paths = s.paths /\ SameTable(s, u)
    BY DEF RelayStates, SameTable
  <2>5. store_checksum(s, c) = t \/ store_checksum(s, c) = u
    BY DEF store_checksum
  <2> HIDE DEF t, u
  <2> QED
    BY <2>2, <2>3, <2>4, <2>5
<1>4. ASSUME NEW id
      PROVE  /\ child_set_pkt_received(s, id) \in RelayStates
             /\ child_set_pkt_received(s, id).paths = s.paths
             /\ SameTable(s, child_set_pkt_received(s, id))
  <2> DEFINE v == s.received_pkt \cup ({id} \cap s.child_list)
  <2>1. v \in SUBSET Nodes
    BY DEF RelayStates
  <2>2. child_set_pkt_received(s, id) = [s EXCEPT !.received_pkt = v]
    BY DEF child_set_pkt_received
  <2> HIDE DEF v
  <2>3. [s EXCEPT !.received_pkt = v] \in RelayStates
    BY <2>1 DEF RelayStates
  <2>4. /\ [s EXCEPT !.received_pkt = v].paths = s.paths
        /\ SameTable(s, [s EXCEPT !.received_pkt = v])
    BY DEF RelayStates, SameTable
  <2> QED
    BY <2>2, <2>3, <2>4
<1> QED
  BY <1>1, <1>2, <1>3, <1>4

LEMMA ProcessAttestationType ==
    ASSUME NEW r \in Relays, NEW s, RelayOK(s), NEW resp \in AttPackets, NEW id
    PROVE  RelayOK(process_attestation_req(r, s, resp, id))
<1> DEFINE s1 == store_checksum(s, resp.checksum)
           tm == get_attestation_timeout(r, s) * FrameTicks
           s2 == ctimer_set(s1, tm, "send_attestation_resp")
           s3 == [s2 EXCEPT !.first_child = FALSE]
<1> s \in RelayStates /\ Len(s.paths) < PathRoom /\ SinkIsLeaf(s)
  BY DEF RelayOK
<1>1. resp.checksum \in SUBSET Word
  BY DEF AttPackets
<1>2. s1 \in RelayStates /\ s1.paths = s.paths /\ SameTable(s, s1)
  BY <1>1, SmallStepsType
<1>3. tm \in Nat /\ "send_attestation_resp" \in Callbacks
  BY TimeoutType DEF Callbacks
<1> HIDE DEF s1, tm
<1>4. s2 \in RelayStates /\ s2.paths = s1.paths /\ SameTable(s1, s2)
  BY <1>2, <1>3, SmallStepsType
<1> HIDE DEF s2
<1>5. s3 \in RelayStates /\ s3.paths = s2.paths /\ SameTable(s2, s3)
  <2>1. s3 \in RelayStates
    BY <1>4 DEF RelayStates
  <2>2. s3.paths = s2.paths /\ SameTable(s2, s3)
    BY <1>4 DEF RelayStates, SameTable
  <2> QED
    BY <2>1, <2>2
<1> HIDE DEF s3
<1>6. RelayOK(s1) /\ RelayOK(s3)
  BY <1>2, <1>4, <1>5 DEF RelayOK, SameTable, SinkIsLeaf
<1>7. process_attestation_req(r, s, resp, id) = s1 \/ process_attestation_req(r, s, resp, id) = s3
  BY DEF process_attestation_req, s1, s2, s3, tm
<1> QED
  BY <1>6, <1>7

-----------------------------------------------------------------------------
(* The copy loop. *)

LEMMA SlotsType ==
    ASSUME NEW s \in RelayStates, NEW p \in Seq(Nodes \cup {0}), NEW j \in Nat
    PROVE  SlotsAfter(s, p, j) \in Nat
<1>1. IsFiniteSet(1..j)
  BY FS_Interval
<1>2. Cardinality({m \in 1..j : ~is_present_paths(s, p[m])}) \in Nat
  BY <1>1, FS_Subset, FS_CardinalityType
<1>3. Len(s.paths) \in Nat
  BY DEF RelayStates
<1> QED
  BY <1>2, <1>3 DEF SlotsAfter

LEMMA CopiedType ==
    ASSUME NEW s \in RelayStates, NEW p \in Seq(Nodes \cup {0}), NEW n \in Nat
    PROVE  Copied(s, p, n) \in Seq(Nodes \cup {0}) /\ Len(Copied(s, p, n)) = n
<1> DEFINE Goes(j, k) == ~is_present_paths(s, p[j]) /\ SlotsAfter(s, p, j) = k
           cell(k) == IF k <= Len(s.paths) THEN s.paths[k]
                      ELSE IF \E j \in 1..Len(p) : Goes(j, k)
                           THEN p[CHOOSE j \in 1..Len(p) : Goes(j, k)]
                           ELSE 0
<1>1. s.paths \in Seq(Nodes \cup {0})
  BY DEF RelayStates
<1>2. ASSUME NEW k \in 1..n PROVE cell(k) \in Nodes \cup {0}
  <2>1. CASE k <= Len(s.paths)
    BY <1>1, <2>1
  <2>2. CASE ~(k <= Len(s.paths)) /\ \E j \in 1..Len(p) : Goes(j, k)
    <3>1. (CHOOSE j \in 1..Len(p) : Goes(j, k)) \in 1..Len(p)
      BY <2>2
    <3> HIDE DEF Goes
    <3> QED BY <2>2, <3>1
  <2>3. CASE ~(k <= Len(s.paths)) /\ ~\E j \in 1..Len(p) : Goes(j, k)
    BY <2>3
  <2> QED
    BY <2>1, <2>2, <2>3
<1>3. Copied(s, p, n) = [k \in 1..n |-> cell(k)]
  BY DEF Copied
<1> HIDE DEF cell
<1>4. [k \in 1..n |-> cell(k)] \in Seq(Nodes \cup {0}) /\ Len([k \in 1..n |-> cell(k)]) = n
  BY <1>2
<1> QED
  BY <1>3, <1>4

\* Replacing paths touches nothing else.
LEMMA SetPathsType ==
    ASSUME NEW s \in RelayStates, NEW q \in Seq(Nodes \cup {0})
    PROVE  /\ [s EXCEPT !.paths = q] \in RelayStates
           /\ [s EXCEPT !.paths = q].paths = q
           /\ SameTable(s, [s EXCEPT !.paths = q])
<1>1. [s EXCEPT !.paths = q] \in RelayStates
  BY DEF RelayStates
<1> QED
  BY <1>1 DEF RelayStates, SameTable

LEMMA FlushType ==
    ASSUME NEW r \in Relays, NEW s \in RelayStates, Len(s.paths) <= PathRoom
    PROVE  /\ flush(r, s).st \in RelayStates
           /\ SameTable(s, flush(r, s).st)
           /\ flush(r, s).st.paths = <<>>
           /\ OutOK(flush(r, s).out)
<1> DEFINE t == send_topology_resp(r, s)
<1>1. t.st \in RelayStates /\ SameTable(s, t.st) /\ OutOK(t.out)
  BY SendTopologyType
<1>2. flush(r, s).st = reset_variable(t.st) /\ flush(r, s).out = t.out
  BY DEF flush
<1> HIDE DEF t
<1>3. /\ reset_variable(t.st) \in RelayStates
      /\ reset_variable(t.st).paths = <<>>
      /\ SameTable(t.st, reset_variable(t.st))
  BY <1>1, ResetType
<1> QED
  BY <1>1, <1>2, <1>3 DEF SameTable

\* The loop ends with a free slot before the flush mark: after the first flush at
\* most PathRoom ids of the packet are left, and PathRoom of them are flushed.
LEMMA CopyPathsType ==
    ASSUME NEW r \in Relays, NEW s, RelayOK(s),
           NEW p \in Seq(Nodes \cup {0}), Len(p) <= PathRoom + 1
    PROVE  RelayOK(copy_paths(r, s, p).st) /\ OutOK(copy_paths(r, s, p).out)
<1> DEFINE used == SlotsAfter(s, p, Len(p))
           at   == 1 + Cardinality({j \in 1..Len(p) : SlotsAfter(s, p, j) < PathRoom})
           rest == SubSeq(p, at + 1, Len(p))
           in1  == [s EXCEPT !.paths = Copied(s, p, PathRoom)]
           fl1  == flush(r, in1)
           in2  == [fl1.st EXCEPT !.paths = rest]
           fl2  == flush(r, in2)
           none == [s EXCEPT !.paths = Copied(s, p, used)]
<1> s \in RelayStates /\ Len(s.paths) < PathRoom /\ SinkIsLeaf(s)
  BY DEF RelayOK
<1>1. used \in Nat /\ PathRoom \in Nat /\ Len(p) \in Nat /\ Len(<<>>) < PathRoom
  <2>1. Len(p) \in Nat
    OBVIOUS
  <2>2. used \in Nat
    BY <2>1, SlotsType
  <2>3. PathRoom \in Nat /\ 0 < PathRoom
    BY SizesAssumption DEF PathRoom
  <2> QED
    BY <2>1, <2>2, <2>3
<1>2. at \in Nat /\ at >= 1
  <2>1. IsFiniteSet(1..Len(p))
    BY FS_Interval, <1>1
  <2>2. Cardinality({j \in 1..Len(p) : SlotsAfter(s, p, j) < PathRoom}) \in Nat
    BY <2>1, FS_Subset, FS_CardinalityType
  <2> QED
    BY <2>2
<1> HIDE DEF used, at
<1>3. rest \in Seq(Nodes \cup {0}) /\ Len(rest) \in Nat /\ Len(rest) <= PathRoom
  BY <1>1, <1>2
<1> HIDE DEF rest
<1>4. used < PathRoom => RelayOK(none)
  <2>1. Copied(s, p, used) \in Seq(Nodes \cup {0}) /\ Len(Copied(s, p, used)) = used
    BY <1>1, CopiedType
  <2>2. none \in RelayStates /\ none.paths = Copied(s, p, used) /\ SameTable(s, none)
    BY <2>1, SetPathsType
  <2> QED
    BY <2>1, <2>2 DEF RelayOK, SameTable, SinkIsLeaf
<1>5. in1 \in RelayStates /\ Len(in1.paths) <= PathRoom /\ SameTable(s, in1)
  <2>1. Copied(s, p, PathRoom) \in Seq(Nodes \cup {0}) /\ Len(Copied(s, p, PathRoom)) = PathRoom
    BY <1>1, CopiedType
  <2>2. in1 \in RelayStates /\ in1.paths = Copied(s, p, PathRoom) /\ SameTable(s, in1)
    BY <2>1, SetPathsType
  <2> QED
    BY <1>1, <2>1, <2>2
<1> HIDE DEF in1, none
<1>6. fl1.st \in RelayStates /\ SameTable(s, fl1.st) /\ OutOK(fl1.out)
  BY <1>5, FlushType DEF SameTable
<1> HIDE DEF fl1
<1>7. in2 \in RelayStates /\ in2.paths = rest /\ SameTable(s, in2)
  BY <1>3, <1>6, SetPathsType DEF SameTable
<1>8. Len(rest) < PathRoom => RelayOK(in2)
  BY <1>7 DEF RelayOK, SameTable, SinkIsLeaf
<1> HIDE DEF in2
<1>9. fl2.st \in RelayStates /\ SameTable(in2, fl2.st) /\ fl2.st.paths = <<>> /\ OutOK(fl2.out)
  BY <1>3, <1>7, FlushType
<1> HIDE DEF fl2
<1>10. RelayOK(fl2.st)
  BY <1>1, <1>7, <1>9 DEF RelayOK, SameTable, SinkIsLeaf
<1>11. OutOK({}) /\ OutOK(fl1.out \cup fl2.out)
  BY <1>6, <1>9 DEF OutOK
<1>12. copy_paths(r, s, p) =
          CASE used < PathRoom -> [st |-> none, out |-> {}]
            [] used >= PathRoom /\ Len(rest) < PathRoom -> [st |-> in2, out |-> fl1.out]
            [] used >= PathRoom /\ Len(rest) >= PathRoom ->
                 [st |-> fl2.st, out |-> fl1.out \cup fl2.out]
  BY DEF copy_paths, used, at, rest, in1, fl1, in2, fl2, none
<1>13. CASE used < PathRoom
  BY <1>1, <1>4, <1>11, <1>12, <1>13
<1>14. CASE used >= PathRoom /\ Len(rest) < PathRoom
  BY <1>1, <1>3, <1>6, <1>8, <1>12, <1>14
<1>15. CASE used >= PathRoom /\ Len(rest) >= PathRoom
  BY <1>1, <1>3, <1>10, <1>11, <1>12, <1>15
<1> QED
  BY <1>1, <1>3, <1>13, <1>14, <1>15

LEMMA ProcessTopologyType ==
    ASSUME NEW r \in Relays, NEW s, RelayOK(s), NEW resp \in TopologyPackets,
           Len(resp.path) <= PathRoom + 1, NEW id
    PROVE  /\ RelayOK(process_topology_req(r, s, resp, id).st)
           /\ OutOK(process_topology_req(r, s, resp, id).out)
<1> DEFINE s0 == ctimer_reset(s)
           s1 == child_set_pkt_received(s0, id)
           s2 == store_checksum(s1, resp.checksum)
           cp == copy_paths(r, s2, resp.path)
           mx == IF cp.st.max_leaf_rank < resp.max_leaf_rank
                 THEN resp.max_leaf_rank ELSE cp.st.max_leaf_rank
           s3 == [cp.st EXCEPT !.max_leaf_rank = mx]
           fw == send_topology_resp(r, s3)
           s4 == ctimer_set(s3, get_topology_timeout(r) * CLOCK_SECOND, "send_topology_resp")
<1> s \in RelayStates /\ Len(s.paths) < PathRoom /\ SinkIsLeaf(s)
  BY DEF RelayOK
<1>1. /\ resp.path \in Seq(Nodes \cup {0}) /\ resp.max_leaf_rank \in UInt16
      /\ resp.checksum \in SUBSET Word
  BY DEF TopologyPackets
<1>2. s0 \in RelayStates /\ s0.paths = s.paths /\ SameTable(s, s0)
  BY SmallStepsType
<1> HIDE DEF s0
<1>3. s1 \in RelayStates /\ s1.paths = s.paths /\ SameTable(s, s1)
  <2>1. s1 \in RelayStates /\ s1.paths = s0.paths /\ SameTable(s0, s1)
    BY <1>2, SmallStepsType
  <2> QED
    BY <1>2, <2>1 DEF SameTable
<1> HIDE DEF s1
<1>4. s2 \in RelayStates /\ s2.paths = s.paths /\ SameTable(s, s2)
  BY <1>1, <1>3, SmallStepsType DEF SameTable
<1> HIDE DEF s2
<1>5. RelayOK(s2)
  BY <1>4 DEF RelayOK, SameTable, SinkIsLeaf
<1>6. RelayOK(cp.st) /\ OutOK(cp.out)
  BY <1>1, <1>5, CopyPathsType
<1> HIDE DEF cp
<1>7. s3 \in RelayStates /\ s3.paths = cp.st.paths /\ SameTable(cp.st, s3)
  <2>1. mx \in UInt16
    BY <1>1, <1>6 DEF RelayOK, RelayStates
  <2> HIDE DEF mx
  <2>2. s3 \in RelayStates
    BY <1>6, <2>1 DEF RelayOK, RelayStates
  <2> QED
    BY <1>6, <2>2 DEF RelayOK, RelayStates, SameTable
<1> HIDE DEF s3
<1>8. RelayOK(s3) /\ Len(s3.paths) \in Nat /\ PathRoom \in Nat
  <2>1. Len(s3.paths) \in Nat
    BY <1>7 DEF RelayStates
  <2>2. PathRoom \in Nat
    BY SizesAssumption DEF PathRoom
  <2> QED
    BY <1>6, <1>7, <2>1, <2>2 DEF RelayOK, SameTable, SinkIsLeaf
<1>9. RelayOK(fw.st) /\ OutOK(fw.out)
  <2>1. Len(s3.paths) <= PathRoom
    BY <1>8 DEF RelayOK
  <2>2. /\ fw.st \in RelayStates /\ fw.st.paths = <<>> /\ SameTable(s3, fw.st) /\ OutOK(fw.out)
    BY <1>7, <2>1, SendTopologyType
  <2>3. Len(<<>>) < PathRoom
    BY SizesAssumption DEF PathRoom
  <2> QED
    BY <1>8, <2>2, <2>3 DEF RelayOK, SameTable, SinkIsLeaf
<1> HIDE DEF fw
<1>10. RelayOK(s4)
  <2>1. get_topology_timeout(r) * CLOCK_SECOND \in Nat /\ "send_topology_resp" \in Callbacks
    BY TimeoutType DEF Callbacks
  <2>2. s4 \in RelayStates /\ s4.paths = s3.paths /\ SameTable(s3, s4)
    BY <1>7, <2>1, SmallStepsType
  <2> QED
    BY <1>8, <2>2 DEF RelayOK, SameTable, SinkIsLeaf
<1> HIDE DEF s4
<1>11. OutOK({}) /\ OutOK(cp.out \cup fw.out)
  BY <1>6, <1>9 DEF OutOK
<1>12. \/ process_topology_req(r, s, resp, id) = [st |-> s, out |-> {}]
       \/ process_topology_req(r, s, resp, id) = [st |-> s2, out |-> {}]
       \/ process_topology_req(r, s, resp, id) = [st |-> fw.st, out |-> cp.out \cup fw.out]
       \/ process_topology_req(r, s, resp, id) = [st |-> s4, out |-> cp.out]
  BY DEF process_topology_req, s0, s1, s2, cp, mx, s3, fw, s4
<1>13. CASE process_topology_req(r, s, resp, id) = [st |-> s, out |-> {}]
  BY <1>11, <1>13
<1>14. CASE process_topology_req(r, s, resp, id) = [st |-> s2, out |-> {}]
  BY <1>5, <1>11, <1>14
<1>15. CASE process_topology_req(r, s, resp, id) = [st |-> fw.st, out |-> cp.out \cup fw.out]
  BY <1>9, <1>11, <1>15
<1>16. CASE process_topology_req(r, s, resp, id) = [st |-> s4, out |-> cp.out]
  BY <1>6, <1>10, <1>16
<1> QED
  BY <1>12, <1>13, <1>14, <1>15, <1>16

-----------------------------------------------------------------------------
(* The event handlers. *)

LEMMA TcpipHandlerType ==
    ASSUME NEW r \in Relays, NEW s, RelayOK(s), NEW src, NEW pkt,
           \/ pkt \in TopologyPackets /\ Len(pkt.path) <= PathRoom + 1
           \/ pkt \in AttPackets
    PROVE  /\ RelayOK(tcpip_handler(r, s, pkt, src).st)
           /\ OutOK(tcpip_handler(r, s, pkt, src).out)
<1>1. OutOK({})
  BY DEF OutOK
<1>2. CASE pkt.pkt_type = TOPOLOGY
  <2>1. pkt \in TopologyPackets /\ Len(pkt.path) <= PathRoom + 1
    BY <1>2 DEF AttPackets, TOPOLOGY, ATTESTATION
  <2>2. tcpip_handler(r, s, pkt, src) = process_topology_req(r, s, pkt, src)
    BY <1>2 DEF tcpip_handler, TOPOLOGY, ATTESTATION
  <2> QED
    BY <2>1, <2>2, ProcessTopologyType
<1>3. CASE pkt.pkt_type = ATTESTATION
  <2>1. pkt \in AttPackets
    BY <1>3 DEF TopologyPackets, TOPOLOGY, ATTESTATION
  <2>2. RelayOK(process_attestation_req(r, s, pkt, src))
    BY <2>1, ProcessAttestationType
  <2>3. tcpip_handler(r, s, pkt, src) = [st |-> process_attestation_req(r, s, pkt, src), out |-> {}]
    BY <1>3 DEF tcpip_handler, TOPOLOGY, ATTESTATION
  <2> QED
    BY <1>1, <2>2, <2>3
<1>4. CASE pkt.pkt_type # TOPOLOGY /\ pkt.pkt_type # ATTESTATION
  BY <1>1, <1>4 DEF tcpip_handler
<1> QED
  BY <1>2, <1>3, <1>4

LEMMA McastHandlerType ==
    ASSUME NEW r \in Relays, NEW s, RelayOK(s), NEW pkt
    PROVE  /\ RelayOK(mcast_tcpip_handler(r, s, pkt).st)
           /\ OutOK(mcast_tcpip_handler(r, s, pkt).out)
<1> DEFINE resp == create_response(r, pkt)
           s1 == [s EXCEPT !.ctimer_resp = resp]
<1>1. r \in Nodes
  BY DEF Nodes
<1>2. CASE pkt.pkt_type = TOPOLOGY
  <2>1. resp \in TopologyPackets /\ Len(resp.path) = 1
    BY <1>1, <1>2, CreateResponseType
  <2> HIDE DEF resp
  <2> Len(resp.path) <= PathRoom + 1
    BY <2>1, SizesAssumption DEF PathRoom
  <2>2. OutOK(send_to_parents(r, s, resp, TRUE))
    BY <1>1, <2>1, SendToParentsType
  <2>3. RelayOK(get_parent_conn(s))
    <3>1. s \in RelayStates /\ Len(s.paths) < PathRoom /\ SinkIsLeaf(s)
      BY DEF RelayOK
    <3>2. /\ get_parent_conn(s) \in RelayStates
          /\ get_parent_conn(s).paths = s.paths
          /\ SameTable(s, get_parent_conn(s))
      BY <3>1, BindType DEF get_parent_conn
    <3> QED
      BY <3>1, <3>2 DEF RelayOK, SameTable, SinkIsLeaf
  <2>4. mcast_tcpip_handler(r, s, pkt) =
           [st |-> get_parent_conn(s), out |-> send_to_parents(r, s, resp, TRUE)]
    BY <1>2 DEF mcast_tcpip_handler, resp
  <2>5. /\ mcast_tcpip_handler(r, s, pkt).st = get_parent_conn(s)
        /\ mcast_tcpip_handler(r, s, pkt).out = send_to_parents(r, s, resp, TRUE)
    BY <2>4
  <2> QED
    BY <2>2, <2>3, <2>5
<1>3. CASE pkt.pkt_type # TOPOLOGY
  <2>1. resp \in AttPackets
    BY <1>1, <1>3, CreateResponseType
  <2> HIDE DEF resp
  <2>2. OutOK(broadcast_to_parents(r, resp))
    BY <1>1, <2>1, BroadcastType
  <2>3. s1 \in RelayStates
    BY <2>1 DEF RelayOK, RelayStates
  <2>4. s1.paths = s.paths /\ SameTable(s, s1)
    BY DEF RelayOK, RelayStates, SameTable
  <2>5. RelayOK(s1)
    BY <2>3, <2>4 DEF RelayOK, SameTable, SinkIsLeaf
  <2>6. mcast_tcpip_handler(r, s, pkt) = [st |-> s1, out |-> broadcast_to_parents(r, resp)]
    BY <1>3 DEF mcast_tcpip_handler, resp
  <2> QED
    BY <2>2, <2>5, <2>6
<1> QED
  BY <1>2, <1>3

\* A relay with children has no sink, so what reaches tcpip_handler is a response.
LEMMA RelayReceiveType ==
    ASSUME NEW r \in Relays, NEW s, RelayOK(s), NEW d \in Datagrams, OutOK({d})
    PROVE  RelayOK(RelayReceive(r, s, d).st) /\ OutOK(RelayReceive(r, s, d).out)
<1>1. OutOK({})
  BY DEF OutOK
<1>2. d.port = PARENT_UDP_CHECKSUM_PORT =>
         d.pkt \in TopologyPackets /\ Len(d.pkt.path) <= PathRoom + 1
  BY DEF OutOK, Datagrams, MCAST_SINK_UDP_PORT, PARENT_UDP_CHECKSUM_PORT, CHECKSUM_PORT
<1>3. d.port = CHECKSUM_PORT => d.pkt \in AttPackets
  BY DEF Datagrams, MCAST_SINK_UDP_PORT, PARENT_UDP_CHECKSUM_PORT, CHECKSUM_PORT
<1>4. d.port \in {MCAST_SINK_UDP_PORT, PARENT_UDP_CHECKSUM_PORT, CHECKSUM_PORT}
  BY DEF Datagrams
<1>5. CASE d.port = CHECKSUM_PORT
  <2>1. RelayReceive(r, s, d) = tcpip_handler(r, s, d.pkt, d.src)
    BY <1>5 DEF RelayReceive, checksum_receiver, CHECKSUM_PORT, MCAST_SINK_UDP_PORT
  <2> QED
    BY <1>3, <1>5, <2>1, TcpipHandlerType
<1>6. CASE d.port = MCAST_SINK_UDP_PORT /\ ~s.sink
  <2>1. RelayReceive(r, s, d) = [st |-> s, out |-> {}]
    BY <1>6 DEF RelayReceive, CHECKSUM_PORT, MCAST_SINK_UDP_PORT
  <2> QED
    BY <1>1, <2>1
<1>7. CASE d.port = MCAST_SINK_UDP_PORT /\ s.sink
  <2>1. is_leaf(s)
    BY <1>7, FS_EmptySet DEF RelayOK, SinkIsLeaf, is_leaf, get_child_count
  <2>2. RelayReceive(r, s, d) = mcast_tcpip_handler(r, s, d.pkt)
    BY <1>7, <2>1 DEF RelayReceive, CHECKSUM_PORT, MCAST_SINK_UDP_PORT
  <2> QED
    BY <2>2, McastHandlerType
<1>8. CASE d.port = PARENT_UDP_CHECKSUM_PORT
  <2>1. \/ RelayReceive(r, s, d) = mcast_tcpip_handler(r, s, d.pkt)
        \/ RelayReceive(r, s, d) = tcpip_handler(r, s, d.pkt, d.src)
    BY <1>8 DEF RelayReceive, CHECKSUM_PORT, MCAST_SINK_UDP_PORT, PARENT_UDP_CHECKSUM_PORT
  <2>2. /\ RelayOK(tcpip_handler(r, s, d.pkt, d.src).st)
        /\ OutOK(tcpip_handler(r, s, d.pkt, d.src).out)
    BY <1>2, <1>8, TcpipHandlerType
  <2>3. /\ RelayOK(mcast_tcpip_handler(r, s, d.pkt).st)
        /\ OutOK(mcast_tcpip_handler(r, s, d.pkt).out)
    BY McastHandlerType
  <2> QED
    BY <2>1, <2>2, <2>3
<1> QED
  BY <1>4, <1>5, <1>6, <1>7, <1>8

\* A leaf joins the multicast group; a relay with children never opens a sink.
LEMMA NetworkSettledType ==
    ASSUME NEW r \in Relays, NEW s, RelayOK(s), ~s.sink
    PROVE  RelayOK(network_settled(r, s))
<1> DEFINE children == {p \in Nbr[r] : Rank[p] > Rank[r]}
           a == [s EXCEPT !.child_list = children, !.received_pkt = {}]
           b == [s EXCEPT !.fault = TRUE]
           f == fill_child_entries(r, s)
           t == [f EXCEPT !.settled = TRUE]
           u == udp_new_bind(t)
           v == [u EXCEPT !.sink = ConnFree(t)]
<1>0. s \in RelayStates /\ Len(s.paths) < PathRoom
  BY DEF RelayOK
<1>1. children \in SUBSET Nodes /\ {} \in SUBSET Nodes
  BY NbrType DEF Nodes
<1> HIDE DEF children
<1>2. a \in RelayStates
  BY <1>0, <1>1 DEF RelayStates
<1>3. b \in RelayStates
  BY <1>0 DEF RelayStates
<1>4. a.paths = s.paths /\ a.sink = s.sink /\ b.paths = s.paths /\ b.sink = s.sink
  BY <1>0 DEF RelayStates
<1>5. f = a \/ f = b
  BY DEF fill_child_entries, children
<1> HIDE DEF a, b, f
<1>6. f \in RelayStates /\ f.paths = s.paths /\ ~f.sink
  BY <1>2, <1>3, <1>4, <1>5
<1>7. t \in RelayStates
  BY <1>6 DEF RelayStates
<1>8. t.paths = s.paths /\ ~t.sink /\ t.settled
  BY <1>6 DEF RelayStates
<1>9. network_settled(r, s) = IF is_leaf(t) /\ ~t.fault /\ join_mcast_group(r) THEN v ELSE t
  BY DEF network_settled, f
<1> HIDE DEF t
<1>10. RelayOK(t)
  BY <1>0, <1>7, <1>8 DEF RelayOK, SinkIsLeaf
<1>11. u \in RelayStates /\ u.paths = t.paths /\ SameTable(t, u)
  BY <1>7, BindType
<1> HIDE DEF u
<1>12. ConnFree(t) \in BOOLEAN
  BY DEF ConnFree
<1>13. v \in RelayStates
  BY <1>11, <1>12 DEF RelayStates
<1>14. v.paths = u.paths /\ v.child_list = u.child_list /\ v.settled = u.settled
  BY <1>11 DEF RelayStates
<1> HIDE DEF v
<1>15. ASSUME is_leaf(t) PROVE t.child_list = {}
  <2>1. t.child_list \subseteq Nodes
    BY <1>7 DEF RelayStates
  <2>2. IsFiniteSet(t.child_list)
    BY <2>1, NodesFinite, FS_Subset
  <2> QED
    BY <1>15, <2>2, FS_EmptySet DEF is_leaf, get_child_count
<1>16. is_leaf(t) => RelayOK(v)
  BY <1>0, <1>8, <1>11, <1>13, <1>14, <1>15 DEF RelayOK, SinkIsLeaf, SameTable
<1> QED
  BY <1>9, <1>10, <1>16

LEMMA ClientReceiveType ==
    ASSUME NEW c \in Clients, NEW s \in ClientStates, NEW d
    PROVE  ClientReceive(c, s, d).st \in ClientStates /\ OutOK(ClientReceive(c, s, d).out)
<1> DEFINE resp == create_response(c, d.pkt)
           s1 == [s EXCEPT !.checksum = attest_memory(c)]
<1>1. c \in Nodes /\ OutOK({})
  BY DEF Nodes, OutOK
<1>2. s1 \in ClientStates
  BY ChecksumType DEF ClientStates
<1> HIDE DEF s1
<1>3. get_parent_conn(s1) \in ClientStates
  <2>1. CASE ConnFree(s1)
    <3>1. s1.conns + 1 \in 0..UIP_UDP_CONNS
      BY <1>2, <2>1, SizesAssumption DEF ConnFree, ClientStates
    <3>2. [s1 EXCEPT !.conns = s1.conns + 1] \in ClientStates
      BY <1>2, <3>1 DEF ClientStates
    <3> QED
      BY <2>1, <3>2 DEF get_parent_conn, udp_new_bind
  <2>2. CASE ~ConnFree(s1)
    <3>1. (s1.fault \/ NullBindTraps) \in BOOLEAN
      BY <1>2, SizesAssumption DEF ClientStates
    <3>2. [s1 EXCEPT !.fault = s1.fault \/ NullBindTraps] \in ClientStates
      BY <1>2, <3>1 DEF ClientStates
    <3> QED
      BY <2>2, <3>2 DEF get_parent_conn, udp_new_bind
  <2> QED
    BY <2>1, <2>2
<1>4. d.pkt.pkt_type = TOPOLOGY => OutOK(send_to_parents(c, s1, resp, TRUE))
  <2> HAVE d.pkt.pkt_type = TOPOLOGY
  <2>1. resp \in TopologyPackets /\ Len(resp.path) = 1
    BY <1>1, CreateResponseType
  <2> HIDE DEF resp
  <2>2. Len(resp.path) <= PathRoom + 1
    BY <2>1, SizesAssumption DEF PathRoom
  <2> QED
    BY <1>1, <2>1, <2>2, SendToParentsType
<1>5. d.pkt.pkt_type # TOPOLOGY => OutOK(broadcast_to_parents(c, resp))
  BY <1>1, CreateResponseType, BroadcastType
<1> HIDE DEF resp
<1>6. \/ ClientReceive(c, s, d) = [st |-> s, out |-> {}]
      \/ /\ d.pkt.pkt_type = TOPOLOGY
         /\ ClientReceive(c, s, d) =
               [st |-> get_parent_conn(s1), out |-> send_to_parents(c, s1, resp, TRUE)]
      \/ /\ d.pkt.pkt_type # TOPOLOGY
         /\ ClientReceive(c, s, d) = [st |-> s1, out |-> broadcast_to_parents(c, resp)]
  BY DEF ClientReceive, client_tcpip_handler, s1, resp
<1>7. CASE ClientReceive(c, s, d) = [st |-> s, out |-> {}]
  BY <1>1, <1>7
<1>8. CASE /\ d.pkt.pkt_type = TOPOLOGY
           /\ ClientReceive(c, s, d) =
                 [st |-> get_parent_conn(s1), out |-> send_to_parents(c, s1, resp, TRUE)]
  <2>1. /\ ClientReceive(c, s, d).st = get_parent_conn(s1)
        /\ ClientReceive(c, s, d).out = send_to_parents(c, s1, resp, TRUE)
    BY <1>8
  <2> QED
    BY <1>3, <1>4, <1>8, <2>1
<1>9. CASE /\ d.pkt.pkt_type # TOPOLOGY
           /\ ClientReceive(c, s, d) = [st |-> s1, out |-> broadcast_to_parents(c, resp)]
  BY <1>2, <1>5, <1>9
<1> QED
  BY <1>6, <1>7, <1>8, <1>9

LEMMA ChecksumCallbackType ==
    ASSUME NEW s \in [cnt : Nat, agg : SUBSET (Nodes \cup {0})],
           NEW pkt, pkt \in TopologyPackets \/ pkt \in AttPackets
    PROVE  udp_checksum_callback(s, pkt) \in [cnt : Nat, agg : SUBSET (Nodes \cup {0})]
<1>1. CASE pkt.pkt_type = TOPOLOGY
  <2>1. pkt.path \in Seq(Nodes \cup {0})
    BY <1>1 DEF TopologyPackets, AttPackets, TOPOLOGY, ATTESTATION
  <2>2. {pkt.path[i] : i \in 1..Len(pkt.path)} \in SUBSET (Nodes \cup {0})
    BY <2>1
  <2>3. udp_checksum_callback(s, pkt) =
           [s EXCEPT !.agg = s.agg \cup {pkt.path[i] : i \in 1..Len(pkt.path)}]
    BY <1>1 DEF udp_checksum_callback, TOPOLOGY, ATTESTATION
  <2> QED
    BY <2>2, <2>3
<1>2. CASE pkt.pkt_type = ATTESTATION
  BY <1>2 DEF udp_checksum_callback, TOPOLOGY, ATTESTATION
<1>3. CASE pkt.pkt_type # TOPOLOGY /\ pkt.pkt_type # ATTESTATION
  BY <1>3 DEF udp_checksum_callback
<1> QED
  BY <1>1, <1>2, <1>3

LEMMA MulticastType ==
    ASSUME NEW type \in ReqTypes
    PROVE  OutOK(multicast_send(type))
<1>1. ASSUME NEW n \in Nodes
      PROVE  /\ Datagram(Root, n, MCAST_SINK_UDP_PORT, Request(type)) \in Datagrams
             /\ Datagram(Root, n, MCAST_SINK_UDP_PORT, Request(type)).dst = n
             /\ Datagram(Root, n, MCAST_SINK_UDP_PORT, Request(type)).port
                  # PARENT_UDP_CHECKSUM_PORT
  <2>1. Root \in Nodes /\ Request(type) \in RequestPackets
    BY DEF Nodes, Request, RequestPackets
  <2> QED
    BY <2>1 DEF Datagram, Datagrams, MCAST_SINK_UDP_PORT, PARENT_UDP_CHECKSUM_PORT
<1>2. \A d \in multicast_send(type) :
         \E n \in Nodes \ {Root} : d = Datagram(Root, n, MCAST_SINK_UDP_PORT, Request(type))
  BY NodesAssumption DEF multicast_send, Nodes
<1> QED
  BY <1>1, <1>2 DEF OutOK

-----------------------------------------------------------------------------
(* The invariant. *)

\* Boot: three connections open, nothing received; some relays have settled.
LEMMA InitPathInv == Init => PathInv
<1> SUFFICES ASSUME Init PROVE PathInv
  OBVIOUS
<1>1. RelayOK(RelayBoot) /\ ~RelayBoot.sink
  <2>1. [armed |-> FALSE, f |-> "none", timeout |-> 0]
           \in [armed : BOOLEAN, f : Callbacks, timeout : Nat]
    BY DEF Callbacks
  <2>2. NoResp \in AttPackets
    BY DEF NoResp, AttPackets
  <2>3. 3 \in 0..UIP_UDP_CONNS /\ 0 \in UInt16 /\ 0 < PathRoom
    BY SizesAssumption DEF UInt16, PathRoom
  <2>4. RelayBoot \in RelayStates
    BY <2>1, <2>2, <2>3 DEF RelayBoot, RelayStates
  <2>5. RelayBoot.paths = <<>> /\ ~RelayBoot.sink
    BY DEF RelayBoot
  <2> QED
    BY <2>3, <2>4, <2>5 DEF RelayOK, SinkIsLeaf
<1>2. \A r \in Relays : RelayOK(relay[r])
  <2> SUFFICES ASSUME NEW r \in Relays PROVE RelayOK(relay[r])
    OBVIOUS
  <2>1. RelayOK(network_settled(r, RelayBoot))
    BY <1>1, NetworkSettledType
  <2>2. relay[r] = network_settled(r, RelayBoot) \/ relay[r] = RelayBoot
    BY DEF Init
  <2> QED
    BY <1>1, <2>1, <2>2
<1>3. relay \in [Relays -> RelayStates]
  <2>1. DOMAIN relay = Relays /\ relay = [r \in DOMAIN relay |-> relay[r]]
    BY DEF Init
  <2>2. \A r \in Relays : relay[r] \in RelayStates
    BY <1>2 DEF RelayOK
  <2> QED
    BY <2>1, <2>2
<1>4. client \in [Clients -> ClientStates]
  <2>1. 3 \in 0..UIP_UDP_CONNS
    BY SizesAssumption
  <2>2. ClientBoot \in ClientStates
    BY <2>1 DEF ClientBoot, ClientStates
  <2> QED
    BY <2>2 DEF Init
<1>5. root \in [cnt : Nat, agg : SUBSET (Nodes \cup {0})]
  BY DEF Init
<1>6. OutOK(net) /\ net \subseteq Datagrams /\ reqs \in 0..MaxReq
  BY SwarmAssumption DEF Init, OutOK
<1> QED
  BY <1>2, <1>3, <1>4, <1>5, <1>6 DEF PathInv, TypeOK

\* One relay's state, and what is in flight, may change.
LEMMA RelayStepOK ==
    ASSUME PathInv, NEW r \in Relays, NEW s, RelayOK(s),
           relay' = [relay EXCEPT ![r] = s], OutOK(net'),
           UNCHANGED <<client, root, reqs>>
    PROVE  PathInv'
<1>1. s \in RelayStates /\ relay \in [Relays -> RelayStates]
  BY DEF RelayOK, PathInv, TypeOK
<1>2. relay' \in [Relays -> RelayStates]
  BY <1>1
<1>3. \A q \in Relays : RelayOK(relay'[q])
  BY <1>1 DEF PathInv
<1>4. /\ client' \in [Clients -> ClientStates]
      /\ root' \in [cnt : Nat, agg : SUBSET (Nodes \cup {0})]
      /\ reqs' \in 0..MaxReq
  BY DEF PathInv, TypeOK
<1>5. net' \subseteq Datagrams
  BY DEF OutOK
<1> QED
  BY <1>2, <1>3, <1>4, <1>5 DEF PathInv, TypeOK

\* What is in flight afterwards: some of what was, and what was sent.
LEMMA NetStep ==
    ASSUME NEW a, NEW b, NEW out, OutOK(a), b \subseteq a, OutOK(out)
    PROVE  OutOK(b \cup out) /\ OutOK(b)
  BY DEF OutOK

LEMMA NextPathInv == PathInv /\ [Next]_vars => PathInv'
<1> SUFFICES ASSUME PathInv, [Next]_vars PROVE PathInv'
  OBVIOUS
<1>0. /\ relay \in [Relays -> RelayStates] /\ client \in [Clients -> ClientStates]
      /\ root \in [cnt : Nat, agg : SUBSET (Nodes \cup {0})]
      /\ net \subseteq Datagrams /\ reqs \in 0..MaxReq
      /\ OutOK(net)
      /\ \A r \in Relays : RelayOK(relay[r])
  BY DEF PathInv, TypeOK
<1>1. ASSUME NEW type \in Requests, VerifierRequest(type) PROVE PathInv'
  <2>1. OutOK(net')
    <3>1. OutOK(multicast_send(type))
      BY SwarmAssumption, MulticastType
    <3> QED
      BY <1>0, <1>1, <3>1, NetStep DEF VerifierRequest
  <2>2. reqs' \in 0..MaxReq
    BY <1>0, <1>1, SwarmAssumption DEF VerifierRequest
  <2>3. root' \in [cnt : Nat, agg : SUBSET (Nodes \cup {0})]
    BY <1>0, <1>1 DEF VerifierRequest
  <2>4. relay' = relay /\ client' = client
    BY <1>1 DEF VerifierRequest
  <2> QED
    BY <1>0, <2>1, <2>2, <2>3, <2>4 DEF PathInv, TypeOK, OutOK
<1>2. ASSUME NEW r \in Relays, Settle(r) PROVE PathInv'
  <2>1. RelayOK(network_settled(r, relay[r]))
    BY <1>0, <1>2, NetworkSettledType DEF Settle, RelayOK, SinkIsLeaf
  <2>2. relay' = [relay EXCEPT ![r] = network_settled(r, relay[r])] /\ net' = net
    BY <1>2 DEF Settle
  <2> QED
    BY <1>0, <1>2, <2>1, <2>2, RelayStepOK DEF Settle
<1>3. ASSUME NEW d \in net, DeliverRelay(d) PROVE PathInv'
  <2> DEFINE rx == RelayReceive(d.dst, relay[d.dst], d)
  <2>1. d.dst \in Relays /\ RelayOK(relay[d.dst]) /\ d \in Datagrams /\ OutOK({d})
    BY <1>0, <1>3 DEF DeliverRelay, OutOK
  <2>2. RelayOK(rx.st) /\ OutOK(rx.out)
    BY <2>1, RelayReceiveType
  <2>3. relay' = [relay EXCEPT ![d.dst] = rx.st] /\ net' = (net \ {d}) \cup rx.out
    BY <1>3 DEF DeliverRelay
  <2> HIDE DEF rx
  <2>4. OutOK(net')
    <3>1. net \ {d} \subseteq net
      OBVIOUS
    <3> QED
      BY <1>0, <2>2, <2>3, <3>1, NetStep
  <2> QED
    BY <1>3, <2>1, <2>2, <2>3, <2>4, RelayStepOK DEF DeliverRelay
<1>4. ASSUME NEW d \in net, DeliverClient(d) PROVE PathInv'
  <2> DEFINE rx == ClientReceive(d.dst, client[d.dst], d)
  <2>1. d.dst \in Clients /\ client[d.dst] \in ClientStates
    BY <1>0, <1>4 DEF DeliverClient
  <2>2. rx.st \in ClientStates /\ OutOK(rx.out)
    BY <2>1, ClientReceiveType
  <2>3. client' = [client EXCEPT ![d.dst] = rx.st] /\ net' = (net \ {d}) \cup rx.out
    BY <1>4 DEF DeliverClient
  <2> HIDE DEF rx
  <2>4. OutOK(net')
    <3>1. net \ {d} \subseteq net
      OBVIOUS
    <3> QED
      BY <1>0, <2>2, <2>3, <3>1, NetStep
  <2>5. client' \in [Clients -> ClientStates]
    BY <1>0, <2>2, <2>3
  <2>6. relay' = relay /\ root' = root /\ reqs' = reqs
    BY <1>4 DEF DeliverClient
  <2> QED
    BY <1>0, <2>4, <2>5, <2>6 DEF PathInv, TypeOK, OutOK
<1>5. ASSUME NEW d \in net, DeliverRoot(d) PROVE PathInv'
  <2>1. d \in Datagrams /\ d.port # MCAST_SINK_UDP_PORT
    BY <1>0, <1>5 DEF DeliverRoot, OutOK
  <2>2. d.pkt \in TopologyPackets \/ d.pkt \in AttPackets
    BY <2>1 DEF Datagrams
  <2>3. root' \in [cnt : Nat, agg : SUBSET (Nodes \cup {0})]
    BY <1>0, <1>5, <2>2, ChecksumCallbackType DEF DeliverRoot
  <2>4. relay' = relay /\ client' = client /\ reqs' = reqs /\ net' = net \ {d}
    BY <1>5 DEF DeliverRoot
  <2>5. OutOK(net \ {d})
    BY <1>0 DEF OutOK
  <2> QED
    BY <1>0, <2>3, <2>4, <2>5 DEF PathInv, TypeOK, OutOK
<1>6. ASSUME NEW d \in net, Lose(d) PROVE PathInv'
  <2>1. relay' = relay /\ client' = client /\ root' = root /\ reqs' = reqs /\ net' = net \ {d}
    BY <1>6 DEF Lose
  <2>2. OutOK(net \ {d})
    BY <1>0 DEF OutOK
  <2> QED
    BY <1>0, <2>1, <2>2 DEF PathInv, TypeOK, OutOK
<1>7. ASSUME NEW r \in Relays, PeriodicTimer(r) PROVE PathInv'
  <2> DEFINE s == [relay[r] EXCEPT !.periodic_timer.armed = FALSE]
             topo == send_topology_resp(r, s)
  <2>1. RelayOK(relay[r])
    BY <1>0
  <2>2. s \in RelayStates
    <3> DEFINE tm == [relay[r].periodic_timer EXCEPT !.armed = FALSE]
    <3>1. tm \in [armed : BOOLEAN, f : Callbacks, timeout : Nat]
      BY <2>1 DEF RelayOK, RelayStates
    <3>2. s = [relay[r] EXCEPT !.periodic_timer = tm]
      BY <2>1 DEF RelayOK, RelayStates
    <3> HIDE DEF tm, s
    <3>3. [relay[r] EXCEPT !.periodic_timer = tm] \in RelayStates
      BY <2>1, <3>1 DEF RelayOK, RelayStates
    <3> QED
      BY <3>2, <3>3
  <2>3. s.paths = relay[r].paths /\ SameTable(relay[r], s)
    BY <2>1 DEF RelayOK, RelayStates, SameTable
  <2>4. \/ relay' = [relay EXCEPT ![r] = topo.st] /\ net' = net \cup topo.out
        \/ relay' = [relay EXCEPT ![r] = send_attestation_resp(r, s)] /\ net' = net
        \/ relay' = [relay EXCEPT ![r] = s] /\ net' = net
    BY <1>7 DEF PeriodicTimer
  <2> HIDE DEF s
  <2>5. RelayOK(s)
    BY <2>1, <2>2, <2>3 DEF RelayOK, SameTable, SinkIsLeaf
  <2>6. RelayOK(send_attestation_resp(r, s))
    BY <2>5, SendAttestationType
  <2>7. RelayOK(topo.st) /\ OutOK(topo.out)
    <3>1. Len(s.paths) \in Nat /\ Len(s.paths) < PathRoom /\ PathRoom \in Nat
      BY <2>5, SizesAssumption DEF RelayOK, RelayStates, PathRoom
    <3>2. Len(s.paths) <= PathRoom /\ Len(<<>>) < PathRoom
      BY <3>1
    <3>3. /\ topo.st \in RelayStates /\ topo.st.paths = <<>> /\ SameTable(s, topo.st)
          /\ OutOK(topo.out)
      BY <2>2, <3>2, SendTopologyType
    <3> QED
      BY <2>5, <3>2, <3>3 DEF RelayOK, SameTable, SinkIsLeaf
  <2> HIDE DEF topo
  <2>8. OutOK(net \cup topo.out)
    BY <1>0, <2>7 DEF OutOK
  <2>9. UNCHANGED <<client, root, reqs>>
    BY <1>7 DEF PeriodicTimer
  <2>10. CASE relay' = [relay EXCEPT ![r] = topo.st] /\ net' = net \cup topo.out
    BY <2>7, <2>8, <2>9, <2>10, RelayStepOK
  <2>11. CASE relay' = [relay EXCEPT ![r] = send_attestation_resp(r, s)] /\ net' = net
    BY <1>0, <2>6, <2>9, <2>11, RelayStepOK
  <2>12. CASE relay' = [relay EXCEPT ![r] = s] /\ net' = net
    BY <1>0, <2>5, <2>9, <2>12, RelayStepOK
  <2> QED
    BY <2>4, <2>10, <2>11, <2>12
<1>8. ASSUME NEW r \in Relays, PTimer(r) PROVE PathInv'
  <2> DEFINE s == [relay[r] EXCEPT !.p_timer = FALSE]
  <2>1. RelayOK(relay[r]) /\ r \in Nodes
    BY <1>0 DEF Nodes
  <2>2. s \in RelayStates
    BY <2>1 DEF RelayOK, RelayStates
  <2>3. s.paths = relay[r].paths /\ SameTable(relay[r], s)
    BY <2>1 DEF RelayOK, RelayStates, SameTable
  <2>4. relay' = [relay EXCEPT ![r] = s]
    BY <1>8 DEF PTimer
  <2> HIDE DEF s
  <2>5. RelayOK(s)
    BY <2>1, <2>2, <2>3 DEF RelayOK, SameTable, SinkIsLeaf
  <2>6. OutOK(broadcast_to_parents(r, relay[r].ctimer_resp))
    <3>1. relay[r].ctimer_resp \in AttPackets
      BY <2>1 DEF RelayOK, RelayStates
    <3> QED
      BY <2>1, <3>1, BroadcastType
  <2>7. OutOK(net')
    <3>1. net' = net \cup broadcast_to_parents(r, relay[r].ctimer_resp)
      BY <1>8 DEF PTimer
    <3> QED
      BY <1>0, <2>6, <3>1, NetStep
  <2> QED
    BY <1>8, <2>4, <2>5, <2>7, RelayStepOK DEF PTimer
<1>9. ASSUME UNCHANGED vars PROVE PathInv'
  BY <1>9 DEF vars, PathInv, TypeOK, OutOK
<1> QED
  BY <1>1, <1>2, <1>3, <1>4, <1>5, <1>6, <1>7, <1>8, <1>9 DEF Next, Deliver

-----------------------------------------------------------------------------
(* The theorems. *)

THEOREM PathInvariant == Spec => []PathInv
  BY InitPathInv, NextPathInv, PTL DEF Spec

\* Every mote keeps its C types, in every swarm: in particular each datagram a
\* relay takes for a response of a child is one, timeouts count ticks
\* and no mote uses more connections than uIP has.
THEOREM TypeCorrect == Spec => []TypeOK
<1>1. PathInv => TypeOK
  BY DEF PathInv
<1> QED
  BY <1>1, PathInvariant, PTL

\* In every swarm, whatever is requested, lost or reordered, a relay between two
\* events has a free slot before the flush mark: the "path full" branch of
\* send_topology_resp is dead and pathindex is always written.
THEOREM PathRoomLeft == Spec => []PathHasRoom
<1>1. PathInv => PathHasRoom
  BY DEF PathInv, RelayOK, PathHasRoom, PathRoom
<1> QED
  BY <1>1, PathInvariant, PTL
=============================================================================
