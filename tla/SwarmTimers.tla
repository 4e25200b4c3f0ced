---------------------------- MODULE SwarmTimers -----------------------------
(***************************************************************************)
(* What TLAPS proves of a relay's timers, for every swarm: p_timer never   *)
(* broadcasts an unfinished response, and, while only topologies are       *)
(* requested, no response of a child is held without a timer.              *)
(***************************************************************************)
EXTENDS SwarmProofs

-----------------------------------------------------------------------------
(* What the functions of a relay leave alone. *)

\* The response that waits for p_timer, and the children.
SameResp(s, t) ==
    /\ t.p_timer = s.p_timer /\ t.ctimer_resp = s.ctimer_resp
    /\ t.child_list = s.child_list /\ t.settled = s.settled

\* The other timer, too.
SameTimers(s, t) == SameResp(s, t) /\ t.periodic_timer = s.periodic_timer

\* Topology responses go to parents only.
ToParents(out) == \A d \in out : d.port = PARENT_UDP_CHECKSUM_PORT

LEMMA SendToParentsPort ==
    ASSUME NEW n, NEW s, NEW pkt, NEW is_client
    PROVE  ToParents(send_to_parents(n, s, pkt, is_client))
  BY DEF ToParents, send_to_parents, Datagram

LEMMA BindKeeps ==
    ASSUME NEW s \in RelayStates
    PROVE  /\ SameTimers(s, udp_new_bind(s))
           /\ udp_new_bind(s).checksum_children = s.checksum_children
<1>1. udp_new_bind(s) = [s EXCEPT !.conns = s.conns + 1]
      \/ udp_new_bind(s) = [s EXCEPT !.fault = s.fault \/ NullBindTraps]
  BY DEF udp_new_bind
<1>2. CASE udp_new_bind(s) = [s EXCEPT !.conns = s.conns + 1]
  BY <1>2 DEF RelayStates, SameTimers, SameResp
<1>3. CASE udp_new_bind(s) = [s EXCEPT !.fault = s.fault \/ NullBindTraps]
  BY <1>3 DEF RelayStates, SameTimers, SameResp
<1> QED
  BY <1>1, <1>2, <1>3

LEMMA ResetKeeps ==
    ASSUME NEW s \in RelayStates
    PROVE  /\ SameTimers(s, reset_variable(s))
           /\ reset_variable(s).checksum_children = <<>>
           /\ reset_variable(s).fault = s.fault /\ reset_variable(s).conns = s.conns
<1> DEFINE t == [s EXCEPT !.first_round_completed = TRUE,
                          !.max_index = Len(s.checksum_children),
                          !.checksum_children = <<>>, !.paths = <<>>, !.first_child = TRUE]
<1>1. t \in [child_list : {s.child_list}, received_pkt : {s.received_pkt},
             checksum_children : {<<>>}, max_index : {Len(s.checksum_children)},
             first_round_completed : {TRUE}, my_checksum : {s.my_checksum}, paths : {<<>>},
             first_child : {TRUE}, max_leaf_rank : {s.max_leaf_rank},
             periodic_timer : {s.periodic_timer}, p_timer : {s.p_timer},
             ctimer_resp : {s.ctimer_resp}, conns : {s.conns}, settled : {s.settled},
             sink : {s.sink}, fault : {s.fault}]
  BY DEF RelayStates
<1>2. reset_variable(s) = [t EXCEPT !.received_pkt = {}]
  BY DEF reset_variable, rest_child_list
<1> HIDE DEF t
<1> QED
  BY <1>1, <1>2 DEF SameTimers, SameResp

\* Sending a topology response empties the table of checksums and touches no
\* timer.
LEMMA SendTopologyKeeps ==
    ASSUME NEW r \in Relays, NEW s \in RelayStates
    PROVE  /\ SameTimers(s, send_topology_resp(r, s).st)
           /\ send_topology_resp(r, s).st.checksum_children = <<>>
           /\ ToParents(send_topology_resp(r, s).out)
<1> DEFINE a == attested(r, s)
           b == get_parent_conn(a)
<1>1. a \in RelayStates /\ SameTimers(s, a)
  BY ChecksumType DEF attested, RelayStates, SameTimers, SameResp
<1>2. b \in RelayStates /\ SameTimers(a, b)
  BY <1>1, BindType, BindKeeps DEF get_parent_conn
<1>3. SameTimers(b, reset_variable(b)) /\ reset_variable(b).checksum_children = <<>>
  BY <1>2, ResetKeeps
<1>4. send_topology_resp(r, s).st = reset_variable(b)
  BY DEF send_topology_resp
<1>5. ToParents(send_topology_resp(r, s).out)
  BY SendToParentsPort DEF send_topology_resp
<1> QED
  BY <1>1, <1>2, <1>3, <1>4, <1>5 DEF SameTimers, SameResp

LEMMA FlushKeeps ==
    ASSUME NEW r \in Relays, NEW s \in RelayStates, Len(s.paths) <= PathRoom
    PROVE  /\ SameTimers(s, flush(r, s).st)
           /\ flush(r, s).st.checksum_children = <<>>
           /\ ToParents(flush(r, s).out)
<1> DEFINE t == send_topology_resp(r, s)
<1>1. t.st \in RelayStates
  BY SendTopologyType
<1>2. SameTimers(s, t.st) /\ ToParents(t.out)
  BY SendTopologyKeeps
<1>3. flush(r, s).st = reset_variable(t.st) /\ flush(r, s).out = t.out
  BY DEF flush
<1> HIDE DEF t
<1>4. SameTimers(t.st, reset_variable(t.st)) /\ reset_variable(t.st).checksum_children = <<>>
  BY <1>1, ResetKeeps
<1> QED
  BY <1>2, <1>3, <1>4 DEF SameTimers, SameResp

LEMMA SetPathsKeeps ==
    ASSUME NEW s \in RelayStates, NEW q
    PROVE  /\ SameTimers(s, [s EXCEPT !.paths = q])
           /\ [s EXCEPT !.paths = q].checksum_children = s.checksum_children
           /\ [s EXCEPT !.paths = q].conns = s.conns
  BY DEF RelayStates, SameTimers, SameResp

\* The copy loop either keeps the checksums it came with or, when it flushes,
\* drops them all.
LEMMA CopyPathsKeeps ==
    ASSUME NEW r \in Relays, NEW s, RelayOK(s),
           NEW p \in Seq(Nodes \cup {0}), Len(p) <= PathRoom + 1
    PROVE  /\ SameTimers(s, copy_paths(r, s, p).st)
           /\ copy_paths(r, s, p).st.checksum_children \in {s.checksum_children, <<>>}
           /\ ToParents(copy_paths(r, s, p).out)
<1> DEFINE used == SlotsAfter(s, p, Len(p))
           at   == 1 + Cardinality({j \in 1..Len(p) : SlotsAfter(s, p, j) < PathRoom})
           rest == SubSeq(p, at + 1, Len(p))
           in1  == [s EXCEPT !.paths = Copied(s, p, PathRoom)]
           fl1  == flush(r, in1)
           in2  == [fl1.st EXCEPT !.paths = rest]
           fl2  == flush(r, in2)
           none == [s EXCEPT !.paths = Copied(s, p, used)]
<1>0. s \in RelayStates /\ PathRoom \in Nat
  BY SizesAssumption DEF RelayOK, PathRoom
<1>1. Len(p) \in Nat /\ used \in Nat /\ at \in Nat /\ at >= 1
  <2>1. Len(p) \in Nat
    OBVIOUS
  <2>2. used \in Nat
    BY <1>0, <2>1, SlotsType
  <2>3. IsFiniteSet(1..Len(p))
    BY <2>1, FS_Interval
  <2>4. Cardinality({j \in 1..Len(p) : SlotsAfter(s, p, j) < PathRoom}) \in Nat
    BY <2>3, FS_Subset, FS_CardinalityType
  <2> QED
    BY <2>1, <2>2, <2>4
<1> HIDE DEF at, used
<1>2. rest \in Seq(Nodes \cup {0}) /\ Len(rest) \in Nat /\ Len(rest) <= PathRoom
  BY <1>0, <1>1
<1> HIDE DEF rest
<1>3. SameTimers(s, none) /\ none.checksum_children = s.checksum_children
  BY <1>0, SetPathsKeeps
<1>4. SameTimers(s, in1)
  BY <1>0, SetPathsKeeps
<1>5. in1 \in RelayStates /\ Len(in1.paths) <= PathRoom
  <2>1. Copied(s, p, PathRoom) \in Seq(Nodes \cup {0}) /\ Len(Copied(s, p, PathRoom)) = PathRoom
    BY <1>0, CopiedType
  <2>2. in1 \in RelayStates /\ in1.paths = Copied(s, p, PathRoom)
    BY <1>0, <2>1, SetPathsType
  <2> QED
    BY <1>0, <2>1, <2>2
<1> HIDE DEF in1
<1>6. SameTimers(in1, fl1.st) /\ fl1.st.checksum_children = <<>> /\ ToParents(fl1.out)
  BY <1>5, FlushKeeps
<1>7. fl1.st \in RelayStates
  BY <1>5, FlushType
<1> HIDE DEF fl1
<1>8. SameTimers(fl1.st, in2) /\ in2.checksum_children = <<>>
  BY <1>6, <1>7, SetPathsKeeps
<1>9. in2 \in RelayStates /\ in2.paths = rest
  BY <1>2, <1>7, SetPathsType
<1> HIDE DEF in2
<1>10. SameTimers(in2, fl2.st) /\ fl2.st.checksum_children = <<>> /\ ToParents(fl2.out)
  BY <1>2, <1>9, FlushKeeps
<1> HIDE DEF fl2, none
<1>11. \/ copy_paths(r, s, p) = [st |-> none, out |-> {}]
       \/ copy_paths(r, s, p) = [st |-> in2, out |-> fl1.out]
       \/ copy_paths(r, s, p) = [st |-> fl2.st, out |-> fl1.out \cup fl2.out]
  <2>1. copy_paths(r, s, p) =
          CASE used < PathRoom -> [st |-> none, out |-> {}]
            [] used >= PathRoom /\ Len(rest) < PathRoom -> [st |-> in2, out |-> fl1.out]
            [] used >= PathRoom /\ Len(rest) >= PathRoom ->
                 [st |-> fl2.st, out |-> fl1.out \cup fl2.out]
    BY DEF copy_paths, used, at, rest, in1, fl1, in2, fl2, none
  <2>2. used < PathRoom \/ used >= PathRoom
    BY <1>0, <1>1
  <2>3. Len(rest) < PathRoom \/ Len(rest) >= PathRoom
    BY <1>0, <1>2
  <2> QED
    BY <1>0, <1>1, <1>2, <2>1, <2>2, <2>3
<1>12. CASE copy_paths(r, s, p) = [st |-> none, out |-> {}]
  BY <1>3, <1>12 DEF ToParents
<1>13. CASE copy_paths(r, s, p) = [st |-> in2, out |-> fl1.out]
  BY <1>4, <1>6, <1>8, <1>13 DEF SameTimers, SameResp
<1>14. CASE copy_paths(r, s, p) = [st |-> fl2.st, out |-> fl1.out \cup fl2.out]
  BY <1>4, <1>6, <1>8, <1>10, <1>14 DEF SameTimers, SameResp, ToParents
<1> QED
  BY <1>11, <1>12, <1>13, <1>14

-----------------------------------------------------------------------------
(* Arming a timer, marking a child and storing a checksum. *)

LEMMA SetKeeps ==
    ASSUME NEW s \in RelayStates, NEW t, NEW f
    PROVE  /\ SameResp(s, ctimer_set(s, t, f))
           /\ ctimer_set(s, t, f).periodic_timer = [armed |-> TRUE, f |-> f, timeout |-> t]
           /\ ctimer_set(s, t, f).checksum_children = s.checksum_children
           /\ ctimer_set(s, t, f).conns = s.conns
  BY DEF ctimer_set, RelayStates, SameResp

LEMMA RearmKeeps ==
    ASSUME NEW s \in RelayStates
    PROVE  /\ SameResp(s, ctimer_reset(s))
           /\ ctimer_reset(s).periodic_timer.f = s.periodic_timer.f
           /\ ctimer_reset(s).checksum_children = s.checksum_children
           /\ ctimer_reset(s).fault = s.fault /\ ctimer_reset(s).conns = s.conns
<1> DEFINE tm == [s.periodic_timer EXCEPT !.armed = TRUE]
<1>1. tm.f = s.periodic_timer.f
  BY DEF RelayStates
<1>2. ctimer_reset(s) = [s EXCEPT !.periodic_timer = tm]
  BY DEF ctimer_reset, RelayStates
<1> HIDE DEF tm
<1> QED
  BY <1>1, <1>2 DEF RelayStates, SameResp

\* An expired timer.
Disarmed(s) == [s EXCEPT !.periodic_timer.armed = FALSE]

LEMMA DisarmKeeps ==
    ASSUME NEW s \in RelayStates
    PROVE  /\ Disarmed(s) \in RelayStates
           /\ SameResp(s, Disarmed(s)) /\ SameTable(s, Disarmed(s))
           /\ Disarmed(s).periodic_timer.f = s.periodic_timer.f
           /\ Disarmed(s).checksum_children = s.checksum_children
           /\ Disarmed(s).paths = s.paths /\ Disarmed(s).fault = s.fault
           /\ Disarmed(s).conns = s.conns
<1> DEFINE tm == [s.periodic_timer EXCEPT !.armed = FALSE]
<1>1. s.periodic_timer \in [armed : BOOLEAN, f : Callbacks, timeout : Nat]
  BY DEF RelayStates
<1>2. tm \in [armed : BOOLEAN, f : Callbacks, timeout : Nat] /\ tm.f = s.periodic_timer.f
  BY <1>1
<1>3. Disarmed(s) = [s EXCEPT !.periodic_timer = tm]
  BY DEF RelayStates, Disarmed
<1> HIDE DEF tm
<1>4. [s EXCEPT !.periodic_timer = tm] \in RelayStates
  BY <1>2 DEF RelayStates
<1> DEFINE t == [s EXCEPT !.periodic_timer = tm]
<1>5. /\ t.p_timer = s.p_timer /\ t.ctimer_resp = s.ctimer_resp
      /\ t.child_list = s.child_list /\ t.settled = s.settled /\ t.sink = s.sink
  BY DEF RelayStates
<1>6. /\ t.periodic_timer = tm /\ t.checksum_children = s.checksum_children
      /\ t.paths = s.paths /\ t.fault = s.fault /\ t.conns = s.conns
  BY DEF RelayStates
<1> HIDE DEF t
<1> QED
  BY <1>2, <1>3, <1>4, <1>5, <1>6 DEF SameResp, SameTable, t

LEMMA MarkKeeps ==
    ASSUME NEW s \in RelayStates, NEW id
    PROVE  /\ SameTimers(s, child_set_pkt_received(s, id))
           /\ child_set_pkt_received(s, id).checksum_children = s.checksum_children
           /\ child_set_pkt_received(s, id).fault = s.fault
           /\ child_set_pkt_received(s, id).conns = s.conns
  BY DEF child_set_pkt_received, RelayStates, SameTimers, SameResp

LEMMA StoreKeeps ==
    ASSUME NEW s \in RelayStates, NEW c
    PROVE  /\ SameTimers(s, store_checksum(s, c)) /\ store_checksum(s, c).conns = s.conns
           /\ Len(s.checksum_children) < MAX_CHILD =>
                /\ store_checksum(s, c).checksum_children = Append(s.checksum_children, c)
                /\ store_checksum(s, c).fault = s.fault
<1>1. CASE Len(s.checksum_children) < MAX_CHILD
  <2>1. store_checksum(s, c) = [s EXCEPT !.checksum_children = Append(s.checksum_children, c)]
    BY <1>1 DEF store_checksum
  <2> QED
    BY <2>1 DEF RelayStates, SameTimers, SameResp
<1>2. CASE ~(Len(s.checksum_children) < MAX_CHILD)
  <2>1. store_checksum(s, c) = [s EXCEPT !.fault = TRUE]
    BY <1>2 DEF store_checksum
  <2> QED
    BY <1>2, <2>1 DEF RelayStates, SameTimers, SameResp
<1> QED
  BY <1>1, <1>2

-----------------------------------------------------------------------------
(* The two handlers of responses. *)

\* A child's topology response is sent on at once, with everything the relay
\* holds, or waits for the timer, set to send_topology_resp.
LEMMA ProcessTopologyKeeps ==
    ASSUME NEW r \in Relays, NEW s, RelayOK(s), NEW resp \in TopologyPackets,
           Len(resp.path) <= PathRoom + 1, NEW id
    PROVE  LET t == process_topology_req(r, s, resp, id)
               timer == t.st.periodic_timer
           IN  /\ SameResp(s, t.st) /\ ToParents(t.out)
               /\ ~is_child(s, id) => t.st = s
               /\ is_child(s, id) /\ ~s.fault /\ Len(s.checksum_children) < MAX_CHILD =>
                    \/ /\ t.st.checksum_children = <<>> /\ t.st.paths = <<>>
                       /\ timer.f = s.periodic_timer.f
                    \/ /\ timer.armed /\ timer.f = "send_topology_resp"
                       /\ \/ t.st.checksum_children = <<>>
                          \/ /\ Len(t.st.checksum_children) = Len(s.checksum_children) + 1
                             /\ Len(t.st.checksum_children) # get_child_count(s)
<1> DEFINE s0 == ctimer_reset(s)
           s1 == child_set_pkt_received(s0, id)
           s2 == store_checksum(s1, resp.checksum)
           cp == copy_paths(r, s2, resp.path)
           mx == IF cp.st.max_leaf_rank < resp.max_leaf_rank
                 THEN resp.max_leaf_rank ELSE cp.st.max_leaf_rank
           s3 == [cp.st EXCEPT !.max_leaf_rank = mx]
           fw == send_topology_resp(r, s3)
           s4 == ctimer_set(s3, get_topology_timeout(r) * CLOCK_SECOND, "send_topology_resp")
           t  == process_topology_req(r, s, resp, id)
           ok == ~s.fault /\ Len(s.checksum_children) < MAX_CHILD
<1> s \in RelayStates /\ Len(s.paths) < PathRoom /\ SinkIsLeaf(s)
  BY DEF RelayOK
<1>1. /\ resp.path \in Seq(Nodes \cup {0}) /\ resp.max_leaf_rank \in UInt16
      /\ resp.checksum \in SUBSET Word
  BY DEF TopologyPackets
<1>2. /\ s0 \in RelayStates /\ s0.paths = s.paths /\ SameTable(s, s0) /\ SameResp(s, s0)
      /\ s0.periodic_timer.f = s.periodic_timer.f
      /\ s0.checksum_children = s.checksum_children /\ s0.fault = s.fault
  BY SmallStepsType, RearmKeeps
<1> HIDE DEF s0
<1>3. /\ s1 \in RelayStates /\ s1.paths = s0.paths /\ SameTable(s0, s1) /\ SameTimers(s0, s1)
      /\ s1.checksum_children = s0.checksum_children /\ s1.fault = s0.fault
  <2>1. s1 \in RelayStates /\ s1.paths = s0.paths /\ SameTable(s0, s1)
    BY <1>2, SmallStepsType
  <2>2. /\ SameTimers(s0, s1)
        /\ s1.checksum_children = s0.checksum_children /\ s1.fault = s0.fault
    BY <1>2, MarkKeeps
  <2> QED
    BY <2>1, <2>2
<1> HIDE DEF s1
<1>4. /\ s2 \in RelayStates /\ s2.paths = s1.paths /\ SameTable(s1, s2) /\ SameTimers(s1, s2)
      /\ ok => /\ s2.checksum_children = Append(s.checksum_children, resp.checksum)
               /\ ~s2.fault
  <2>1. s2 \in RelayStates /\ s2.paths = s1.paths /\ SameTable(s1, s2)
    BY <1>1, <1>3, SmallStepsType
  <2>2. /\ SameTimers(s1, s2)
        /\ Len(s1.checksum_children) < MAX_CHILD =>
             /\ s2.checksum_children = Append(s1.checksum_children, resp.checksum)
             /\ s2.fault = s1.fault
    BY <1>3, StoreKeeps
  <2> QED
    BY <1>2, <1>3, <2>1, <2>2
<1> HIDE DEF s2
<1>5. RelayOK(s2) /\ SameResp(s, s2) /\ s2.periodic_timer.f = s.periodic_timer.f
  BY <1>2, <1>3, <1>4 DEF RelayOK, SameTable, SinkIsLeaf, SameTimers, SameResp
<1>6. /\ RelayOK(cp.st) /\ SameTimers(s2, cp.st) /\ ToParents(cp.out)
      /\ cp.st.checksum_children \in {s2.checksum_children, <<>>}
  BY <1>1, <1>5, CopyPathsType, CopyPathsKeeps
<1> HIDE DEF cp
<1>7. /\ s3 \in RelayStates /\ SameTimers(cp.st, s3) /\ s3.paths = cp.st.paths
      /\ s3.checksum_children = cp.st.checksum_children
  <2>1. mx \in UInt16
    BY <1>1, <1>6 DEF RelayOK, RelayStates
  <2> HIDE DEF mx
  <2>2. s3 \in RelayStates
    BY <1>6, <2>1 DEF RelayOK, RelayStates
  <2> QED
    BY <1>6, <2>2 DEF RelayOK, RelayStates, SameTimers, SameResp
<1> HIDE DEF s3
<1>8. Len(s3.paths) <= PathRoom
  <2>1. Len(s3.paths) \in Nat /\ PathRoom \in Nat
    BY <1>7, SizesAssumption DEF RelayStates, PathRoom
  <2>2. Len(s3.paths) < PathRoom
    BY <1>6, <1>7 DEF RelayOK
  <2> QED
    BY <2>1, <2>2
<1>9. /\ SameTimers(s3, fw.st) /\ fw.st.checksum_children = <<>> /\ fw.st.paths = <<>>
      /\ ToParents(fw.out)
  BY <1>7, <1>8, SendTopologyKeeps, SendTopologyType
<1> HIDE DEF fw
<1>10. /\ SameResp(s3, s4) /\ s4.checksum_children = s3.checksum_children
       /\ s4.periodic_timer.armed /\ s4.periodic_timer.f = "send_topology_resp"
  <2>1. /\ SameResp(s3, s4) /\ s4.checksum_children = s3.checksum_children
        /\ s4.periodic_timer = [armed |-> TRUE, f |-> "send_topology_resp",
                                timeout |-> get_topology_timeout(r) * CLOCK_SECOND]
    BY <1>7, SetKeeps
  <2> HIDE DEF s4
  <2> QED
    BY <2>1
<1> HIDE DEF s4
<1>11. get_child_count(s3) = get_child_count(s)
  BY <1>5, <1>6, <1>7 DEF SameTimers, SameResp, get_child_count
<1>12. CASE ~is_child(s, id)
  <2>1. t = [st |-> s, out |-> {}]
    BY <1>12 DEF process_topology_req
  <2> QED
    BY <1>12, <2>1 DEF SameResp, ToParents
<1>13. CASE is_child(s, id) /\ s2.fault
  <2>1. t = [st |-> s2, out |-> {}]
    BY <1>13 DEF process_topology_req, s0, s1, s2
  <2>2. ~ok
    BY <1>4, <1>13
  <2> QED
    BY <1>5, <1>13, <2>1, <2>2 DEF ToParents
<1>14. CASE /\ is_child(s, id) /\ ~s2.fault
            /\ Len(s3.checksum_children) = get_child_count(s3)
  <2>1. t = [st |-> fw.st, out |-> cp.out \cup fw.out]
    BY <1>14 DEF process_topology_req, s0, s1, s2, cp, s3, fw
  <2>2. SameResp(s, t.st) /\ t.st.periodic_timer.f = s.periodic_timer.f
    BY <1>5, <1>6, <1>7, <1>9, <2>1 DEF SameTimers, SameResp
  <2>3. ToParents(t.out)
    BY <1>6, <1>9, <2>1 DEF ToParents
  <2> QED
    BY <1>9, <1>14, <2>1, <2>2, <2>3
<1>15. CASE /\ is_child(s, id) /\ ~s2.fault
            /\ Len(s3.checksum_children) # get_child_count(s3)
  <2>1. t = [st |-> s4, out |-> cp.out]
    BY <1>15 DEF process_topology_req, s0, s1, s2, cp, s3, s4
  <2>2. SameResp(s, t.st) /\ ToParents(t.out)
    BY <1>5, <1>6, <1>7, <1>10, <2>1 DEF SameTimers, SameResp
  <2>3. ok => \/ s4.checksum_children = <<>>
              \/ /\ Len(s4.checksum_children) = Len(s.checksum_children) + 1
                 /\ Len(s4.checksum_children) # get_child_count(s)
    <3>1. s.checksum_children \in Seq(SUBSET Word)
      BY DEF RelayStates
    <3>2. Len(Append(s.checksum_children, resp.checksum)) = Len(s.checksum_children) + 1
      BY <1>1, <3>1
    <3> QED
      BY <1>4, <1>6, <1>7, <1>10, <1>11, <1>15, <3>2
  <2> QED
    BY <1>10, <1>15, <2>1, <2>2, <2>3
<1> QED
  BY <1>12, <1>13, <1>14, <1>15

\* An attestation response only stores a checksum and arms the other timer.
LEMMA ProcessAttestationKeeps ==
    ASSUME NEW r \in Relays, NEW s, RelayOK(s), NEW resp \in AttPackets, NEW id
    PROVE  SameResp(s, process_attestation_req(r, s, resp, id))
<1> DEFINE s1 == store_checksum(s, resp.checksum)
           tm == get_attestation_timeout(r, s) * FrameTicks
           s2 == ctimer_set(s1, tm, "send_attestation_resp")
           s3 == [s2 EXCEPT !.first_child = FALSE]
<1>1. s \in RelayStates /\ resp.checksum \in SUBSET Word
  BY DEF RelayOK, AttPackets
<1>2. s1 \in RelayStates /\ SameResp(s, s1)
  BY <1>1, SmallStepsType, StoreKeeps DEF SameTimers
<1>3. tm \in Nat /\ "send_attestation_resp" \in Callbacks
  BY <1>1, TimeoutType DEF Callbacks
<1> HIDE DEF s1, tm
<1>4. s2 \in RelayStates /\ SameResp(s1, s2)
  BY <1>2, <1>3, SmallStepsType, SetKeeps
<1> HIDE DEF s2
<1>5. SameResp(s2, s3)
  BY <1>4 DEF RelayStates, SameResp
<1> HIDE DEF s3
<1>6. process_attestation_req(r, s, resp, id) = s1 \/ process_attestation_req(r, s, resp, id) = s3
  BY DEF process_attestation_req, s1, s2, s3, tm
<1> QED
  BY <1>2, <1>4, <1>5, <1>6 DEF SameResp

-----------------------------------------------------------------------------
(* What p_timer broadcasts. *)

Finished(resp) == resp.pkt_type = ATTESTATION /\ resp.checksum # {}

Broadcastable(s) == s.p_timer => Finished(s.ctimer_resp)

\* Bit 16 of the seed survives any 16-bit id.
LEMMA AnswerFinished ==
    ASSUME NEW n, NEW pkt, pkt.pkt_type # TOPOLOGY
    PROVE  Finished(create_response(n, pkt))
<1>1. 16 \in attest_memory(n)
  BY DEF attest_memory, Xor, Seed, IdBits
<1> QED
  BY <1>1 DEF create_response, AttResp, Finished

\* An aggregate of 0 is never handed to p_timer.
LEMMA SendAttestationFinishes ==
    ASSUME NEW r \in Relays, NEW s, RelayOK(s), Broadcastable(s)
    PROVE  Broadcastable(send_attestation_resp(r, s))
<1> DEFINE a == attested(r, s)
           c == get_combined_checksum(r, s)
           t == [a EXCEPT !.ctimer_resp = AttResp(c), !.p_timer = TRUE]
<1>1. a \in RelayStates /\ SameResp(s, a)
  BY ChecksumType DEF RelayOK, attested, RelayStates, SameResp
<1>2. AttResp(c) \in AttPackets
  BY ChecksumType DEF get_combined_checksum, AttResp, AttPackets
<1>3. c # {} => Finished(AttResp(c))
  BY DEF Finished, AttResp
<1>4. send_attestation_resp(r, s) = IF c = {} THEN a ELSE reset_variable(t)
  BY DEF send_attestation_resp
<1> HIDE DEF a, c
<1>5. t \in RelayStates /\ t.ctimer_resp = AttResp(c)
  BY <1>1, <1>2 DEF RelayStates
<1> HIDE DEF t
<1>6. SameTimers(t, reset_variable(t))
  BY <1>5, ResetKeeps
<1> QED
  BY <1>1, <1>3, <1>4, <1>5, <1>6 DEF SameTimers, SameResp, Broadcastable

LEMMA TcpipHandlerBroadcastable ==
    ASSUME NEW r \in Relays, NEW s, RelayOK(s), Broadcastable(s), NEW src, NEW pkt,
           \/ pkt \in TopologyPackets /\ Len(pkt.path) <= PathRoom + 1
           \/ pkt \in AttPackets
    PROVE  Broadcastable(tcpip_handler(r, s, pkt, src).st)
<1>1. CASE pkt.pkt_type = TOPOLOGY
  <2>1. pkt \in TopologyPackets /\ Len(pkt.path) <= PathRoom + 1
    BY <1>1 DEF AttPackets, TOPOLOGY, ATTESTATION
  <2>2. SameResp(s, process_topology_req(r, s, pkt, src).st)
    BY <2>1, ProcessTopologyKeeps
  <2>3. tcpip_handler(r, s, pkt, src) = process_topology_req(r, s, pkt, src)
    BY <1>1 DEF tcpip_handler, TOPOLOGY, ATTESTATION
  <2> QED
    BY <2>2, <2>3 DEF SameResp, Broadcastable
<1>2. CASE pkt.pkt_type = ATTESTATION
  <2>1. pkt \in AttPackets
    BY <1>2 DEF TopologyPackets, TOPOLOGY, ATTESTATION
  <2>2. SameResp(s, process_attestation_req(r, s, pkt, src))
    BY <2>1, ProcessAttestationKeeps
  <2>3. tcpip_handler(r, s, pkt, src) = [st |-> process_attestation_req(r, s, pkt, src), out |-> {}]
    BY <1>2 DEF tcpip_handler, TOPOLOGY, ATTESTATION
  <2> QED
    BY <2>2, <2>3 DEF SameResp, Broadcastable
<1>3. CASE pkt.pkt_type # TOPOLOGY /\ pkt.pkt_type # ATTESTATION
  BY <1>3 DEF tcpip_handler
<1> QED
  BY <1>1, <1>2, <1>3

LEMMA McastHandlerBroadcastable ==
    ASSUME NEW r \in Relays, NEW s, RelayOK(s), Broadcastable(s), NEW pkt
    PROVE  Broadcastable(mcast_tcpip_handler(r, s, pkt).st)
<1> s \in RelayStates
  BY DEF RelayOK
<1>1. CASE pkt.pkt_type = TOPOLOGY
  <2>1. SameTimers(s, get_parent_conn(s))
    BY BindKeeps DEF get_parent_conn
  <2>2. mcast_tcpip_handler(r, s, pkt).st = get_parent_conn(s)
    BY <1>1 DEF mcast_tcpip_handler
  <2> QED
    BY <2>1, <2>2 DEF SameTimers, SameResp, Broadcastable
<1>2. CASE pkt.pkt_type # TOPOLOGY
  <2> DEFINE resp == create_response(r, pkt)
             t == [s EXCEPT !.ctimer_resp = resp]
  <2>1. Finished(resp)
    BY <1>2, AnswerFinished
  <2>2. mcast_tcpip_handler(r, s, pkt).st = t
    BY <1>2 DEF mcast_tcpip_handler
  <2> HIDE DEF resp
  <2>3. t.ctimer_resp = resp
    BY DEF RelayStates
  <2> QED
    BY <2>1, <2>2, <2>3 DEF Broadcastable
<1> QED
  BY <1>1, <1>2

LEMMA RelayReceiveBroadcastable ==
    ASSUME NEW r \in Relays, NEW s, RelayOK(s), Broadcastable(s), NEW d \in Datagrams,
           OutOK({d})
    PROVE  Broadcastable(RelayReceive(r, s, d).st)
<1>1. d.port = PARENT_UDP_CHECKSUM_PORT =>
         d.pkt \in TopologyPackets /\ Len(d.pkt.path) <= PathRoom + 1
  BY DEF OutOK, Datagrams, MCAST_SINK_UDP_PORT, PARENT_UDP_CHECKSUM_PORT, CHECKSUM_PORT
<1>2. d.port = CHECKSUM_PORT => d.pkt \in AttPackets
  BY DEF Datagrams, MCAST_SINK_UDP_PORT, PARENT_UDP_CHECKSUM_PORT, CHECKSUM_PORT
<1>3. d.port \in {MCAST_SINK_UDP_PORT, PARENT_UDP_CHECKSUM_PORT, CHECKSUM_PORT}
  BY DEF Datagrams
<1>4. Broadcastable(mcast_tcpip_handler(r, s, d.pkt).st)
  BY McastHandlerBroadcastable
<1>5. CASE d.port = CHECKSUM_PORT
  <2>1. RelayReceive(r, s, d) = tcpip_handler(r, s, d.pkt, d.src)
    BY <1>5 DEF RelayReceive, checksum_receiver, CHECKSUM_PORT, MCAST_SINK_UDP_PORT
  <2> QED
    BY <1>2, <1>5, <2>1, TcpipHandlerBroadcastable
<1>6. CASE d.port = MCAST_SINK_UDP_PORT
  <2>1. CASE ~s.sink
    BY <1>6, <2>1 DEF RelayReceive, CHECKSUM_PORT, MCAST_SINK_UDP_PORT
  <2>2. CASE s.sink
    <3>1. is_leaf(s)
      BY <2>2, FS_EmptySet DEF RelayOK, SinkIsLeaf, is_leaf, get_child_count
    <3>2. RelayReceive(r, s, d) = mcast_tcpip_handler(r, s, d.pkt)
      BY <1>6, <2>2, <3>1 DEF RelayReceive, CHECKSUM_PORT, MCAST_SINK_UDP_PORT
    <3> QED
      BY <1>4, <3>2
  <2> QED
    BY <2>1, <2>2
<1>7. CASE d.port = PARENT_UDP_CHECKSUM_PORT
  <2>1. \/ RelayReceive(r, s, d) = mcast_tcpip_handler(r, s, d.pkt)
        \/ RelayReceive(r, s, d) = tcpip_handler(r, s, d.pkt, d.src)
    BY <1>7 DEF RelayReceive, CHECKSUM_PORT, MCAST_SINK_UDP_PORT, PARENT_UDP_CHECKSUM_PORT
  <2>2. Broadcastable(tcpip_handler(r, s, d.pkt, d.src).st)
    BY <1>1, <1>7, TcpipHandlerBroadcastable
  <2> QED
    BY <1>4, <2>1, <2>2
<1> QED
  BY <1>3, <1>5, <1>6, <1>7

\* network_settled fills the child table and may open a sink.
LEMMA SettledKeeps ==
    ASSUME NEW r \in Relays, NEW s \in RelayStates
    PROVE  LET t == network_settled(r, s)
           IN  /\ t.p_timer = s.p_timer /\ t.ctimer_resp = s.ctimer_resp
               /\ t.periodic_timer = s.periodic_timer
               /\ t.checksum_children = s.checksum_children
               /\ t.paths = s.paths /\ t.settled
               /\ ~t.fault => ~s.fault
               /\ \/ t.child_list = s.child_list
                  \/ /\ get_child_count(t) <= MAX_CHILD
                     /\ t.child_list = {p \in Nbr[r] : Rank[p] > Rank[r]}
<1> DEFINE children == {p \in Nbr[r] : Rank[p] > Rank[r]}
           a == [s EXCEPT !.child_list = children, !.received_pkt = {}]
           b == [s EXCEPT !.fault = TRUE]
           f == fill_child_entries(r, s)
           t == [f EXCEPT !.settled = TRUE]
           u == udp_new_bind(t)
           v == [u EXCEPT !.sink = ConnFree(t)]
           Like(x, y) == /\ y.p_timer = x.p_timer /\ y.ctimer_resp = x.ctimer_resp
                         /\ y.periodic_timer = x.periodic_timer
                         /\ y.checksum_children = x.checksum_children /\ y.paths = x.paths
                         /\ ~y.fault => ~x.fault
<1>1. children \in SUBSET Nodes
  BY NbrType DEF Nodes
<1>2. \/ f = a /\ Cardinality(children) <= MAX_CHILD
      \/ f = b
  BY DEF fill_child_entries
<1> HIDE DEF children
<1>3. a \in RelayStates /\ b \in RelayStates
  <2>1. a \in RelayStates
    BY <1>1 DEF RelayStates
  <2>2. b \in RelayStates
    BY DEF RelayStates
  <2> QED
    BY <2>1, <2>2
<1>4. Like(s, a) /\ a.child_list = children
  BY DEF RelayStates
<1>5. Like(s, b) /\ b.child_list = s.child_list
  BY DEF RelayStates
<1> HIDE DEF a, b, f
<1>6. f \in RelayStates /\ Like(s, f)
  BY <1>2, <1>3, <1>4, <1>5
<1>7. t \in RelayStates
  BY <1>6 DEF RelayStates
<1>8. Like(f, t) /\ t.child_list = f.child_list /\ t.settled
  BY <1>6 DEF RelayStates
<1>9. network_settled(r, s) = IF is_leaf(t) /\ ~t.fault /\ join_mcast_group(r) THEN v ELSE t
  BY DEF network_settled, f
<1> HIDE DEF t
<1>10. u \in RelayStates /\ u.paths = t.paths /\ SameTimers(t, u)
       /\ u.checksum_children = t.checksum_children
  BY <1>7, BindType, BindKeeps
<1> HIDE DEF u
<1>11. /\ v.p_timer = u.p_timer /\ v.ctimer_resp = u.ctimer_resp
       /\ v.periodic_timer = u.periodic_timer
       /\ v.checksum_children = u.checksum_children /\ v.paths = u.paths
       /\ v.child_list = u.child_list /\ v.settled = u.settled
  BY <1>10 DEF RelayStates
<1> HIDE DEF v
<1>12. \/ get_child_count(f) <= MAX_CHILD /\ f.child_list = children
       \/ f.child_list = s.child_list
  BY <1>2, <1>4, <1>5 DEF get_child_count
<1>13. CASE ~(is_leaf(t) /\ ~t.fault /\ join_mcast_group(r))
  BY <1>6, <1>8, <1>9, <1>12, <1>13 DEF get_child_count, children
<1>14. CASE is_leaf(t) /\ ~t.fault /\ join_mcast_group(r)
  <2>1. network_settled(r, s) = v
    BY <1>9, <1>14
  <2>2. ~s.fault
    BY <1>6, <1>8, <1>14
  <2> QED
    BY <1>6, <1>8, <1>10, <1>11, <1>12, <2>1, <2>2
       DEF get_child_count, SameTimers, SameResp, children
<1> QED
  BY <1>13, <1>14

LEMMA BootType == RelayBoot \in RelayStates
<1>1. <<>> \in Seq(SUBSET Word) /\ <<>> \in Seq(Nodes \cup {0}) /\ {} \in SUBSET Nodes
  OBVIOUS
<1>2. 3 \in 0..UIP_UDP_CONNS /\ 0 \in UInt16 /\ 0 \in Nat
  BY SizesAssumption DEF UInt16
<1>3. [armed |-> FALSE, f |-> "none", timeout |-> 0]
         \in [armed : BOOLEAN, f : Callbacks, timeout : Nat]
  BY <1>2 DEF Callbacks
<1>4. NoResp \in AttPackets /\ {} \in SUBSET Word
  BY DEF NoResp, AttPackets
<1> QED
  BY <1>1, <1>2, <1>3, <1>4 DEF RelayBoot, RelayStates

BroadcastInv == \A r \in Relays : Broadcastable(relay[r])

LEMMA InitBroadcastInv == Init => BroadcastInv
<1> SUFFICES ASSUME Init, NEW r \in Relays PROVE Broadcastable(relay[r])
  BY DEF BroadcastInv
<1>1. RelayBoot \in RelayStates /\ ~RelayBoot.p_timer
  BY BootType DEF RelayBoot
<1>2. relay[r] = network_settled(r, RelayBoot) \/ relay[r] = RelayBoot
  BY DEF Init
<1>3. ~network_settled(r, RelayBoot).p_timer
  BY <1>1, SettledKeeps
<1> QED
  BY <1>1, <1>2, <1>3 DEF Broadcastable

LEMMA NextBroadcastInv == PathInv /\ BroadcastInv /\ [Next]_vars => BroadcastInv'
<1> SUFFICES ASSUME PathInv, BroadcastInv, [Next]_vars PROVE BroadcastInv'
  OBVIOUS
<1>1. relay \in [Relays -> RelayStates] /\ net \subseteq Datagrams /\ OutOK(net)
  BY DEF PathInv, TypeOK
<1>2. \A r \in Relays : RelayOK(relay[r]) /\ relay[r] \in RelayStates /\ Broadcastable(relay[r])
  BY DEF PathInv, RelayOK, BroadcastInv
<1>3. ASSUME NEW r \in Relays, NEW s, relay' = [relay EXCEPT ![r] = s], Broadcastable(s)
      PROVE  BroadcastInv'
  BY <1>1, <1>2, <1>3 DEF BroadcastInv
<1>4. CASE relay' = relay
  BY <1>2, <1>4 DEF BroadcastInv
<1>5. ASSUME NEW type \in Requests, VerifierRequest(type) PROVE BroadcastInv'
  BY <1>4, <1>5 DEF VerifierRequest
<1>6. ASSUME NEW r \in Relays, Settle(r) PROVE BroadcastInv'
  <2> DEFINE t == network_settled(r, relay[r])
  <2>1. t.p_timer = relay[r].p_timer /\ t.ctimer_resp = relay[r].ctimer_resp
    BY <1>2, SettledKeeps
  <2>2. relay' = [relay EXCEPT ![r] = t]
    BY <1>6 DEF Settle
  <2> HIDE DEF t
  <2> QED
    BY <1>2, <1>3, <2>1, <2>2 DEF Broadcastable
<1>7. ASSUME NEW d \in net, DeliverRelay(d) PROVE BroadcastInv'
  <2>1. d.dst \in Relays /\ d \in Datagrams /\ OutOK({d})
    BY <1>1, <1>7 DEF DeliverRelay, OutOK
  <2>2. Broadcastable(RelayReceive(d.dst, relay[d.dst], d).st)
    BY <1>2, <2>1, RelayReceiveBroadcastable
  <2>3. relay' = [relay EXCEPT ![d.dst] = RelayReceive(d.dst, relay[d.dst], d).st]
    BY <1>7 DEF DeliverRelay
  <2> QED
    BY <1>3, <2>1, <2>2, <2>3
<1>8. ASSUME NEW d \in net, DeliverClient(d) \/ DeliverRoot(d) \/ Lose(d) PROVE BroadcastInv'
  BY <1>4, <1>8 DEF DeliverClient, DeliverRoot, Lose
<1>9. ASSUME NEW r \in Relays, PeriodicTimer(r) PROVE BroadcastInv'
  <2> DEFINE s == Disarmed(relay[r])
             topo == send_topology_resp(r, s)
  <2>1. \/ relay' = [relay EXCEPT ![r] = topo.st]
        \/ relay' = [relay EXCEPT ![r] = send_attestation_resp(r, s)]
        \/ relay' = [relay EXCEPT ![r] = s]
    BY <1>9 DEF PeriodicTimer, Disarmed
  <2>2. /\ s \in RelayStates /\ SameResp(relay[r], s)
        /\ s.paths = relay[r].paths /\ SameTable(relay[r], s)
    BY <1>2, DisarmKeeps
  <2> HIDE DEF s
  <2>3. RelayOK(s) /\ Broadcastable(s)
    BY <1>2, <2>2 DEF RelayOK, SinkIsLeaf, SameTable, SameResp, Broadcastable
  <2>4. Broadcastable(send_attestation_resp(r, s))
    BY <2>3, SendAttestationFinishes
  <2>5. Broadcastable(topo.st)
    <3>1. SameTimers(s, topo.st)
      BY <2>2, SendTopologyKeeps
    <3> HIDE DEF topo
    <3> QED
      BY <2>3, <3>1 DEF SameTimers, SameResp, Broadcastable
  <2> QED
    BY <1>3, <2>1, <2>3, <2>4, <2>5
<1>10. ASSUME NEW r \in Relays, PTimer(r) PROVE BroadcastInv'
  <2> DEFINE s == [relay[r] EXCEPT !.p_timer = FALSE]
  <2>1. relay' = [relay EXCEPT ![r] = s]
    BY <1>10 DEF PTimer
  <2>2. ~s.p_timer
    BY <1>2 DEF RelayStates
  <2> HIDE DEF s
  <2> QED
    BY <1>3, <2>1, <2>2 DEF Broadcastable
<1>11. CASE UNCHANGED vars
  BY <1>4, <1>11 DEF vars
<1> QED
  BY <1>5, <1>6, <1>7, <1>8, <1>9, <1>10, <1>11 DEF Next, Deliver

\* In every swarm, whatever is requested, lost or reordered, what p_timer
\* broadcasts is a finished, non-zero aggregate: neither the zeroed ctimer_resp of
\* a relay that has just booted nor a combined checksum of 0, which
\* send_attestation_resp drops.
THEOREM FinishedBroadcast == Spec => []BroadcastIsAggregate
<1>1. BroadcastInv => BroadcastIsAggregate
  BY DEF BroadcastInv, Broadcastable, Finished, BroadcastIsAggregate
<1> QED
  BY <1>1, InitBroadcastInv, NextBroadcastInv, PathInvariant, PTL DEF Spec

-----------------------------------------------------------------------------
(* What a relay holds while only topologies are requested. *)

Holds(s) == s.checksum_children # <<>> \/ s.paths # <<>>

Waits(s) == s.periodic_timer.armed /\ s.periodic_timer.f = "send_topology_resp"

\* No timer of the other callback can be set, the child table fits, and less is
\* stored than there are children: the last one's response is sent on at once.
HoldOK(s) ==
    /\ ~s.p_timer /\ s.periodic_timer.f # "send_attestation_resp"
    /\ ~s.settled => s.child_list = {}
    /\ get_child_count(s) <= MAX_CHILD
    /\ s.checksum_children = <<>> \/ Len(s.checksum_children) < get_child_count(s)
    /\ ~s.fault /\ Holds(s) => Waits(s)

\* Only topology requests and their responses are in flight.
TopologyOnly(out) ==
    \A d \in out : /\ d.port # CHECKSUM_PORT
                   /\ d.port = MCAST_SINK_UDP_PORT => d.pkt.pkt_type = TOPOLOGY

LEMMA ToParentsTopology ==
    ASSUME NEW out, ToParents(out)
    PROVE  TopologyOnly(out)
  BY DEF ToParents, TopologyOnly, PARENT_UDP_CHECKSUM_PORT, MCAST_SINK_UDP_PORT, CHECKSUM_PORT

\* A mote with a child has at least one.
LEMMA ChildCount ==
    ASSUME NEW s \in RelayStates
    PROVE  /\ get_child_count(s) \in Nat
           /\ \A id : is_child(s, id) => get_child_count(s) >= 1
           /\ s.child_list = {} => get_child_count(s) = 0
<1>1. IsFiniteSet(s.child_list)
  BY NodesFinite, FS_Subset DEF RelayStates
<1>2. get_child_count(s) \in Nat
  BY <1>1, FS_CardinalityType DEF get_child_count
<1>3. get_child_count(s) = 0 <=> s.child_list = {}
  BY <1>1, FS_EmptySet DEF get_child_count
<1> QED
  BY <1>2, <1>3 DEF is_child

LEMMA ProcessTopologyHold ==
    ASSUME NEW r \in Relays, NEW s, RelayOK(s), HoldOK(s), ~s.fault,
           NEW resp \in TopologyPackets, Len(resp.path) <= PathRoom + 1, NEW id
    PROVE  LET t == process_topology_req(r, s, resp, id)
           IN  HoldOK(t.st) /\ TopologyOnly(t.out)
<1> DEFINE t == process_topology_req(r, s, resp, id)
<1>1. s \in RelayStates /\ t.st \in RelayStates
  BY ProcessTopologyType DEF RelayOK
<1>2. SameResp(s, t.st) /\ ToParents(t.out) /\ (~is_child(s, id) => t.st = s)
  BY ProcessTopologyKeeps
<1>3. get_child_count(s) \in Nat /\ (is_child(s, id) => get_child_count(s) >= 1)
  BY <1>1, ChildCount
<1>4. s.checksum_children \in Seq(SUBSET Word) /\ Len(s.checksum_children) \in Nat
      /\ MAX_CHILD \in Nat
  BY <1>1, SizesAssumption DEF RelayStates
<1>5. is_child(s, id) => Len(s.checksum_children) < get_child_count(s)
  BY <1>3, <1>4 DEF HoldOK
<1>6. is_child(s, id) => Len(s.checksum_children) < MAX_CHILD
  BY <1>3, <1>4, <1>5 DEF HoldOK
<1>7. is_child(s, id) =>
         \/ /\ t.st.checksum_children = <<>> /\ t.st.paths = <<>>
            /\ t.st.periodic_timer.f = s.periodic_timer.f
         \/ /\ Waits(t.st)
            /\ \/ t.st.checksum_children = <<>>
               \/ /\ Len(t.st.checksum_children) = Len(s.checksum_children) + 1
                  /\ Len(t.st.checksum_children) # get_child_count(s)
  BY <1>6, ProcessTopologyKeeps DEF Waits
<1> HIDE DEF t
<1>8. get_child_count(t.st) = get_child_count(s)
  BY <1>2 DEF SameResp, get_child_count
<1>9. \/ t.st = s
      \/ /\ t.st.checksum_children = <<>> /\ ~Holds(t.st)
         /\ t.st.periodic_timer.f # "send_attestation_resp"
      \/ /\ Waits(t.st)
         /\ \/ t.st.checksum_children = <<>>
            \/ Len(t.st.checksum_children) < get_child_count(s)
  <2>1. CASE ~is_child(s, id)
    BY <1>2, <2>1
  <2>2. CASE is_child(s, id)
    BY <1>3, <1>4, <1>5, <1>7, <2>2 DEF HoldOK, Holds
  <2> QED
    BY <2>1, <2>2
<1>10. HoldOK(t.st)
  <2>1. CASE t.st = s
    BY <2>1
  <2>2. CASE /\ t.st.checksum_children = <<>> /\ ~Holds(t.st)
             /\ t.st.periodic_timer.f # "send_attestation_resp"
    BY <1>2, <1>8, <2>2 DEF HoldOK, SameResp
  <2>3. CASE /\ Waits(t.st)
             /\ \/ t.st.checksum_children = <<>>
                \/ Len(t.st.checksum_children) < get_child_count(s)
    BY <1>2, <1>8, <2>3 DEF HoldOK, SameResp, Waits
  <2> QED
    BY <1>9, <2>1, <2>2, <2>3
<1> QED
  BY <1>2, <1>10, ToParentsTopology DEF t

\* A leaf relay answers a topology request and takes a connection for it.
LEMMA McastHandlerHold ==
    ASSUME NEW r \in Relays, NEW s, RelayOK(s), HoldOK(s), ~s.fault,
           NEW pkt, pkt.pkt_type = TOPOLOGY
    PROVE  LET t == mcast_tcpip_handler(r, s, pkt)
           IN  HoldOK(t.st) /\ TopologyOnly(t.out)
<1> DEFINE u == get_parent_conn(s)
<1>1. s \in RelayStates
  BY DEF RelayOK
<1>2. SameTimers(s, u) /\ u.checksum_children = s.checksum_children /\ u.paths = s.paths
  BY <1>1, BindKeeps, BindType DEF get_parent_conn
<1>3. mcast_tcpip_handler(r, s, pkt).st = u
      /\ ToParents(mcast_tcpip_handler(r, s, pkt).out)
  BY SendToParentsPort DEF mcast_tcpip_handler
<1> HIDE DEF u
<1>4. get_child_count(u) = get_child_count(s)
  BY <1>2 DEF SameTimers, SameResp, get_child_count
<1>5. HoldOK(u)
  BY <1>2, <1>4 DEF HoldOK, SameTimers, SameResp, Holds, Waits
<1> QED
  BY <1>3, <1>5, ToParentsTopology

LEMMA RelayReceiveHold ==
    ASSUME NEW r \in Relays, NEW s, RelayOK(s), HoldOK(s), ~s.fault,
           NEW d \in Datagrams, OutOK({d}), TopologyOnly({d})
    PROVE  HoldOK(RelayReceive(r, s, d).st) /\ TopologyOnly(RelayReceive(r, s, d).out)
<1>1. d.port \in {MCAST_SINK_UDP_PORT, PARENT_UDP_CHECKSUM_PORT}
  BY DEF Datagrams, TopologyOnly
<1>2. CASE d.port = MCAST_SINK_UDP_PORT /\ ~s.sink
  <2>1. RelayReceive(r, s, d) = [st |-> s, out |-> {}]
    BY <1>2 DEF RelayReceive, CHECKSUM_PORT, MCAST_SINK_UDP_PORT
  <2> QED
    BY <2>1 DEF TopologyOnly
<1>3. CASE d.port = MCAST_SINK_UDP_PORT /\ s.sink
  <2>1. is_leaf(s)
    BY <1>3, FS_EmptySet DEF RelayOK, SinkIsLeaf, is_leaf, get_child_count
  <2>2. RelayReceive(r, s, d) = mcast_tcpip_handler(r, s, d.pkt)
    BY <1>3, <2>1 DEF RelayReceive, CHECKSUM_PORT, MCAST_SINK_UDP_PORT
  <2>3. d.pkt.pkt_type = TOPOLOGY
    BY <1>3 DEF TopologyOnly
  <2> QED
    BY <2>2, <2>3, McastHandlerHold
<1>4. CASE d.port = PARENT_UDP_CHECKSUM_PORT
  <2>1. d.pkt \in TopologyPackets /\ Len(d.pkt.path) <= PathRoom + 1
    BY <1>4 DEF OutOK, Datagrams, MCAST_SINK_UDP_PORT, PARENT_UDP_CHECKSUM_PORT, CHECKSUM_PORT
  <2>2. d.pkt.pkt_type = TOPOLOGY
    BY <2>1 DEF TopologyPackets
  <2>3. \/ RelayReceive(r, s, d) = mcast_tcpip_handler(r, s, d.pkt)
        \/ RelayReceive(r, s, d) = tcpip_handler(r, s, d.pkt, d.src)
    BY <1>4 DEF RelayReceive, CHECKSUM_PORT, MCAST_SINK_UDP_PORT, PARENT_UDP_CHECKSUM_PORT
  <2>4. tcpip_handler(r, s, d.pkt, d.src) = process_topology_req(r, s, d.pkt, d.src)
    BY <2>2 DEF tcpip_handler, TOPOLOGY, ATTESTATION
  <2> QED
    BY <2>1, <2>2, <2>3, <2>4, McastHandlerHold, ProcessTopologyHold
<1> QED
  BY <1>1, <1>2, <1>3, <1>4

\* network_settled finds a relay that holds nothing.
LEMMA SettledHold ==
    ASSUME NEW r \in Relays, NEW s \in RelayStates, HoldOK(s), ~s.settled
    PROVE  HoldOK(network_settled(r, s))
<1> DEFINE t == network_settled(r, s)
<1>1. /\ t.p_timer = s.p_timer /\ t.periodic_timer = s.periodic_timer
      /\ t.checksum_children = s.checksum_children /\ t.paths = s.paths
      /\ t.settled /\ (~t.fault => ~s.fault)
      /\ t.child_list = s.child_list \/ get_child_count(t) <= MAX_CHILD
  BY SettledKeeps
<1> HIDE DEF t
<1>2. get_child_count(s) = 0
  BY ChildCount DEF HoldOK
<1>3. s.checksum_children = <<>>
  <2>1. s.checksum_children \in Seq(SUBSET Word)
    BY DEF RelayStates
  <2>2. Len(s.checksum_children) \in Nat
    BY <2>1
  <2> QED
    BY <1>2, <2>2 DEF HoldOK
<1>4. get_child_count(t) <= MAX_CHILD
  BY <1>1 DEF HoldOK, get_child_count
<1>5. HoldOK(t)
  BY <1>1, <1>3, <1>4 DEF HoldOK, Holds, Waits
<1> QED
  BY <1>5 DEF t

\* A client answers a topology request, or what it takes for one, to its parents.
LEMMA ClientReceiveTopology ==
    ASSUME NEW c \in Clients, NEW s, NEW d \in Datagrams, TopologyOnly({d})
    PROVE  TopologyOnly(ClientReceive(c, s, d).out)
<1>1. d.port \in {MCAST_SINK_UDP_PORT, PARENT_UDP_CHECKSUM_PORT}
  BY DEF Datagrams, TopologyOnly
<1>2. d.pkt.pkt_type = TOPOLOGY
  <2>1. CASE d.port = MCAST_SINK_UDP_PORT
    BY <2>1 DEF TopologyOnly
  <2>2. CASE d.port = PARENT_UDP_CHECKSUM_PORT
    <3>1. d.pkt \in TopologyPackets
      BY <2>2 DEF Datagrams, MCAST_SINK_UDP_PORT, PARENT_UDP_CHECKSUM_PORT, CHECKSUM_PORT
    <3> QED
      BY <3>1 DEF TopologyPackets
  <2> QED
    BY <1>1, <2>1, <2>2
<1>3. CASE ~ClientAccepts(c, s, d)
  BY <1>3 DEF ClientReceive, TopologyOnly
<1>4. CASE ClientAccepts(c, s, d)
  <2>1. ToParents(ClientReceive(c, s, d).out)
    BY <1>2, <1>4, SendToParentsPort DEF ClientReceive, client_tcpip_handler
  <2> QED
    BY <2>1, ToParentsTopology
<1> QED
  BY <1>3, <1>4

HoldNow ==
    /\ TopologyOnly(net)
    /\ \A r \in Relays : HoldOK(relay[r])

HoldInv == Requests \subseteq {TOPOLOGY} /\ HoldNow

\* The verifier asks for nothing but topologies in this step.
AsksTopology == \A type \in Requests : VerifierRequest(type) => type = TOPOLOGY

LEMMA InitHoldNow == Init => HoldNow
<1> SUFFICES ASSUME Init PROVE HoldNow
  OBVIOUS
<1>1. TopologyOnly(net)
  BY DEF Init, TopologyOnly
<1>2. ASSUME NEW r \in Relays PROVE HoldOK(relay[r])
  <2>1. RelayBoot \in RelayStates /\ ~RelayBoot.settled
    BY BootType DEF RelayBoot
  <2>2. get_child_count(RelayBoot) = 0 /\ 0 <= MAX_CHILD
    BY <2>1, ChildCount, SizesAssumption DEF RelayBoot
  <2>3. HoldOK(RelayBoot)
    BY <2>2 DEF HoldOK, Holds, RelayBoot
  <2>4. HoldOK(network_settled(r, RelayBoot))
    BY <2>1, <2>3, SettledHold
  <2>5. relay[r] = network_settled(r, RelayBoot) \/ relay[r] = RelayBoot
    BY DEF Init
  <2> QED
    BY <2>3, <2>4, <2>5
<1> QED
  BY <1>1, <1>2 DEF HoldNow

LEMMA NextHoldNow == PathInv /\ HoldNow /\ AsksTopology /\ [Next]_vars => HoldNow'
<1> SUFFICES ASSUME PathInv, HoldNow, AsksTopology, [Next]_vars PROVE HoldNow'
  OBVIOUS
<1>1. /\ relay \in [Relays -> RelayStates] /\ net \subseteq Datagrams /\ OutOK(net)
      /\ TopologyOnly(net)
  BY DEF PathInv, TypeOK, HoldNow
<1>2. \A r \in Relays : RelayOK(relay[r]) /\ relay[r] \in RelayStates /\ HoldOK(relay[r])
  BY DEF PathInv, RelayOK, HoldNow
<1>3. ASSUME NEW r \in Relays, NEW s, relay' = [relay EXCEPT ![r] = s], HoldOK(s),
             TopologyOnly(net')
      PROVE  HoldNow'
  BY <1>1, <1>2, <1>3 DEF HoldNow, TopologyOnly
<1>4. ASSUME relay' = relay, TopologyOnly(net') PROVE HoldNow'
  BY <1>1, <1>2, <1>4 DEF HoldNow, TopologyOnly
<1>5. ASSUME NEW d, NEW out, TopologyOnly(out) PROVE TopologyOnly((net \ {d}) \cup out)
  BY <1>1, <1>5 DEF TopologyOnly
<1>6. ASSUME NEW type \in Requests, VerifierRequest(type) PROVE HoldNow'
  <2>1. TopologyOnly(multicast_send(type))
    BY <1>6 DEF AsksTopology, multicast_send, Datagram, Request, TopologyOnly,
                MCAST_SINK_UDP_PORT, CHECKSUM_PORT
  <2>2. TopologyOnly(net \cup multicast_send(type))
    BY <1>1, <2>1 DEF TopologyOnly
  <2> QED
    BY <1>4, <1>6, <2>2 DEF VerifierRequest
<1>7. ASSUME NEW r \in Relays, Settle(r) PROVE HoldNow'
  <2>1. HoldOK(network_settled(r, relay[r]))
    BY <1>2, <1>7, SettledHold DEF Settle
  <2>2. relay' = [relay EXCEPT ![r] = network_settled(r, relay[r])] /\ net' = net
    BY <1>7 DEF Settle
  <2> QED
    BY <1>1, <1>3, <2>1, <2>2
<1>8. ASSUME NEW d \in net, DeliverRelay(d) PROVE HoldNow'
  <2> DEFINE rx == RelayReceive(d.dst, relay[d.dst], d)
  <2>1. d.dst \in Relays /\ d \in Datagrams /\ OutOK({d}) /\ TopologyOnly({d})
    BY <1>1, <1>8 DEF DeliverRelay, OutOK, TopologyOnly
  <2>2. HoldOK(rx.st) /\ TopologyOnly(rx.out)
    BY <1>2, <1>8, <2>1, RelayReceiveHold DEF DeliverRelay
  <2>3. relay' = [relay EXCEPT ![d.dst] = rx.st] /\ net' = (net \ {d}) \cup rx.out
    BY <1>8 DEF DeliverRelay
  <2> HIDE DEF rx
  <2> QED
    BY <1>3, <1>5, <2>1, <2>2, <2>3
<1>9. ASSUME NEW d \in net, DeliverClient(d) PROVE HoldNow'
  <2>1. d.dst \in Clients /\ d \in Datagrams /\ TopologyOnly({d})
    BY <1>1, <1>9 DEF DeliverClient, TopologyOnly
  <2>2. TopologyOnly(ClientReceive(d.dst, client[d.dst], d).out)
    BY <2>1, ClientReceiveTopology
  <2>3. /\ relay' = relay
        /\ net' = (net \ {d}) \cup ClientReceive(d.dst, client[d.dst], d).out
    BY <1>9 DEF DeliverClient
  <2> QED
    BY <1>4, <1>5, <2>2, <2>3
<1>10. ASSUME NEW d \in net, DeliverRoot(d) \/ Lose(d) PROVE HoldNow'
  <2>1. relay' = relay /\ net' = net \ {d}
    BY <1>10 DEF DeliverRoot, Lose
  <2>2. TopologyOnly(net \ {d})
    BY <1>1 DEF TopologyOnly
  <2> QED
    BY <1>4, <2>1, <2>2
<1>11. ASSUME NEW r \in Relays, PeriodicTimer(r) PROVE HoldNow'
  <2> DEFINE s == Disarmed(relay[r])
             topo == send_topology_resp(r, s)
  <2>1. ~relay[r].fault
    BY <1>11 DEF PeriodicTimer
  <2>2. /\ s \in RelayStates /\ SameResp(relay[r], s) /\ SameTable(relay[r], s)
        /\ s.periodic_timer.f = relay[r].periodic_timer.f
        /\ s.checksum_children = relay[r].checksum_children
        /\ s.paths = relay[r].paths /\ s.fault = relay[r].fault
    BY <1>2, DisarmKeeps
  <2>3. \/ /\ s.periodic_timer.f = "send_topology_resp"
           /\ relay' = [relay EXCEPT ![r] = topo.st] /\ net' = net \cup topo.out
        \/ /\ s.periodic_timer.f = "none"
           /\ relay' = [relay EXCEPT ![r] = s] /\ net' = net
    <3>1. relay[r].periodic_timer.f # "send_attestation_resp"
      BY <1>2 DEF HoldOK
    <3> QED
      BY <1>11, <2>2, <3>1 DEF PeriodicTimer, Disarmed
  <2> HIDE DEF s
  <2>4. get_child_count(s) = get_child_count(relay[r])
    BY <2>2 DEF SameResp, get_child_count
  <2>5. CASE /\ s.periodic_timer.f = "send_topology_resp"
             /\ relay' = [relay EXCEPT ![r] = topo.st] /\ net' = net \cup topo.out
    <3>1. /\ SameTimers(s, topo.st) /\ topo.st.checksum_children = <<>>
          /\ ToParents(topo.out)
      BY <2>2, SendTopologyKeeps
    <3>2. topo.st.paths = <<>>
      <4>1. RelayOK(s)
        BY <1>2, <2>2 DEF RelayOK, SameTable, SinkIsLeaf
      <4>2. Len(s.paths) \in Nat /\ PathRoom \in Nat /\ Len(s.paths) < PathRoom
        BY <4>1, SizesAssumption DEF RelayOK, RelayStates, PathRoom
      <4>3. Len(s.paths) <= PathRoom
        BY <4>2
      <4> QED
        BY <2>2, <4>3, SendTopologyType
    <3> HIDE DEF topo
    <3>3. get_child_count(topo.st) = get_child_count(s)
      BY <3>1 DEF SameTimers, SameResp, get_child_count
    <3>4. HoldOK(topo.st)
      BY <1>2, <2>2, <2>4, <3>1, <3>2, <3>3 DEF HoldOK, Holds, SameTimers, SameResp
    <3>5. TopologyOnly(net \cup topo.out)
      BY <1>1, <3>1, ToParentsTopology DEF TopologyOnly
    <3> QED
      BY <1>3, <2>5, <3>4, <3>5
  <2>6. CASE /\ s.periodic_timer.f = "none"
             /\ relay' = [relay EXCEPT ![r] = s] /\ net' = net
    <3>1. ~Holds(s)
      BY <1>2, <2>1, <2>2, <2>6 DEF HoldOK, Holds, Waits
    <3>2. HoldOK(s)
      BY <1>2, <2>2, <2>4, <2>6, <3>1 DEF HoldOK, SameResp
    <3> QED
      BY <1>1, <1>3, <2>6, <3>2
  <2> QED
    BY <2>3, <2>5, <2>6
<1>12. ASSUME NEW r \in Relays, PTimer(r) PROVE HoldNow'
  BY <1>2, <1>12 DEF PTimer, HoldOK
<1>13. CASE UNCHANGED vars
  BY <1>1, <1>4, <1>13 DEF vars
<1> QED
  BY <1>6, <1>7, <1>8, <1>9, <1>10, <1>11, <1>12, <1>13 DEF Next, Deliver

LEMMA HoldInvariant == Requests \subseteq {TOPOLOGY} /\ Spec => []HoldInv
<1> SUFFICES ASSUME Requests \subseteq {TOPOLOGY} PROVE Spec => []HoldInv
  OBVIOUS
<1>1. Init => HoldInv
  BY InitHoldNow DEF HoldInv
<1>2. PathInv /\ HoldInv /\ [Next]_vars => HoldInv'
  BY NextHoldNow DEF HoldInv, AsksTopology
<1> QED
  BY <1>1, <1>2, PathInvariant, PTL DEF Spec

\* While only topologies are requested, in every swarm and whatever is lost or
\* reordered, no relay sits on a child's response without a timer that sends it
\* (process_topology_req sets it unless it sends at once).
THEOREM NothingHeldForever == Requests \subseteq {TOPOLOGY} /\ Spec => []HeldHasTimer
<1>1. HoldInv => HeldHasTimer
  BY DEF HoldInv, HoldNow, HoldOK, Holds, Waits, HeldHasTimer
<1> QED
  BY <1>1, HoldInvariant, PTL

\* Under the same condition checksum_children is never overrun: when as many
\* responses have come as there are children, cur_loc goes back to 0.
THEOREM ChecksumsFit == Requests \subseteq {TOPOLOGY} /\ Spec => []TopologyFits
<1>1. HoldInv => TopologyFits
  BY DEF HoldInv, HoldNow, HoldOK, TopologyFits
<1> QED
  BY <1>1, HoldInvariant, PTL
=============================================================================
