------------------------------- MODULE Relay --------------------------------
(***************************************************************************)
(* The relay mote: relay-node/udp-relay.c and its child table              *)
(* (relay-node/list_utility.c), one operator per C function.  An operator  *)
(* takes the globals of relay r as a record s.  A function that may send   *)
(* returns [st |-> the new globals, out |-> the datagrams sent].           *)
(*                                                                         *)
(*   child_list, received_pkt    ids of the child table, those marked      *)
(*   checksum_children           the first cur_loc entries of the array    *)
(*   paths                       the first paths_loc entries of the array  *)
(*   periodic_timer, p_timer     ctimers; a ctimer has one slot            *)
(*   conns                       entries of uIP's UDP table in use         *)
(*   settled, sink               network_settled ran, sink_conn is open    *)
(*   fault                       undefined behaviour happened: the mote    *)
(*                               takes no further step                     *)
(*                                                                         *)
(* sec_checksum_children is written by reset_variable and never read.      *)
(***************************************************************************)
EXTENDS Node

Callbacks == {"none", "send_topology_resp", "send_attestation_resp"}

NoResp == [pkt_type |-> 0, checksum |-> {}]

\* PROCESS_THREAD up to its loop: globals zero or as initialised; the
\* broadcast, checksum and secreq connections are open.
RelayBoot ==
    [child_list |-> {}, received_pkt |-> {}, checksum_children |-> <<>>,
     max_index |-> 0, first_round_completed |-> TRUE, my_checksum |-> {},
     paths |-> <<>>, first_child |-> TRUE, max_leaf_rank |-> 0,
     periodic_timer |-> [armed |-> FALSE, f |-> "none", timeout |-> 0],
     p_timer |-> FALSE, ctimer_resp |-> NoResp,
     conns |-> 3, settled |-> FALSE, sink |-> FALSE, fault |-> FALSE]

-----------------------------------------------------------------------------
(* list_utility.c *)

is_child(s, id) == id \in s.child_list

get_child_count(s) == Cardinality(s.child_list)

is_leaf(s) == get_child_count(s) = 0

child_set_pkt_received(s, id) ==
    [s EXCEPT !.received_pkt = @ \cup ({id} \cap s.child_list)]

rest_child_list(s) == [s EXCEPT !.received_pkt = {}]

\* Mutant: the ranks are compared the wrong way round.
fill_child_entries_Parents(r, s) ==
    LET children == {p \in Nbr[r] : Rank[p] < Rank[r]}
    IN  IF Cardinality(children) <= MAX_CHILD
        THEN [s EXCEPT !.child_list = children, !.received_pkt = {}]
        ELSE [s EXCEPT !.fault = TRUE]

\* memb_alloc has MAX_CHILD blocks and its result is not checked.
fill_child_entries(r, s) ==
    LET children == {p \in Nbr[r] : Rank[p] > Rank[r]}
    IN  IF Cardinality(children) <= MAX_CHILD
        THEN [s EXCEPT !.child_list = children, !.received_pkt = {}]
        ELSE [s EXCEPT !.fault = TRUE]

-----------------------------------------------------------------------------
(* Sending what the children reported. *)

\* Mutant: cur_loc is not reset.
reset_variable_KeepsCurLoc(s) ==
    rest_child_list([s EXCEPT !.max_index = Len(s.checksum_children),
                              !.paths = <<>>, !.first_child = TRUE])

reset_variable(s) ==
    rest_child_list([s EXCEPT !.first_round_completed = TRUE,
                              !.max_index = Len(s.checksum_children),
                              !.checksum_children = <<>>,
                              !.paths = <<>>,
                              !.first_child = TRUE])

\* Mutant: the relay's own checksum is left out.
get_combined_checksum_NotMine(r, s) == XorAll(s.checksum_children)

get_combined_checksum(r, s) == Xor(XorAll(s.checksum_children), attest_memory(r))

\* Its side effect: my_checksum.
attested(r, s) == [s EXCEPT !.my_checksum = attest_memory(r)]

send_topology_resp(r, s) ==
    LET full == Len(s.paths) >= MAX_PATH_NODES - 1
        resp == TopologyResp(IF full THEN s.paths ELSE Append(s.paths, r),
                             IF full THEN UNINIT ELSE Len(s.paths) + 1,
                             s.max_leaf_rank,
                             get_combined_checksum(r, s))
    IN  [st  |-> reset_variable(get_parent_conn(attested(r, s))),
         out |-> send_to_parents(r, s, resp, FALSE)]

\* Mutant: the timer is set but the response is not copied to ctimer_resp.
send_attestation_resp_NoCopy(r, s) ==
    reset_variable([attested(r, s) EXCEPT !.p_timer = TRUE])

\* A combined checksum of 0 is not sent, and nothing is reset.
send_attestation_resp(r, s) ==
    LET combined == get_combined_checksum(r, s)
        s1 == attested(r, s)
    IN  IF combined = {} THEN s1
        ELSE reset_variable([s1 EXCEPT !.ctimer_resp = AttResp(combined),
                                       !.p_timer = TRUE])

-----------------------------------------------------------------------------
(* Timeouts: factors (uint8_t; C division truncates towards zero) of the    *)
(* intervals, in ticks, that ctimer_set is given.                          *)

CDiv(a, b) == IF a >= 0 THEN a \div b ELSE -((-a) \div b)

\* Mutant: the ranks are subtracted the wrong way round.
get_attestation_timeout_Swapped(r, s) ==
    CDiv((Rank[r] \div RPL_MIN_HOPRANKINC)
           - (s.max_leaf_rank \div RPL_MIN_HOPRANKINC), 3) % 256

get_attestation_timeout(r, s) ==
    CDiv((s.max_leaf_rank \div RPL_MIN_HOPRANKINC)
           - (Rank[r] \div RPL_MIN_HOPRANKINC), 3) % 256

get_topology_timeout(r) ==
    (NUM_NODES - CDiv((Rank[r] \div RPL_MIN_HOPRANKINC) - 1, 3)) % 256

ctimer_set(s, timeout, f) ==
    [s EXCEPT !.periodic_timer = [armed |-> TRUE, f |-> f, timeout |-> timeout]]

\* The ticks that one hop is worth in process_attestation_req.  CLOCK_SECOND/1000
\* is an integer division: 0 where a second has fewer than 1000 ticks.
FrameTicks == 10 * FRAME_LENGTH * (CLOCK_SECOND \div 1000)

\* ctimer_reset re-arms the timer with the callback it had last.
ctimer_reset(s) == [s EXCEPT !.periodic_timer.armed = TRUE]

-----------------------------------------------------------------------------
(* Receiving from a child. *)

\* checksum_children[cur_loc] = c; cur_loc is not checked: past the end the
\* store overwrites cur_loc itself.
store_checksum(s, c) ==
    IF Len(s.checksum_children) < MAX_CHILD
    THEN [s EXCEPT !.checksum_children = Append(@, c)]
    ELSE [s EXCEPT !.fault = TRUE]

process_attestation_req(r, s, resp, child_id) ==
    LET s1 == store_checksum(s, resp.checksum)
    IN  IF is_child(s, child_id) /\ s.first_child
        THEN [ctimer_set(s1, get_attestation_timeout(r, s) * FrameTicks, "send_attestation_resp")
                 EXCEPT !.first_child = FALSE]
        ELSE s1

\* Mutant: no id is ever found in paths.
is_present_paths_Never(s, id) == FALSE

is_present_paths(s, id) == \E k \in 1..Len(s.paths) : s.paths[k] = id

(* The copy loop of process_topology_req.  Ids already in paths when the   *)
(* packet came are skipped; the others go to consecutive slots.  When slot *)
(* PathRoom is written the path is flushed: sent, and reset once more by   *)
(* the loop.  After a flush paths_loc is 0 and the remaining ids are       *)
(* copied unfiltered; a packet has at most PathRoom + 1 ids, so a second   *)
(* flush can only come with its last id.                                   *)
\* Mutant: the flush comes one slot late.
PathRoom_OneMore == MAX_PATH_NODES - 1

PathRoom == MAX_PATH_NODES - 2

\* Slots in use once ids 1..j of path p have been looked at.
SlotsAfter(s, p, j) ==
    Len(s.paths) + Cardinality({m \in 1..j : ~is_present_paths(s, p[m])})

\* paths up to slot n with the new ids of p copied in.
Copied(s, p, n) ==
    LET Goes(j, k) == ~is_present_paths(s, p[j]) /\ SlotsAfter(s, p, j) = k
    IN  [k \in 1..n |->
           IF k <= Len(s.paths) THEN s.paths[k]
           ELSE IF \E j \in 1..Len(p) : Goes(j, k)
                THEN p[CHOOSE j \in 1..Len(p) : Goes(j, k)]
                ELSE 0]

flush(r, s) ==
    LET sent == send_topology_resp(r, s)
    IN  [st |-> reset_variable(sent.st), out |-> sent.out]

\* Mutant: the loop is left after a flush, dropping the rest of the packet.
copy_paths_DropsRest(r, s, p) ==
    IF SlotsAfter(s, p, Len(p)) < PathRoom
    THEN [st |-> [s EXCEPT !.paths = Copied(s, p, SlotsAfter(s, p, Len(p)))], out |-> {}]
    ELSE flush(r, [s EXCEPT !.paths = Copied(s, p, PathRoom)])

copy_paths(r, s, p) ==
    LET used == SlotsAfter(s, p, Len(p))
        at   == 1 + Cardinality({j \in 1..Len(p) : SlotsAfter(s, p, j) < PathRoom})
        rest == SubSeq(p, at + 1, Len(p))
        fl1  == flush(r, [s EXCEPT !.paths = Copied(s, p, PathRoom)])
        fl2  == flush(r, [fl1.st EXCEPT !.paths = rest])
    IN  CASE used < PathRoom ->
               [st |-> [s EXCEPT !.paths = Copied(s, p, used)], out |-> {}]
          [] used >= PathRoom /\ Len(rest) < PathRoom ->
               [st |-> [fl1.st EXCEPT !.paths = rest], out |-> fl1.out]
          [] used >= PathRoom /\ Len(rest) >= PathRoom ->
               [st |-> fl2.st, out |-> fl1.out \cup fl2.out]

(* The same loop id by id, to which SwarmPaths proves copy_paths equal:    *)
(* buf is what paths holds up to i, while paths_loc, which is_present_paths *)
(* reads, stands still until a flush.                                      *)
Turn(r, acc, id) ==
    LET buf == Append(acc.buf, id)
        fl  == flush(r, [acc.st EXCEPT !.paths = buf])
    IN  IF is_present_paths(acc.st, id) THEN acc
        ELSE IF Len(buf) < PathRoom THEN [acc EXCEPT !.buf = buf]
        ELSE [st |-> fl.st, buf |-> <<>>, out |-> acc.out \cup fl.out]

Turns(r, s, p) ==
    LET acc[j \in 0..Len(p)] ==
            IF j = 0 THEN [st |-> s, buf |-> s.paths, out |-> {}]
                     ELSE Turn(r, acc[j - 1], p[j])
    IN  acc

copy_loop(r, s, p) ==
    LET end == Turns(r, s, p)[Len(p)]
    IN  [st |-> [end.st EXCEPT !.paths = end.buf], out |-> end.out]

\* Mutant: the response of the first children waits without a timeout.
process_topology_req_NoTimeout(r, s, resp, child_id) ==
    LET s1 == child_set_pkt_received(s, child_id)
        cp == copy_paths(r, store_checksum(s1, resp.checksum), resp.path)
        fw == send_topology_resp(r, cp.st)
    IN  IF is_child(s, child_id) /\ Len(cp.st.checksum_children) = get_child_count(s)
        THEN [st |-> fw.st, out |-> cp.out \cup fw.out]
        ELSE cp

process_topology_req(r, s, resp, child_id) ==
    LET s1 == child_set_pkt_received(ctimer_reset(s), child_id)
        s2 == store_checksum(s1, resp.checksum)
        cp == copy_paths(r, s2, resp.path)
        s3 == [cp.st EXCEPT !.max_leaf_rank =
                  IF @ < resp.max_leaf_rank THEN resp.max_leaf_rank ELSE @]
        fw == send_topology_resp(r, s3)
    IN  CASE ~is_child(s, child_id) -> [st |-> s, out |-> {}]
          [] is_child(s, child_id) /\ s2.fault -> [st |-> s2, out |-> {}]
          [] OTHER ->
               IF Len(s3.checksum_children) = get_child_count(s3)
               THEN [st |-> fw.st, out |-> cp.out \cup fw.out]
               ELSE [st |-> ctimer_set(s3, get_topology_timeout(r) * CLOCK_SECOND, "send_topology_resp"),
                     out |-> cp.out]

-----------------------------------------------------------------------------
(* Event handlers. *)

\* Datagram on the checksum connection of a relay with children.
tcpip_handler(r, s, pkt, src) ==
    CASE pkt.pkt_type = TOPOLOGY -> process_topology_req(r, s, pkt, src)
      [] pkt.pkt_type = ATTESTATION ->
           [st |-> process_attestation_req(r, s, pkt, src), out |-> {}]
      [] OTHER -> [st |-> s, out |-> {}]

\* Any datagram, on any connection, of a relay without children: its first
\* byte is taken for the type of a request.
mcast_tcpip_handler(r, s, pkt) ==
    LET resp == create_response(r, pkt)
    IN  IF pkt.pkt_type = TOPOLOGY
        THEN [st |-> get_parent_conn(s), out |-> send_to_parents(r, s, resp, TRUE)]
        ELSE [st |-> [s EXCEPT !.ctimer_resp = resp], out |-> broadcast_to_parents(r, resp)]

\* Link-local broadcast, CHECKSUM_PORT.
checksum_receiver(r, s, pkt, src) == tcpip_handler(r, s, pkt, src)

\* The loop of udp_relay_process, and the simple_udp callback.
RelayReceive(r, s, d) ==
    CASE d.port = CHECKSUM_PORT -> checksum_receiver(r, s, d.pkt, d.src)
      [] d.port = MCAST_SINK_UDP_PORT /\ ~s.sink -> [st |-> s, out |-> {}]
      [] OTHER -> IF is_leaf(s) THEN mcast_tcpip_handler(r, s, d.pkt)
                                ELSE tcpip_handler(r, s, d.pkt, d.src)

\* rpl_timer: the child table is filled; a leaf joins the multicast group and
\* opens sink_conn, or returns early.
network_settled(r, s) ==
    LET s1 == [fill_child_entries(r, s) EXCEPT !.settled = TRUE]
    IN  IF is_leaf(s1) /\ ~s1.fault /\ join_mcast_group(r)
        THEN [udp_new_bind(s1) EXCEPT !.sink = ConnFree(s1)]
        ELSE s1
=============================================================================
