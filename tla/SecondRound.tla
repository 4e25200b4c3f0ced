---------------------------- MODULE SecondRound -----------------------------
(***************************************************************************)
(* The second round: verifier/sec_server.c asks the motes of each line of  *)
(* temp.txt one by one (udp_secreq_callback of relays and clients answers) *)
(* and tells the border router when lines start and stop, which measures   *)
(* the time in between (tcpip_handler of border-router.c).                 *)
(*                                                                         *)
(* The text of the two files is abstracted to MapFile and Lines; the       *)
(* payload of an answer, which the verifier only prints, is left out.      *)
(***************************************************************************)
EXTENDS Integers, Sequences, FiniteSets

CONSTANTS
    MapFile,     \* node_id_addr.txt: a sequence of [id, addr]
    Lines,       \* id lines of temp.txt: a sequence of [run_no, ids]
    MaxDup,      \* bound: datagrams the network duplicates
    MayLose,     \* may the network lose datagrams?
    CLOCK_WRAP,  \* clock_time() counts modulo this
    MaxTime      \* bound: clock ticks

ASSUME MapAssumption ==
    /\ MapFile \in Seq([id : 1..255, addr : [prefix : Nat, rest : Nat]])
    /\ Len(MapFile) <= 5                             \* MAX_NODES

ASSUME LinesAssumption ==
    /\ Lines \in Seq([run_no : Nat, ids : Seq(0..255)])
    /\ \A l \in 1..Len(Lines) : Len(Lines[l].ids) \in 1..150   \* size of node_addr

ASSUME NetworkAssumption ==
    /\ MaxDup \in Nat /\ MayLose \in BOOLEAN
    /\ MaxTime \in Nat /\ CLOCK_WRAP \in Nat \ {0}

VARIABLES
    verifier,   \* the globals of sec_server.c and where main() is
    heard,      \* motes that have answered since the current line was read
    log,        \* everything sent to the border router, a FIFO
    router,     \* border router: position in log, and its clock variables
    net,        \* requests and answers in flight
    dups,       \* datagrams duplicated so far
    lost,       \* has a datagram been lost?
    now         \* true time

vars == <<verifier, heard, log, router, net, dups, lost, now>>

-----------------------------------------------------------------------------
(* Addresses.  Only the first 10 characters of an address, its prefix, are *)
(* compared.                                                               *)

NoAddr == [prefix |-> 0, rest |-> 0]

Motes == {MapFile[i].addr : i \in 1..Len(MapFile)} \cup {NoAddr}

\* Mutant: the last entry of the map is never looked at.
get_id_from_addr_Short(a) ==
    LET found == {i \in 1..(Len(MapFile) - 1) : MapFile[i].addr.prefix = a.prefix}
    IN  IF found = {} THEN 0 ELSE MapFile[CHOOSE i \in found : \A j \in found : i <= j].id

\* The first match, or 0.
get_id_from_addr(a) ==
    LET found == {i \in 1..Len(MapFile) : MapFile[i].addr.prefix = a.prefix}
    IN  IF found = {} THEN 0 ELSE MapFile[CHOOSE i \in found : \A j \in found : i <= j].id

\* The last match; without one the address is not written.
get_addr_from_id(id) ==
    LET found == {i \in 1..Len(MapFile) : MapFile[i].id = id}
    IN  IF found = {} THEN NoAddr
        ELSE MapFile[CHOOSE i \in found : \A j \in found : j <= i].addr

-----------------------------------------------------------------------------
(* Sending.  s is the record verifier; what the functions send to motes    *)
(* and to the border router is collected in the fields out and log.        *)

\* second_udp_send to a mote.  sent and copy tell datagrams apart.
ReqTo(addr, sent) == [kind |-> "request", addr |-> addr, sent |-> sent, copy |-> 0]

Command(type, run) == [type |-> type, run_count |-> run]

\* Mutant: all motes of the line are asked at once, as by the loop that is
\* commented out in send_unicast_second_round_req.
send_req_single_node_All(s) ==
    LET left == (s.node_index + 1)..Len(s.node_addr)
    IN  [st  |-> [s EXCEPT !.node_index = Len(s.node_addr), !.sent = @ + Cardinality(left)],
         out |-> {ReqTo(get_addr_from_id(s.node_addr[i]), s.sent + i) : i \in left}]

\* Past the end of the line node_addr is 0, and nothing is sent.
send_req_single_node(s) ==
    LET id == IF s.node_index < Len(s.node_addr) THEN s.node_addr[s.node_index + 1] ELSE 0
    IN  IF id = 0
        THEN [st |-> [s EXCEPT !.sent_id = 0], out |-> {}]
        ELSE [st  |-> [s EXCEPT !.sent_id = id, !.node_index = @ + 1, !.sent = @ + 1],
              out |-> {ReqTo(get_addr_from_id(id), s.sent)}]

send_unicast_second_round_req(s, ids) ==
    LET tx == send_req_single_node([s EXCEPT !.start_sent = TRUE, !.node_addr = ids,
                                             !.node_index = 0])
    IN  [st |-> tx.st, out |-> tx.out,
         log |-> IF s.start_sent THEN <<>> ELSE <<Command("START", s.run_no)>>]

\* The next line of ids is read and its first mote is asked.
read_line_send_req(s) ==
    LET l == Lines[s.line + 1]
    IN  send_unicast_second_round_req(
            [s EXCEPT !.line = @ + 1, !.run_no = l.run_no,
                      !.sec_client_count = Len(l.ids)], l.ids)

-----------------------------------------------------------------------------
Init ==
    /\ \E file \in BOOLEAN :         \* could temp.txt be opened?
          verifier = [pc |-> "start", file |-> file, line |-> 0, run_no |-> 0,
                      sec_client_count |-> 0, node_addr |-> <<>>, node_index |-> 0,
                      sent_id |-> 0, recv_count |-> 0, start_sent |-> FALSE, sent |-> 0]
    /\ heard = {} /\ log = <<>> /\ net = {} /\ dups = 0 /\ lost = FALSE /\ now = 0
    /\ router = [next |-> 1, cnt |-> 1, ct |-> 0, ct2 |-> 0, time_diff |-> 0, total |-> 0]

\* main() up to its loop: without the file, a request to node 6.
Start ==
    /\ verifier.pc = "start"
    /\ LET s == [verifier EXCEPT !.pc = "loop"]
           tx == IF s.file THEN read_line_send_req(s)
                           ELSE send_unicast_second_round_req(s, <<6>>)
       IN  IF s.file /\ Len(Lines) = 0
           THEN verifier' = [s EXCEPT !.pc = "exit"] /\ UNCHANGED <<log, net>>
           ELSE verifier' = tx.st /\ log' = log \o tx.log /\ net' = net \cup tx.out
    /\ UNCHANGED <<heard, router, dups, lost, now>>

\* Mutant: recv_count is not reset for the next line.
line_done_NoReset(s) == s

\* recv_count = 0, once the line's answers have been counted.
line_done(s) == [s EXCEPT !.recv_count = 0]

\* One round of the loop of main().
RecvReply(m) ==
    /\ verifier.pc = "loop" /\ m.kind = "reply"
    /\ LET s == [verifier EXCEPT !.recv_count = @ + 1]
           stopped == Append(log, Command("STOP", s.run_no))
           line == read_line_send_req(line_done(s))
           more == send_req_single_node(s)
       IN  \/ /\ s.sec_client_count = s.recv_count /\ s.line < Len(Lines)
              /\ verifier' = line.st /\ log' = stopped \o line.log
              /\ net' = (net \ {m}) \cup line.out /\ heard' = {}
           \/ /\ s.sec_client_count = s.recv_count /\ s.line = Len(Lines)
              /\ verifier' = [line_done(s) EXCEPT !.pc = "exit", !.line = @ + 1]
              /\ log' = Append(stopped, Command("DONE", s.run_no))
              /\ net' = net \ {m} /\ heard' = {}
           \/ /\ s.sec_client_count # s.recv_count
              /\ heard' = heard \cup {m.addr} /\ UNCHANGED log
              /\ IF s.sent_id = get_id_from_addr(m.addr)
                 THEN verifier' = more.st /\ net' = (net \ {m}) \cup more.out
                 ELSE verifier' = s /\ net' = net \ {m}
    /\ UNCHANGED <<router, dups, lost, now>>

\* What the buffer held was no address, so that second_udp_send sends to `::',
\* which is the verifier's own socket: the request may come back as an answer.
LoopBack(m) ==
    /\ m.kind = "request" /\ m.addr = NoAddr
    /\ net' = (net \ {m}) \cup {[m EXCEPT !.kind = "reply"]}
    /\ UNCHANGED <<verifier, heard, log, router, dups, lost, now>>

\* udp_secreq_callback of a relay or a client: it always answers
\* (first_round_completed is set from boot on and never cleared).
udp_secreq_callback(m) ==
    /\ m.kind = "request" /\ m.addr # NoAddr
    /\ net' = (net \ {m}) \cup {[m EXCEPT !.kind = "reply"]}
    /\ UNCHANGED <<verifier, heard, log, router, dups, lost, now>>

\* The network.
Duplicate(m) ==
    /\ dups < MaxDup
    /\ dups' = dups + 1
    /\ net' = net \cup {[m EXCEPT !.copy = dups + 1]}
    /\ UNCHANGED <<verifier, heard, log, router, lost, now>>

Lose(m) ==
    /\ MayLose
    /\ net' = net \ {m} /\ lost' = TRUE
    /\ UNCHANGED <<verifier, heard, log, router, dups, now>>

-----------------------------------------------------------------------------
(* border-router.c *)

clock_time == now % CLOCK_WRAP

\* Unsigned, as clock_time_t is.
Elapsed(a, b) == (a - b) % CLOCK_WRAP

\* Mutant: ct is not moved to the end of the line just measured.
router_tcpip_handler_KeepsCt(s, type) ==
    LET diff == Elapsed(clock_time, s.ct)
    IN  IF type = "START" THEN [s EXCEPT !.ct = clock_time, !.ct2 = clock_time, !.total = 0]
        ELSE IF type = "STOP" THEN [s EXCEPT !.time_diff = diff, !.total = @ + diff] ELSE s

\* total is the sum of the differences reported since START.
router_tcpip_handler(s, type) ==
    LET diff == Elapsed(clock_time, s.ct)
        r == [s EXCEPT !.cnt = 0]
    IN  CASE type = "START" -> [r EXCEPT !.ct = clock_time, !.ct2 = clock_time, !.total = 0]
          [] type = "STOP"  -> [r EXCEPT !.time_diff = diff, !.ct = clock_time,
                                         !.total = @ + diff]
          [] type = "DONE"  -> r

RouterReceive ==
    /\ router.next <= Len(log)
    /\ router' = [router_tcpip_handler(router, log[router.next].type) EXCEPT !.next = @ + 1]
    /\ UNCHANGED <<verifier, heard, log, net, dups, lost, now>>

RouterLose ==
    /\ MayLose /\ router.next <= Len(log)
    /\ router' = [router EXCEPT !.next = @ + 1] /\ lost' = TRUE
    /\ UNCHANGED <<verifier, heard, log, net, dups, now>>

Tick ==
    /\ now < MaxTime
    /\ now' = now + 1
    /\ UNCHANGED <<verifier, heard, log, router, net, dups, lost>>

-----------------------------------------------------------------------------
Next ==
    \/ Start
    \/ \E m \in net : \/ RecvReply(m) \/ udp_secreq_callback(m) \/ LoopBack(m)
                      \/ Duplicate(m) \/ Lose(m)
    \/ RouterReceive \/ RouterLose \/ Tick

Spec == Init /\ [][Next]_vars

\* The verifier runs, motes answer, and the network delivers what it does not
\* lose.
FairSpec ==
    /\ Spec
    /\ WF_vars(Start)
    /\ WF_vars(\E m \in net : RecvReply(m) \/ udp_secreq_callback(m))
    /\ WF_vars(RouterReceive)

-----------------------------------------------------------------------------
Datagrams == [kind : {"request", "reply"}, addr : Motes, sent : Nat, copy : Nat]

\* Counters and clocks keep their C types; and while a line is polled, recv_count
\* stays below sec_client_count, also when duplicates make it run ahead: main()
\* tests for equality only, and would never get past the line.
TypeOK ==
    /\ verifier \in [pc : {"start", "loop", "exit"}, file : BOOLEAN, line : Nat,
                     run_no : Nat, sec_client_count : Nat, node_addr : Seq(0..255),
                     node_index : Nat, sent_id : 0..255, recv_count : Nat,
                     start_sent : BOOLEAN, sent : Nat]
    /\ verifier.pc = "loop" /\ verifier.file =>
          verifier.recv_count < verifier.sec_client_count
    /\ heard \subseteq Motes
    /\ log \in Seq([type : {"START", "STOP", "DONE"}, run_count : Nat])
    /\ router \in [next : Nat, cnt : Nat, ct : 0..(CLOCK_WRAP - 1), ct2 : 0..(CLOCK_WRAP - 1),
                   time_diff : 0..(CLOCK_WRAP - 1), total : Nat]
    /\ net \subseteq Datagrams
    /\ dups \in 0..MaxDup /\ lost \in BOOLEAN /\ now \in 0..MaxTime

\* The motes are asked one at a time (send_req_single_node): until something
\* is duplicated, a request is only sent when no other request or answer is in
\* flight.
OneOutstanding == dups = 0 => \A m1, m2 \in net : m1 = m2

\* The motes line l names.
MotesOf == [l \in 1..Len(Lines) |->
               {get_addr_from_id(Lines[l].ids[i]) : i \in 1..Len(Lines[l].ids)}]

Abs == INSTANCE SecondRoundAbs WITH
    NumLines <- Len(Lines), RunNo <- [l \in 1..Len(Lines) |-> Lines[l].run_no],
    line <- verifier.line, answered <- heard, dup <- (dups > 0)

\* The second round keeps its promise: STOP for a line is only sent, and the
\* next line only begun, in the order of the file and, until something is
\* duplicated, when every mote of the line has answered.  Datagrams may be lost.
RoundsInOrder == Abs!Spec

\* The times reported for the lines add up to the time since START, although
\* the clock wraps and commands get lost.
RoundTimesAddUp ==
    router.total % CLOCK_WRAP = (router.ct - router.ct2) % CLOCK_WRAP

\* Unless something is lost, the verifier gets through a file of motes that are in
\* its map, and the router hears all of it, although recvfrom has no timeout and
\* duplicates make recv_count run ahead of the answers.
SessionEnds ==
    (\A l \in 1..Len(Lines) : NoAddr \notin MotesOf[l]) =>
        (verifier.file ~> (lost \/ (verifier.pc = "exit" /\ router.next > Len(log))))

-----------------------------------------------------------------------------
\* sec_server.c:305, where STOP is sent: "Received resp from all nodes".
AllRespondedAtStop ==
    [][verifier.line \in 1..Len(Lines) /\ verifier'.line # verifier.line =>
          \E m \in net : MotesOf[verifier.line] \subseteq heard \cup {m.addr}]_vars
=============================================================================
