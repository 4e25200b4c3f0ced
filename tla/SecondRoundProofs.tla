------------------------- MODULE SecondRoundProofs --------------------------
(***************************************************************************)
(* What TLAPS proves of SecondRound.tla, for every map and every file of   *)
(* lines, over a network that may lose and duplicate: the verifier keeps   *)
(* one datagram in flight until one is duplicated, and implements          *)
(* SecondRoundAbs; the times the border router reports add up.             *)
(***************************************************************************)
EXTENDS SecondRound, TLAPS

Polling(l) == verifier.pc = "loop" /\ verifier.line = l

\* While line l is polled: its first recv_count motes have answered, and what
\* is in flight, if anything, is the request to the next one or its answer.
LineInv(l) ==
    LET ids == Lines[l].ids
    IN  /\ verifier.node_addr = ids /\ verifier.sec_client_count = Len(ids)
        /\ verifier.run_no = Lines[l].run_no
        /\ verifier.recv_count <= verifier.node_index
        /\ verifier.node_index <= Len(ids)
        /\ \A i \in 1..verifier.recv_count : get_addr_from_id(ids[i]) \in heard
        /\ \A m \in net : /\ verifier.recv_count = verifier.node_index - 1
                          /\ m.addr = get_addr_from_id(ids[verifier.node_index])

Id == 0..255

VerifierTypes ==
    [pc : {"start", "loop", "exit"}, file : BOOLEAN, line : Nat,
     run_no : Nat, sec_client_count : Nat, node_addr : Seq(Id),
     node_index : Nat, sent_id : Id, recv_count : Nat,
     start_sent : BOOLEAN, sent : Nat]

Commands == [type : {"START", "STOP", "DONE"}, run_count : Nat]

Single == \A m1, m2 \in net : m1 = m2

\* What holds until something is duplicated.
RoundInv ==
    /\ verifier \in VerifierTypes
    /\ log \in Seq(Commands)
    /\ net \subseteq Datagrams
    /\ Single
    /\ dups = 0
    /\ verifier.pc = "start" =>
          /\ net = {} /\ log = <<>> /\ heard = {} /\ verifier.line = 0
          /\ verifier.recv_count = 0 /\ ~verifier.start_sent /\ verifier.run_no = 0
          /\ verifier.sec_client_count = 0
    /\ verifier.pc = "loop" => verifier.start_sent /\ verifier.line \in 0..Len(Lines)
    /\ Polling(0) => verifier.sec_client_count = 0
    /\ \A l \in 1..Len(Lines) : Polling(l) => LineInv(l)

\* What is left once something has been: the line polled is one of the file,
\* and its run number is the one in force.
OrderInv ==
    /\ verifier \in VerifierTypes
    /\ log \in Seq(Commands)
    /\ net \subseteq Datagrams
    /\ dups \in Nat
    /\ verifier.pc # "start"
    /\ verifier.pc = "loop" => verifier.start_sent /\ verifier.line \in 0..Len(Lines)
    /\ Polling(0) => verifier.sec_client_count = 0
    /\ \A l \in 1..Len(Lines) : Polling(l) => verifier.run_no = Lines[l].run_no

SessionInv == IF dups = 0 THEN RoundInv ELSE OrderInv

-----------------------------------------------------------------------------
\* The address of an id is one of the map, or none.
LEMMA AddrType == \A id : get_addr_from_id(id) \in Motes
<1> SUFFICES ASSUME NEW id PROVE get_addr_from_id(id) \in Motes
  OBVIOUS
<1> DEFINE found == {i \in 1..Len(MapFile) : MapFile[i].id = id}
           last == CHOOSE i \in found : \A j \in found : j <= i
<1>1. CASE found = {}
  BY <1>1 DEF get_addr_from_id, Motes
<1>2. CASE found # {}
  <2>1. \E i \in found : \A j \in found : j <= i
    <3>1. \A i \in found : i = 1 \/ i = 2 \/ i = 3 \/ i = 4 \/ i = 5
      BY MapAssumption
    <3> HIDE DEF found
    <3> DEFINE n == IF 5 \in found THEN 5 ELSE IF 4 \in found THEN 4 ELSE
                    IF 3 \in found THEN 3 ELSE IF 2 \in found THEN 2 ELSE 1
    <3>2. n \in found
      BY <1>2, <3>1
    <3>3. \A j \in found : j <= n
      BY <3>1
    <3> QED
      BY <3>2, <3>3
  <2>2. last \in found
    BY <2>1
  <2> HIDE DEF last
  <2>3. get_addr_from_id(id) = MapFile[last].addr
    BY <1>2 DEF get_addr_from_id, last
  <2> QED
    BY <2>2, <2>3 DEF Motes
<1> QED
  BY <1>1, <1>2

\* Asking the next mote moves node_index by one and sends one request, or
\* (past the end, or for id 0) moves nothing and sends nothing.
LEMMA SendOne ==
    ASSUME NEW s \in VerifierTypes
    PROVE  LET tx == send_req_single_node(s)
           IN  /\ tx.st \in VerifierTypes
               /\ tx.st.pc = s.pc /\ tx.st.line = s.line /\ tx.st.run_no = s.run_no
               /\ tx.st.sec_client_count = s.sec_client_count
               /\ tx.st.node_addr = s.node_addr /\ tx.st.recv_count = s.recv_count
               /\ tx.st.start_sent = s.start_sent
               /\ \/ tx.out = {} /\ tx.st.node_index = s.node_index
                  \/ /\ s.node_index < Len(s.node_addr)
                     /\ tx.st.node_index = s.node_index + 1
                     /\ tx.out = {ReqTo(get_addr_from_id(s.node_addr[s.node_index + 1]),
                                        s.sent)}
<1> DEFINE id == IF s.node_index < Len(s.node_addr) THEN s.node_addr[s.node_index + 1] ELSE 0
           none == [s EXCEPT !.sent_id = 0]
           one == [s EXCEPT !.sent_id = id, !.node_index = @ + 1, !.sent = @ + 1]
<1>1. id \in Id
  <2>1. 0 \in Id
    BY DEF Id
  <2>2. s.node_addr \in Seq(Id) /\ s.node_index \in Nat /\ Len(s.node_addr) \in Nat
    BY DEF VerifierTypes
  <2>3. ASSUME s.node_index < Len(s.node_addr) PROVE s.node_addr[s.node_index + 1] \in Id
    <3>1. s.node_index + 1 \in 1..Len(s.node_addr)
      BY <2>2, <2>3
    <3> QED
      BY <2>2, <3>1
  <2> QED
    BY <2>1, <2>3
<1> HIDE DEF id
<1>2. none \in VerifierTypes /\ one \in VerifierTypes
  <2>1. 0 \in Id
    BY DEF Id
  <2>2. none \in VerifierTypes
    BY <2>1 DEF VerifierTypes
  <2>3. s.node_index + 1 \in Nat /\ s.sent + 1 \in Nat
    BY DEF VerifierTypes
  <2>4. one \in VerifierTypes
    BY <1>1, <2>3 DEF VerifierTypes
  <2> QED
    BY <2>2, <2>4
<1>3. CASE id = 0
  <2>1. send_req_single_node(s) = [st |-> none, out |-> {}]
    BY <1>3 DEF send_req_single_node, id
  <2>2. /\ none.pc = s.pc /\ none.line = s.line /\ none.run_no = s.run_no
        /\ none.sec_client_count = s.sec_client_count
        /\ none.node_addr = s.node_addr /\ none.recv_count = s.recv_count
        /\ none.start_sent = s.start_sent /\ none.node_index = s.node_index
    BY DEF VerifierTypes
  <2> HIDE DEF none
  <2>3. send_req_single_node(s).st = none /\ send_req_single_node(s).out = {}
    BY <2>1
  <2> QED
    BY <2>2, <2>3, <1>2
<1>4. CASE id # 0
  <2>1. s.node_index < Len(s.node_addr) /\ id = s.node_addr[s.node_index + 1]
    BY <1>4 DEF id
  <2>2. send_req_single_node(s) = [st |-> one, out |-> {ReqTo(get_addr_from_id(id), s.sent)}]
    BY <1>4 DEF send_req_single_node, id
  <2>3. /\ one.pc = s.pc /\ one.line = s.line /\ one.run_no = s.run_no
        /\ one.sec_client_count = s.sec_client_count
        /\ one.node_addr = s.node_addr /\ one.recv_count = s.recv_count
        /\ one.start_sent = s.start_sent /\ one.node_index = s.node_index + 1
    BY DEF VerifierTypes
  <2> HIDE DEF one
  <2>4. /\ send_req_single_node(s).st = one
        /\ send_req_single_node(s).out = {ReqTo(get_addr_from_id(id), s.sent)}
    BY <2>2
  <2> QED
    BY <2>1, <2>3, <2>4, <1>2
<1> QED
  BY <1>3, <1>4

\* The same for the first mote of a line; START is only sent once.
LEMMA SendFirst ==
    ASSUME NEW s \in VerifierTypes, NEW ids \in Seq(Id)
    PROVE  LET tx == send_unicast_second_round_req(s, ids)
           IN  /\ tx.st \in VerifierTypes
               /\ tx.st.pc = s.pc /\ tx.st.line = s.line /\ tx.st.run_no = s.run_no
               /\ tx.st.sec_client_count = s.sec_client_count
               /\ tx.st.node_addr = ids /\ tx.st.recv_count = s.recv_count
               /\ tx.st.start_sent
               /\ \/ tx.out = {} /\ tx.st.node_index = 0
                  \/ /\ 0 < Len(ids) /\ tx.st.node_index = 1
                     /\ tx.out = {ReqTo(get_addr_from_id(ids[1]), s.sent)}
               /\ tx.log = IF s.start_sent THEN <<>> ELSE <<Command("START", s.run_no)>>
<1> DEFINE s1 == [s EXCEPT !.start_sent = TRUE, !.node_addr = ids, !.node_index = 0]
           tx1 == send_req_single_node(s1)
           tx == send_unicast_second_round_req(s, ids)
<1>1. /\ s1 \in VerifierTypes /\ s1.pc = s.pc /\ s1.line = s.line /\ s1.run_no = s.run_no
      /\ s1.sec_client_count = s.sec_client_count /\ s1.node_addr = ids
      /\ s1.recv_count = s.recv_count /\ s1.start_sent /\ s1.node_index = 0
      /\ s1.sent = s.sent
  BY DEF VerifierTypes
<1>2. tx.st = tx1.st /\ tx.out = tx1.out
  BY DEF send_unicast_second_round_req
<1>3. tx.log = IF s.start_sent THEN <<>> ELSE <<Command("START", s.run_no)>>
  BY DEF send_unicast_second_round_req
<1> HIDE DEF s1
<1>4. /\ tx1.st \in VerifierTypes
      /\ tx1.st.pc = s1.pc /\ tx1.st.line = s1.line /\ tx1.st.run_no = s1.run_no
      /\ tx1.st.sec_client_count = s1.sec_client_count
      /\ tx1.st.node_addr = s1.node_addr /\ tx1.st.recv_count = s1.recv_count
      /\ tx1.st.start_sent = s1.start_sent
      /\ \/ tx1.out = {} /\ tx1.st.node_index = s1.node_index
         \/ /\ s1.node_index < Len(s1.node_addr)
            /\ tx1.st.node_index = s1.node_index + 1
            /\ tx1.out = {ReqTo(get_addr_from_id(s1.node_addr[s1.node_index + 1]), s1.sent)}
  BY <1>1, SendOne
<1> HIDE DEF tx, tx1
<1>5. tx.st.start_sent
  BY <1>1, <1>2, <1>4
<1>6. \/ tx.out = {} /\ tx.st.node_index = 0
      \/ /\ 0 < Len(ids) /\ tx.st.node_index = 1
         /\ tx.out = {ReqTo(get_addr_from_id(ids[1]), s.sent)}
  <2>1. 0 + 1 = 1
    OBVIOUS
  <2> QED
    BY <1>1, <1>2, <1>4, <2>1
<1>7. /\ tx.st \in VerifierTypes
      /\ tx.st.pc = s.pc /\ tx.st.line = s.line /\ tx.st.run_no = s.run_no
      /\ tx.st.sec_client_count = s.sec_client_count
      /\ tx.st.node_addr = ids /\ tx.st.recv_count = s.recv_count
  BY <1>1, <1>2, <1>4
<1> QED
  BY <1>3, <1>5, <1>6, <1>7 DEF tx

\* Reading the next line makes it the current one, with nothing answered yet.
LEMMA NextLine ==
    ASSUME NEW s \in VerifierTypes, s.line + 1 \in 1..Len(Lines), s.recv_count = 0
    PROVE  LET tx == read_line_send_req(s)
               l == s.line + 1
           IN  /\ tx.st \in VerifierTypes
               /\ tx.st.pc = s.pc /\ tx.st.line = l /\ tx.st.run_no = Lines[l].run_no
               /\ tx.st.sec_client_count = Len(Lines[l].ids)
               /\ tx.st.node_addr = Lines[l].ids /\ tx.st.recv_count = 0
               /\ tx.st.start_sent
               /\ \/ tx.out = {} /\ tx.st.node_index = 0
                  \/ /\ tx.st.node_index = 1
                     /\ tx.out = {ReqTo(get_addr_from_id(Lines[l].ids[1]), s.sent)}
               /\ tx.log = IF s.start_sent THEN <<>>
                           ELSE <<Command("START", Lines[l].run_no)>>
<1> DEFINE l == s.line + 1
           ids == Lines[l].ids
           s1 == [s EXCEPT !.line = @ + 1, !.run_no = Lines[l].run_no,
                           !.sec_client_count = Len(Lines[l].ids)]
           tx == send_unicast_second_round_req(s1, ids)
<1>1. /\ Lines[l].run_no \in Nat /\ ids \in Seq(Id) /\ Len(ids) \in Nat /\ l \in Nat
  <2> DEFINE L == [run_no : Nat, ids : Seq(Id)]
  <2>1. Lines \in Seq(L) /\ l \in 1..Len(Lines)
    BY LinesAssumption DEF Id
  <2>2. Lines[l] \in L
    <3> HIDE DEF L, l
    <3> QED
      BY <2>1
  <2> QED
    BY <2>1, <2>2
<1> DEFINE run == Lines[l].run_no
           n == Len(ids)
<1>2. /\ s1 \in VerifierTypes /\ s1.pc = s.pc /\ s1.line = l
      /\ s1.run_no = Lines[l].run_no /\ s1.sec_client_count = Len(ids)
      /\ s1.recv_count = 0 /\ s1.start_sent = s.start_sent /\ s1.sent = s.sent
  <2>1. s1 = [s EXCEPT !.line = l, !.run_no = run, !.sec_client_count = n]
    OBVIOUS
  <2>2. run \in Nat /\ n \in Nat /\ l \in Nat
    BY <1>1
  <2> HIDE DEF s1, run, n, l
  <2>3. /\ s1 \in VerifierTypes /\ s1.pc = s.pc /\ s1.line = l
        /\ s1.run_no = run /\ s1.sec_client_count = n
        /\ s1.recv_count = s.recv_count /\ s1.start_sent = s.start_sent
        /\ s1.sent = s.sent
    BY <2>1, <2>2 DEF VerifierTypes
  <2> QED
    BY <2>3 DEF run, n
<1>3. read_line_send_req(s) = tx
  BY DEF read_line_send_req
<1> HIDE DEF s1, ids, l
<1>4. /\ tx.st \in VerifierTypes
      /\ tx.st.pc = s1.pc /\ tx.st.line = s1.line /\ tx.st.run_no = s1.run_no
      /\ tx.st.sec_client_count = s1.sec_client_count
      /\ tx.st.node_addr = ids /\ tx.st.recv_count = s1.recv_count
      /\ tx.st.start_sent
      /\ \/ tx.out = {} /\ tx.st.node_index = 0
         \/ /\ 0 < Len(ids) /\ tx.st.node_index = 1
            /\ tx.out = {ReqTo(get_addr_from_id(ids[1]), s1.sent)}
      /\ tx.log = IF s1.start_sent THEN <<>> ELSE <<Command("START", s1.run_no)>>
  BY <1>1, <1>2, SendFirst
<1> HIDE DEF tx
<1> QED
  BY <1>2, <1>3, <1>4 DEF l, ids

-----------------------------------------------------------------------------
\* The invariant holds when a line has just been read.
LEMMA Fresh ==
    ASSUME NEW l \in 1..Len(Lines), NEW k \in Nat,
           verifier' \in VerifierTypes, log' \in Seq(Commands), dups' = 0,
           verifier'.pc = "loop", verifier'.start_sent, verifier'.line = l,
           verifier'.recv_count = 0, verifier'.run_no = Lines[l].run_no,
           verifier'.node_addr = Lines[l].ids,
           verifier'.sec_client_count = Len(Lines[l].ids),
           \/ net' = {} /\ verifier'.node_index = 0
           \/ /\ verifier'.node_index = 1
              /\ net' = {ReqTo(get_addr_from_id(Lines[l].ids[1]), k)}
    PROVE  RoundInv'
<1> DEFINE ids == Lines[l].ids
           req == ReqTo(get_addr_from_id(ids[1]), k)
<1>1. Len(ids) \in Nat /\ 1 <= Len(ids)
  <2>1. \A j \in 1..Len(Lines) : Len(Lines[j].ids) \in 1..150
    BY Zenon, LinesAssumption
  <2>2. Len(ids) \in 1..150
    BY <2>1
  <2> DEFINE n == Len(ids)
  <2>3. n \in 1..150
    BY <2>2
  <2> HIDE DEF n
  <2>4. n \in Nat /\ 1 <= n
    BY <2>3
  <2> QED
    BY <2>4 DEF n
<1>2. req \in Datagrams /\ req.addr = get_addr_from_id(ids[1])
  BY AddrType DEF ReqTo, Datagrams
<1> HIDE DEF req
<1>3. net' \subseteq Datagrams /\ Single'
  BY <1>2 DEF Single, req
<1>4. \A m \in net' : verifier'.node_index = 1 /\ m.addr = get_addr_from_id(ids[1])
  BY <1>2 DEF req
<1>5. LineInv(l)'
  <2>1. verifier'.recv_count <= verifier'.node_index /\ verifier'.node_index <= Len(ids)
    BY <1>1
  <2>2. \A i \in 1..verifier'.recv_count : get_addr_from_id(ids[i]) \in heard'
    OBVIOUS
  <2>3. \A m \in net' : /\ verifier'.recv_count = verifier'.node_index - 1
                       /\ m.addr = get_addr_from_id(ids[verifier'.node_index])
    BY <1>4
  <2> QED
    BY <2>1, <2>2, <2>3 DEF LineInv
<1>6. \A j \in 1..Len(Lines) : Polling(j)' => LineInv(j)'
  BY <1>5 DEF Polling
<1>7. ~Polling(0)'
  BY DEF Polling
<1>8. l \in 0..Len(Lines)
  OBVIOUS
<1> QED
  BY <1>3, <1>6, <1>7, <1>8 DEF RoundInv

\* The network may keep, answer or lose what is in flight.
LEMMA NetworkKeeps ==
    ASSUME RoundInv, verifier' = verifier, heard' = heard, log' = log, dups' = dups,
           net' \subseteq Datagrams, Single',
           \A d \in net' : \E m \in net : d.addr = m.addr
    PROVE  RoundInv'
<1>1. \A l \in 1..Len(Lines) : Polling(l)' => LineInv(l)'
  BY DEF RoundInv, Polling, LineInv
<1>2. verifier.pc = "start" => net' = {}
  BY DEF RoundInv
<1>3. Polling(0)' => verifier'.sec_client_count = 0
  BY DEF RoundInv, Polling
<1> QED
  BY <1>1, <1>2, <1>3 DEF RoundInv

LEMMA StartStep ==
    ASSUME RoundInv, Start
    PROVE  RoundInv' /\ (Abs!Begin \/ UNCHANGED <<verifier.line, heard, log>>)
<1> DEFINE s == [verifier EXCEPT !.pc = "loop"]
<1>1. /\ verifier.pc = "start" /\ net = {} /\ log = <<>> /\ heard = {}
      /\ verifier.line = 0 /\ verifier.recv_count = 0 /\ ~verifier.start_sent
      /\ verifier.run_no = 0 /\ heard' = {} /\ dups' = 0
      /\ (dups' > 0) = (dups > 0)
  BY DEF RoundInv, Start
<1>2. /\ s \in VerifierTypes /\ s.pc = "loop" /\ s.line = 0 /\ s.recv_count = 0
      /\ ~s.start_sent /\ s.run_no = 0 /\ s.file = verifier.file /\ s.sent \in Nat
      /\ s.sec_client_count = verifier.sec_client_count
  BY <1>1 DEF RoundInv, VerifierTypes
<1>3. Len(Lines) \in Nat
  BY LinesAssumption
<1>4. CASE s.file /\ Len(Lines) = 0
  <2>1. verifier' = [s EXCEPT !.pc = "exit"] /\ log' = log /\ net' = net
    BY <1>4 DEF Start
  <2>2. verifier' \in VerifierTypes /\ verifier'.pc = "exit" /\ verifier'.line = 0
    BY <1>2, <2>1 DEF VerifierTypes
  <2>3. RoundInv'
    BY <1>1, <2>1, <2>2 DEF RoundInv, Polling, Single
  <2> QED
    BY <1>1, <2>1, <2>2, <2>3
<1>5. CASE s.file /\ Len(Lines) # 0
  <2> DEFINE tx == read_line_send_req(s)
  <2>1. verifier' = tx.st /\ log' = log \o tx.log /\ net' = net \cup tx.out
    BY <1>5 DEF Start
  <2>2. 1 \in 1..Len(Lines) /\ s.line + 1 = 1
    BY <1>2, <1>3, <1>5
  <2> HIDE DEF s
  <2>3. /\ tx.st \in VerifierTypes
        /\ tx.st.pc = "loop" /\ tx.st.line = 1 /\ tx.st.run_no = Lines[1].run_no
        /\ tx.st.sec_client_count = Len(Lines[1].ids)
        /\ tx.st.node_addr = Lines[1].ids /\ tx.st.recv_count = 0
        /\ tx.st.start_sent
        /\ \/ tx.out = {} /\ tx.st.node_index = 0
           \/ /\ tx.st.node_index = 1
              /\ tx.out = {ReqTo(get_addr_from_id(Lines[1].ids[1]), s.sent)}
        /\ tx.log = <<Command("START", Lines[1].run_no)>>
    <3> DEFINE l == s.line + 1
    <3>1. /\ tx.st \in VerifierTypes
          /\ tx.st.pc = s.pc /\ tx.st.line = l /\ tx.st.run_no = Lines[l].run_no
          /\ tx.st.sec_client_count = Len(Lines[l].ids)
          /\ tx.st.node_addr = Lines[l].ids /\ tx.st.recv_count = 0
          /\ tx.st.start_sent
          /\ \/ tx.out = {} /\ tx.st.node_index = 0
             \/ /\ tx.st.node_index = 1
                /\ tx.out = {ReqTo(get_addr_from_id(Lines[l].ids[1]), s.sent)}
          /\ tx.log = IF s.start_sent THEN <<>>
                      ELSE <<Command("START", Lines[l].run_no)>>
      <4>1. s \in VerifierTypes
        BY <1>2
      <4>2. s.line + 1 \in 1..Len(Lines)
        BY <2>2
      <4>3. s.recv_count = 0
        BY <1>2
      <4> QED
        BY <4>1, <4>2, <4>3, NextLine
    <3> HIDE DEF tx, l
    <3> QED
      BY <1>2, <2>2, <3>1 DEF l
  <2> HIDE DEF tx
  <2>4. net' = tx.out /\ log' = <<Command("START", Lines[1].run_no)>>
    BY <1>1, <2>1, <2>3
  <2>5. Lines[1].run_no \in Nat
    BY <2>3 DEF VerifierTypes
  <2>6. log' \in Seq(Commands)
    BY <2>4, <2>5 DEF Command, Commands
  <2>7. RoundInv'
    BY <1>1, <1>2, <2>1, <2>2, <2>3, <2>4, <2>6, Fresh
  <2>8. Abs!Begin
    BY <1>1, <1>3, <1>5, <2>1, <2>2, <2>3, <2>4 DEF Abs!Begin, Abs!Entry, Command
  <2> QED
    BY <2>7, <2>8
<1>6. CASE ~s.file
  <2> DEFINE tx == send_unicast_second_round_req(s, <<6>>)
  <2>1. verifier' = tx.st /\ log' = log \o tx.log /\ net' = net \cup tx.out
    BY <1>6 DEF Start
  <2>2. <<6>> \in Seq(Id) /\ Len(<<6>>) = 1 /\ <<6>>[1] = 6
    BY DEF Id
  <2> HIDE DEF s
  <2>3. /\ tx.st \in VerifierTypes /\ tx.st.pc = "loop" /\ tx.st.line = 0
        /\ tx.st.start_sent
        /\ \/ tx.out = {}
           \/ tx.out = {ReqTo(get_addr_from_id(6), s.sent)}
        /\ tx.log = <<Command("START", 0)>>
        /\ tx.st.sec_client_count = s.sec_client_count
    <3> DEFINE six == <<6>>
               tx6 == send_unicast_second_round_req(s, six)
    <3>1. six \in Seq(Id) /\ six[1] = 6
      BY <2>2
    <3>2. tx = tx6
      OBVIOUS
    <3> HIDE DEF six
    <3>3. /\ tx6.st \in VerifierTypes /\ tx6.st.pc = s.pc /\ tx6.st.line = s.line
          /\ tx6.st.sec_client_count = s.sec_client_count /\ tx6.st.start_sent
          /\ \/ tx6.out = {}
             \/ tx6.out = {ReqTo(get_addr_from_id(six[1]), s.sent)}
          /\ tx6.log = IF s.start_sent THEN <<>> ELSE <<Command("START", s.run_no)>>
      <4>1. s \in VerifierTypes
        BY <1>2
      <4> QED
        BY <4>1, <3>1, SendFirst
    <3> HIDE DEF tx, tx6
    <3> QED
      BY <1>2, <3>1, <3>2, <3>3
  <2> HIDE DEF tx
  <2>4. net' = tx.out /\ log' = <<Command("START", 0)>>
    BY <1>1, <2>1, <2>3
  <2>5. log' \in Seq(Commands)
    BY <2>4 DEF Command, Commands
  <2>6. ReqTo(get_addr_from_id(6), s.sent) \in Datagrams
    BY AddrType, <1>2 DEF ReqTo, Datagrams
  <2>7. net' \subseteq Datagrams /\ Single'
    BY <2>3, <2>4, <2>6 DEF Single
  <2>8. verifier'.sec_client_count = 0
    BY <1>1, <1>2, <2>1, <2>3 DEF RoundInv
  <2>9. RoundInv'
    BY <1>1, <1>3, <2>1, <2>3, <2>5, <2>7, <2>8 DEF RoundInv, Polling
  <2>10. Abs!Begin
    BY <1>1, <2>1, <2>3, <2>4 DEF Abs!Begin, Abs!Entry, Command
  <2> QED
    BY <2>9, <2>10
<1> QED
  BY <1>4, <1>5, <1>6

\* The last answer of a line is the one from the last mote of the line.
LEMMA LineComplete ==
    ASSUME RoundInv, NEW m \in net, verifier.pc = "loop",
           verifier.sec_client_count = verifier.recv_count + 1
    PROVE  /\ verifier.line \in 1..Len(Lines)
           /\ verifier.run_no = Lines[verifier.line].run_no
           /\ MotesOf[verifier.line] \subseteq heard \cup {m.addr}
<1> DEFINE l == verifier.line
           ids == Lines[l].ids
<1>1. verifier.recv_count \in Nat /\ verifier.node_index \in Nat /\ l \in 0..Len(Lines)
  BY DEF RoundInv, VerifierTypes
<1>2. l # 0
  BY <1>1 DEF RoundInv, Polling
<1>3. l \in 1..Len(Lines)
  BY <1>1, <1>2, LinesAssumption
<1>4. LineInv(l)
  BY <1>3 DEF RoundInv, Polling
<1>5. /\ verifier.run_no = Lines[l].run_no
      /\ verifier.sec_client_count = Len(ids)
      /\ verifier.recv_count = verifier.node_index - 1
      /\ m.addr = get_addr_from_id(ids[verifier.node_index])
      /\ \A i \in 1..verifier.recv_count : get_addr_from_id(ids[i]) \in heard
  BY <1>4 DEF LineInv
<1>6. MotesOf[l] = {get_addr_from_id(ids[i]) : i \in 1..Len(ids)}
  BY <1>3 DEF MotesOf
<1>7. ASSUME NEW i \in 1..Len(ids) PROVE get_addr_from_id(ids[i]) \in heard \cup {m.addr}
  <2> HIDE DEF ids
  <2>1. i = verifier.node_index \/ i \in 1..verifier.recv_count
    BY <1>1, <1>5, <1>7
  <2> QED
    BY <1>5, <2>1
<1> QED
  BY <1>3, <1>5, <1>6, <1>7

LEMMA ReplyStep ==
    ASSUME RoundInv, NEW m \in net, RecvReply(m)
    PROVE  RoundInv' /\ \E a \in Motes : Abs!Answer(a) \/ Abs!Complete(a)
<1> DEFINE s == [verifier EXCEPT !.recv_count = @ + 1]
           s0 == line_done(s)
           line == read_line_send_req(s0)
           more == send_req_single_node(s)
           stopped == Append(log, Command("STOP", s.run_no))
<1>1. /\ verifier \in VerifierTypes /\ verifier.pc = "loop" /\ verifier.start_sent
      /\ verifier.line \in 0..Len(Lines) /\ m \in Datagrams /\ net \subseteq Datagrams
      /\ log \in Seq(Commands) /\ dups' = 0 /\ Single
      /\ (dups' > 0) = (dups > 0)
  BY DEF RoundInv, RecvReply
<1>2. m.addr \in Motes /\ net \ {m} = {}
  BY <1>1 DEF Datagrams, Single
<1>3. /\ s \in VerifierTypes /\ s.pc = "loop" /\ s.start_sent /\ s.line = verifier.line
      /\ s.run_no = verifier.run_no /\ s.sec_client_count = verifier.sec_client_count
      /\ s.node_addr = verifier.node_addr /\ s.node_index = verifier.node_index
      /\ s.recv_count = verifier.recv_count + 1 /\ s.sent \in Nat
  <2>1. verifier.recv_count + 1 \in Nat
    BY <1>1 DEF VerifierTypes
  <2>2. s \in VerifierTypes
    BY <1>1, <2>1 DEF VerifierTypes
  <2>3. /\ s.pc = verifier.pc /\ s.start_sent = verifier.start_sent
        /\ s.line = verifier.line
        /\ s.run_no = verifier.run_no /\ s.sec_client_count = verifier.sec_client_count
        /\ s.node_addr = verifier.node_addr /\ s.node_index = verifier.node_index
        /\ s.sent = verifier.sent
    BY <1>1 DEF VerifierTypes
  <2>4. s.recv_count = verifier.recv_count + 1 /\ verifier.sent \in Nat
    BY <1>1 DEF VerifierTypes
  <2> HIDE DEF s
  <2> QED
    BY <1>1, <2>2, <2>3, <2>4
<1>4. /\ s0 \in VerifierTypes /\ s0.pc = "loop" /\ s0.start_sent
      /\ s0.line = verifier.line /\ s0.recv_count = 0 /\ s0.sent \in Nat
      /\ s0.run_no = verifier.run_no
  <2> HIDE DEF s
  <2> QED
    BY <1>3 DEF VerifierTypes, line_done
<1>5. stopped \in Seq(Commands)
  <2>1. Command("STOP", s.run_no) \in Commands
    <3> HIDE DEF s
    <3> QED
      BY <1>3 DEF Commands, Command, VerifierTypes
  <2> QED
    BY <1>1, <2>1
<1>6. CASE /\ s.sec_client_count = s.recv_count /\ s.line < Len(Lines)
           /\ verifier' = line.st /\ log' = stopped \o line.log
           /\ net' = (net \ {m}) \cup line.out /\ heard' = {}
  <2> DEFINE l == s0.line + 1
  <2> HIDE DEF s, s0
  <2>1. /\ verifier.line \in 1..Len(Lines)
        /\ verifier.run_no = Lines[verifier.line].run_no
        /\ MotesOf[verifier.line] \subseteq heard \cup {m.addr}
    BY <1>1, <1>3, <1>6, LineComplete
  <2>2. Len(Lines) \in Nat
    BY LinesAssumption
  <2>3. l \in 1..Len(Lines) /\ l = verifier.line + 1 /\ verifier.line < Len(Lines)
    BY <1>3, <1>4, <1>6, <2>1, <2>2
  <2>4. /\ line.st \in VerifierTypes
        /\ line.st.pc = s0.pc /\ line.st.line = l /\ line.st.run_no = Lines[l].run_no
        /\ line.st.sec_client_count = Len(Lines[l].ids)
        /\ line.st.node_addr = Lines[l].ids /\ line.st.recv_count = 0
        /\ line.st.start_sent
        /\ \/ line.out = {} /\ line.st.node_index = 0
           \/ /\ line.st.node_index = 1
              /\ line.out = {ReqTo(get_addr_from_id(Lines[l].ids[1]), s0.sent)}
        /\ line.log = IF s0.start_sent THEN <<>>
                      ELSE <<Command("START", Lines[l].run_no)>>
    <3>1. s0 \in VerifierTypes /\ s0.recv_count = 0
      BY <1>4
    <3>2. s0.line + 1 \in 1..Len(Lines)
      BY <2>3
    <3> QED
      BY <3>1, <3>2, NextLine
  <2> HIDE DEF line, l
  <2>5. line.log = <<>>
    BY <1>4, <2>4
  <2> HIDE DEF stopped
  <2>6. log' = stopped
    BY <1>5, <1>6, <2>5
  <2>7. net' = line.out
    BY <1>2, <1>6
  <2>8. RoundInv'
    <3>1. /\ verifier' \in VerifierTypes /\ log' \in Seq(Commands) /\ dups' = 0
          /\ verifier'.pc = "loop" /\ verifier'.start_sent /\ verifier'.line = l
          /\ verifier'.recv_count = 0 /\ verifier'.run_no = Lines[l].run_no
          /\ verifier'.node_addr = Lines[l].ids
          /\ verifier'.sec_client_count = Len(Lines[l].ids)
      BY <1>1, <1>4, <1>5, <1>6, <2>4, <2>6
    <3>2. \/ net' = {} /\ verifier'.node_index = 0
          \/ /\ verifier'.node_index = 1
             /\ net' = {ReqTo(get_addr_from_id(Lines[l].ids[1]), s0.sent)}
      BY <1>6, <2>4, <2>7
    <3> QED
      BY <1>4, <2>3, <3>1, <3>2, Fresh
  <2>9. Abs!Complete(m.addr)
    <3>1. verifier'.line = verifier.line + 1
      BY <1>6, <2>3, <2>4
    <3>2. log' = Append(log, [type |-> "STOP", run_count |-> Lines[verifier.line].run_no])
      BY <1>3, <2>1, <2>6 DEF stopped, Command
    <3> QED
      BY <1>1, <1>6, <2>1, <2>3, <3>1, <3>2 DEF Abs!Complete, Abs!Entry
  <2> QED
    BY <1>2, <2>8, <2>9
<1>7. CASE /\ s.sec_client_count = s.recv_count /\ s.line = Len(Lines)
           /\ verifier' = [s0 EXCEPT !.pc = "exit", !.line = @ + 1]
           /\ log' = Append(stopped, Command("DONE", s.run_no))
           /\ net' = net \ {m} /\ heard' = {}
  <2> HIDE DEF s, s0
  <2>1. /\ verifier.line \in 1..Len(Lines)
        /\ verifier.run_no = Lines[verifier.line].run_no
        /\ MotesOf[verifier.line] \subseteq heard \cup {m.addr}
    BY <1>1, <1>3, <1>7, LineComplete
  <2>2. verifier' \in VerifierTypes /\ verifier'.pc = "exit"
        /\ verifier'.line = verifier.line + 1
    <3> DEFINE n == s0.line + 1
    <3>1. n \in Nat
      BY <1>4 DEF VerifierTypes
    <3>2. verifier' = [s0 EXCEPT !.pc = "exit", !.line = n]
      BY <1>7
    <3> HIDE DEF n
    <3>3. verifier' \in VerifierTypes
      BY <1>4, <3>1, <3>2 DEF VerifierTypes
    <3>4. verifier'.pc = "exit" /\ verifier'.line = n
      BY <1>4, <3>2 DEF VerifierTypes
    <3> QED
      BY <1>4, <3>3, <3>4 DEF n
  <2>3. log' \in Seq(Commands)
    <3>1. Command("DONE", s.run_no) \in Commands
      BY <1>3 DEF Commands, Command, VerifierTypes
    <3> HIDE DEF stopped
    <3> QED
      BY <1>5, <1>7, <3>1
  <2>4. RoundInv'
    BY <1>1, <1>2, <1>7, <2>2, <2>3 DEF RoundInv, Polling, Single
  <2>5. Abs!Complete(m.addr)
    <3>1. log' = Append(Append(log,
                     [type |-> "STOP", run_count |-> Lines[verifier.line].run_no]),
                     [type |-> "DONE", run_count |-> Lines[verifier.line].run_no])
      BY <1>3, <1>7, <2>1 DEF Command
    <3>2. ~(verifier.line < Len(Lines))
      BY <1>3, <1>7, <2>1
    <3> QED
      BY <1>1, <1>7, <2>1, <2>2, <3>1, <3>2 DEF Abs!Complete, Abs!Entry
  <2> QED
    BY <1>2, <2>4, <2>5
<1>8. CASE /\ s.sec_client_count # s.recv_count
           /\ heard' = heard \cup {m.addr} /\ log' = log
           /\ \/ verifier' = more.st /\ net' = (net \ {m}) \cup more.out
              \/ verifier' = s /\ net' = net \ {m}
  <2> DEFINE i == s.node_index + 1
             a == get_addr_from_id(s.node_addr[i])
  <2> HIDE DEF s
  <2>1. /\ more.st \in VerifierTypes
        /\ more.st.pc = s.pc /\ more.st.line = s.line /\ more.st.run_no = s.run_no
        /\ more.st.sec_client_count = s.sec_client_count
        /\ more.st.node_addr = s.node_addr /\ more.st.recv_count = s.recv_count
        /\ more.st.start_sent = s.start_sent
        /\ \/ more.out = {} /\ more.st.node_index = s.node_index
           \/ /\ s.node_index < Len(s.node_addr)
              /\ more.st.node_index = i
              /\ more.out = {ReqTo(a, s.sent)}
    <3>1. s \in VerifierTypes
      BY <1>3
    <3> QED
      BY <3>1, SendOne
  <2> HIDE DEF more, a, i
  <2>2. /\ verifier' \in VerifierTypes
        /\ verifier'.pc = "loop" /\ verifier'.line = verifier.line
        /\ verifier'.run_no = verifier.run_no
        /\ verifier'.sec_client_count = verifier.sec_client_count
        /\ verifier'.node_addr = verifier.node_addr
        /\ verifier'.recv_count = verifier.recv_count + 1
    BY <1>3, <1>8, <2>1
  <2>3. verifier'.start_sent
    BY <1>3, <1>8, <2>1
  <2>4. \/ net' = {} /\ verifier'.node_index = verifier.node_index
        \/ /\ verifier.node_index < Len(verifier.node_addr)
           /\ verifier'.node_index = verifier.node_index + 1
           /\ net' = {ReqTo(get_addr_from_id(verifier.node_addr[verifier'.node_index]),
                            s.sent)}
    BY <1>2, <1>3, <1>8, <2>1 DEF i, a
  <2>5. net' \subseteq Datagrams /\ Single'
    <3> DEFINE r == ReqTo(get_addr_from_id(verifier.node_addr[verifier'.node_index]), s.sent)
    <3>1. r \in Datagrams
      BY <1>3, AddrType DEF ReqTo, Datagrams
    <3> HIDE DEF r
    <3>2. net' = {} \/ net' = {r}
      BY <2>4 DEF r
    <3> QED
      BY <3>1, <3>2 DEF Single
  <2>6. ASSUME NEW l \in 1..Len(Lines), Polling(l)' PROVE LineInv(l)'
    <3> DEFINE ids == Lines[l].ids
    <3>1. Polling(l)
      BY <1>1, <2>2, <2>6 DEF Polling
    <3>2. LineInv(l)
      BY <3>1 DEF RoundInv
    <3>3. /\ verifier.node_addr = ids /\ verifier.sec_client_count = Len(ids)
          /\ verifier.run_no = Lines[l].run_no
          /\ verifier.node_index <= Len(ids)
          /\ \A j \in 1..verifier.recv_count : get_addr_from_id(ids[j]) \in heard
          /\ verifier.recv_count = verifier.node_index - 1
          /\ m.addr = get_addr_from_id(ids[verifier.node_index])
      BY <3>2 DEF LineInv
    <3>4. verifier.recv_count \in Nat /\ verifier.node_index \in Nat
      BY <1>1 DEF VerifierTypes
    <3> HIDE DEF ids
    <3>5. Len(ids) \in Nat
      BY <1>1, <3>3 DEF VerifierTypes
    <3>6. \A j \in 1..verifier'.recv_count : get_addr_from_id(ids[j]) \in heard'
      <4>1. ASSUME NEW j \in 1..verifier'.recv_count
            PROVE  j \in 1..verifier.recv_count \/ j = verifier.node_index
        BY <2>2, <3>3, <3>4
      <4> QED
        BY <1>8, <3>3, <4>1
    <3>7. verifier'.recv_count <= verifier'.node_index /\ verifier'.node_index <= Len(ids)
      BY <2>2, <2>4, <3>3, <3>4, <3>5
    <3>8. \A d \in net' : /\ verifier'.recv_count = verifier'.node_index - 1
                         /\ d.addr = get_addr_from_id(ids[verifier'.node_index])
      BY <2>2, <2>4, <3>3, <3>4 DEF ReqTo
    <3> QED
      BY <2>2, <3>3, <3>6, <3>7, <3>8 DEF LineInv, ids
  <2>7. Polling(0)' => verifier'.sec_client_count = 0
    BY <1>1, <2>2 DEF Polling, RoundInv
  <2>8. RoundInv'
    BY <1>1, <1>8, <2>2, <2>3, <2>5, <2>6, <2>7 DEF RoundInv
  <2>9. Abs!Answer(m.addr)
    BY <1>1, <1>8, <2>2 DEF Abs!Answer
  <2> QED
    BY <1>2, <2>8, <2>9
<1> QED
  BY <1>6, <1>7, <1>8 DEF RecvReply

-----------------------------------------------------------------------------
LEMMA Initially == Init => SessionInv /\ Abs!Init
<1> SUFFICES ASSUME Init PROVE SessionInv /\ Abs!Init
  OBVIOUS
<1>1. PICK f \in BOOLEAN :
         verifier = [pc |-> "start", file |-> f, line |-> 0, run_no |-> 0,
                     sec_client_count |-> 0, node_addr |-> <<>>, node_index |-> 0,
                     sent_id |-> 0, recv_count |-> 0, start_sent |-> FALSE, sent |-> 0]
  BY DEF Init
<1>2. 0 \in Id /\ <<>> \in Seq(Id)
  BY DEF Id
<1>3. verifier \in VerifierTypes
  BY <1>1, <1>2 DEF VerifierTypes
<1>4. /\ verifier.pc = "start" /\ verifier.line = 0 /\ verifier.recv_count = 0
      /\ ~verifier.start_sent /\ verifier.run_no = 0 /\ verifier.sec_client_count = 0
  BY <1>1
<1>5. heard = {} /\ log = <<>> /\ net = {} /\ dups = 0
  BY DEF Init
<1> QED
  BY <1>3, <1>4, <1>5 DEF SessionInv, RoundInv, Polling, Single, Abs!Init

\* The first duplicate, whatever the verifier does.
LEMMA DuplicateStep ==
    ASSUME SessionInv, NEW m \in net, Duplicate(m)
    PROVE  SessionInv' /\ Abs!Duplicate
<1> DEFINE d == [m EXCEPT !.copy = dups + 1]
<1>1. dups \in Nat /\ net \subseteq Datagrams
  BY DEF SessionInv, RoundInv, OrderInv
<1>2. d \in Datagrams
  <2> DEFINE k == dups + 1
  <2>1. k \in Nat /\ m \in Datagrams
    BY <1>1
  <2> HIDE DEF k
  <2>2. [m EXCEPT !.copy = k] \in Datagrams
    BY <2>1 DEF Datagrams
  <2> QED
    BY <2>2 DEF k
<1>3. /\ dups' = dups + 1 /\ net' = net \cup {d}
      /\ UNCHANGED <<verifier, heard, log>>
  BY DEF Duplicate
<1> HIDE DEF d
<1>4. dups' \in Nat /\ dups' # 0 /\ dups' > 0
  BY <1>1, <1>3
<1>5. net' \subseteq Datagrams
  BY <1>1, <1>2, <1>3
<1>6. CASE dups = 0
  <2>1. verifier.pc # "start"
    BY <1>6 DEF SessionInv, RoundInv
  <2>2. \A l \in 1..Len(Lines) : Polling(l) => verifier.run_no = Lines[l].run_no
    BY <1>6 DEF SessionInv, RoundInv, LineInv
  <2>3. OrderInv'
    BY <1>3, <1>4, <1>5, <1>6, <2>1, <2>2 DEF SessionInv, RoundInv, OrderInv, Polling
  <2> QED
    BY <1>3, <1>4, <2>3 DEF SessionInv, Abs!Duplicate
<1>7. CASE dups # 0
  <2>1. OrderInv'
    BY <1>3, <1>4, <1>5, <1>7 DEF SessionInv, OrderInv, Polling
  <2> QED
    BY <1>3, <1>4, <2>1 DEF SessionInv, Abs!Duplicate
<1> QED
  BY <1>6, <1>7

\* A reply after a duplicate: the line may end too early, but the next one is
\* the next of the file.
LEMMA LateReplyStep ==
    ASSUME OrderInv, dups > 0, NEW m \in net, RecvReply(m)
    PROVE  OrderInv' /\ \E a \in Motes : Abs!Answer(a) \/ Abs!Complete(a)
<1> DEFINE s == [verifier EXCEPT !.recv_count = @ + 1]
           s0 == line_done(s)
           line == read_line_send_req(s0)
           more == send_req_single_node(s)
           stopped == Append(log, Command("STOP", s.run_no))
<1>1. /\ verifier \in VerifierTypes /\ verifier.pc = "loop" /\ verifier.start_sent
      /\ verifier.line \in 0..Len(Lines) /\ m \in Datagrams /\ net \subseteq Datagrams
      /\ log \in Seq(Commands) /\ dups' = dups /\ dups \in Nat
      /\ (dups' > 0) = (dups > 0) /\ dups > 0
  BY DEF OrderInv, RecvReply
<1>2. m.addr \in Motes
  BY <1>1 DEF Datagrams
<1>3. /\ s \in VerifierTypes /\ s.pc = "loop" /\ s.start_sent /\ s.line = verifier.line
      /\ s.run_no = verifier.run_no /\ s.sec_client_count = verifier.sec_client_count
      /\ s.recv_count = verifier.recv_count + 1 /\ s.sent \in Nat
      /\ verifier.recv_count \in Nat
  <2>1. verifier.recv_count \in Nat /\ verifier.recv_count + 1 \in Nat
    BY <1>1 DEF VerifierTypes
  <2>2. s \in VerifierTypes
    BY <1>1, <2>1 DEF VerifierTypes
  <2>3. /\ s.pc = verifier.pc /\ s.start_sent = verifier.start_sent
        /\ s.line = verifier.line
        /\ s.run_no = verifier.run_no /\ s.sec_client_count = verifier.sec_client_count
        /\ s.sent = verifier.sent
    BY <1>1 DEF VerifierTypes
  <2>4. s.recv_count = verifier.recv_count + 1 /\ verifier.sent \in Nat
    BY <1>1 DEF VerifierTypes
  <2> HIDE DEF s
  <2> QED
    BY <1>1, <2>1, <2>2, <2>3, <2>4
<1>4. /\ s0 \in VerifierTypes /\ s0.pc = "loop" /\ s0.start_sent
      /\ s0.line = verifier.line /\ s0.recv_count = 0 /\ s0.sent \in Nat
      /\ s0.run_no = verifier.run_no
  <2> HIDE DEF s
  <2> QED
    BY <1>3 DEF VerifierTypes, line_done
<1>5. stopped \in Seq(Commands)
  <2>1. Command("STOP", s.run_no) \in Commands
    <3> HIDE DEF s
    <3> QED
      BY <1>3 DEF Commands, Command, VerifierTypes
  <2> QED
    BY <1>1, <2>1
<1>6. Len(Lines) \in Nat /\ \A k, a : ReqTo(get_addr_from_id(a), k) \in Datagrams \/ k \notin Nat
  <2>1. Len(Lines) \in Nat
    BY LinesAssumption
  <2>2. \A k, a : ReqTo(get_addr_from_id(a), k) \in Datagrams \/ k \notin Nat
    BY AddrType DEF ReqTo, Datagrams
  <2> QED
    BY <2>1, <2>2
<1>7. ASSUME s.sec_client_count = s.recv_count
      PROVE  /\ verifier.line \in 1..Len(Lines)
             /\ verifier.run_no = Lines[verifier.line].run_no
  <2> HIDE DEF s
  <2>1. verifier.sec_client_count # 0
    BY <1>3, <1>7
  <2>2. verifier.line # 0
    BY <1>1, <2>1 DEF OrderInv, Polling
  <2>3. verifier.line \in 1..Len(Lines)
    BY <1>1, <1>6, <2>2
  <2> QED
    BY <1>1, <2>3 DEF OrderInv, Polling
<1>8. CASE /\ s.sec_client_count = s.recv_count /\ s.line < Len(Lines)
           /\ verifier' = line.st /\ log' = stopped \o line.log
           /\ net' = (net \ {m}) \cup line.out /\ heard' = {}
  <2> DEFINE l == s0.line + 1
  <2> HIDE DEF s, s0
  <2>1. l \in 1..Len(Lines) /\ l = verifier.line + 1 /\ verifier.line < Len(Lines)
    BY <1>3, <1>4, <1>6, <1>7, <1>8
  <2>2. /\ line.st \in VerifierTypes
        /\ line.st.pc = s0.pc /\ line.st.line = l /\ line.st.run_no = Lines[l].run_no
        /\ line.st.start_sent
        /\ \/ line.out = {}
           \/ line.out = {ReqTo(get_addr_from_id(Lines[l].ids[1]), s0.sent)}
        /\ line.log = IF s0.start_sent THEN <<>>
                      ELSE <<Command("START", Lines[l].run_no)>>
    <3>1. s0 \in VerifierTypes /\ s0.recv_count = 0
      BY <1>4
    <3>2. s0.line + 1 \in 1..Len(Lines)
      BY <2>1
    <3> QED
      BY <3>1, <3>2, NextLine
  <2> HIDE DEF line, l, stopped
  <2>3. log' = stopped
    BY <1>4, <1>5, <1>8, <2>2
  <2>4. net' \subseteq Datagrams
    BY <1>1, <1>4, <1>6, <1>8, <2>2
  <2>5. /\ verifier' \in VerifierTypes /\ verifier'.pc = "loop" /\ verifier'.start_sent
        /\ verifier'.line = l /\ verifier'.run_no = Lines[l].run_no
    BY <1>4, <1>8, <2>2
  <2>6. OrderInv'
    BY <1>1, <1>5, <1>6, <2>1, <2>3, <2>4, <2>5 DEF OrderInv, Polling
  <2>7. Abs!Complete(m.addr)
    <3>1. verifier'.line = verifier.line + 1
      BY <2>1, <2>5
    <3>2. log' = Append(log, [type |-> "STOP", run_count |-> Lines[verifier.line].run_no])
      BY <1>3, <1>7, <1>8, <2>3 DEF stopped, Command
    <3> QED
      BY <1>1, <1>7, <1>8, <2>1, <3>1, <3>2 DEF Abs!Complete, Abs!Entry
  <2> QED
    BY <1>2, <2>6, <2>7
<1>9. CASE /\ s.sec_client_count = s.recv_count /\ s.line = Len(Lines)
           /\ verifier' = [s0 EXCEPT !.pc = "exit", !.line = @ + 1]
           /\ log' = Append(stopped, Command("DONE", s.run_no))
           /\ net' = net \ {m} /\ heard' = {}
  <2> HIDE DEF s, s0
  <2>1. /\ verifier' \in VerifierTypes /\ verifier'.pc = "exit"
        /\ verifier'.line = verifier.line + 1
    <3> DEFINE n == s0.line + 1
    <3>1. n \in Nat
      BY <1>4 DEF VerifierTypes
    <3>2. verifier' = [s0 EXCEPT !.pc = "exit", !.line = n]
      BY <1>9
    <3> HIDE DEF n
    <3>3. verifier' \in VerifierTypes
      BY <1>4, <3>1, <3>2 DEF VerifierTypes
    <3>4. verifier'.pc = "exit" /\ verifier'.line = n
      BY <1>4, <3>2 DEF VerifierTypes
    <3> QED
      BY <1>4, <3>3, <3>4 DEF n
  <2>2. log' \in Seq(Commands)
    <3>1. Command("DONE", s.run_no) \in Commands
      BY <1>3 DEF Commands, Command, VerifierTypes
    <3> HIDE DEF stopped
    <3> QED
      BY <1>5, <1>9, <3>1
  <2>3. OrderInv'
    BY <1>1, <1>9, <2>1, <2>2 DEF OrderInv, Polling
  <2>4. Abs!Complete(m.addr)
    <3>1. log' = Append(Append(log,
                     [type |-> "STOP", run_count |-> Lines[verifier.line].run_no]),
                     [type |-> "DONE", run_count |-> Lines[verifier.line].run_no])
      BY <1>3, <1>7, <1>9 DEF Command
    <3>2. ~(verifier.line < Len(Lines))
      BY <1>3, <1>6, <1>9
    <3> QED
      BY <1>1, <1>7, <1>9, <2>1, <3>1, <3>2 DEF Abs!Complete, Abs!Entry
  <2> QED
    BY <1>2, <2>3, <2>4
<1>10. CASE /\ s.sec_client_count # s.recv_count
            /\ heard' = heard \cup {m.addr} /\ log' = log
            /\ \/ verifier' = more.st /\ net' = (net \ {m}) \cup more.out
               \/ verifier' = s /\ net' = net \ {m}
  <2> DEFINE a == s.node_addr[s.node_index + 1]
  <2> HIDE DEF s
  <2>1. /\ more.st \in VerifierTypes
        /\ more.st.pc = s.pc /\ more.st.line = s.line /\ more.st.run_no = s.run_no
        /\ more.st.sec_client_count = s.sec_client_count
        /\ more.st.start_sent = s.start_sent
        /\ more.out = {} \/ more.out = {ReqTo(get_addr_from_id(a), s.sent)}
    <3>1. s \in VerifierTypes
      BY <1>3
    <3> QED
      BY <3>1, SendOne
  <2> HIDE DEF more, a
  <2>2. /\ verifier' \in VerifierTypes
        /\ verifier'.pc = "loop" /\ verifier'.line = verifier.line
        /\ verifier'.run_no = verifier.run_no
        /\ verifier'.sec_client_count = verifier.sec_client_count
        /\ verifier'.start_sent
    BY <1>3, <1>10, <2>1
  <2>3. net' \subseteq Datagrams
    BY <1>1, <1>3, <1>6, <1>10, <2>1
  <2>4. OrderInv'
    BY <1>1, <1>10, <2>2, <2>3 DEF OrderInv, Polling
  <2>5. Abs!Answer(m.addr)
    BY <1>1, <1>10, <2>2 DEF Abs!Answer
  <2> QED
    BY <1>2, <2>4, <2>5
<1> QED
  BY <1>8, <1>9, <1>10 DEF RecvReply

\* A step before anything is duplicated.
LEMMA CleanStep ==
    ASSUME RoundInv, [Next]_vars, ~\E m \in net : Duplicate(m)
    PROVE  RoundInv' /\ [Abs!Next]_(Abs!avars)
<1>1. CASE Start
  <2>1. dups' = dups
    BY <1>1 DEF Start
  <2> QED
    BY <1>1, <2>1, StartStep DEF Abs!Next, Abs!avars
<1>2. ASSUME NEW m \in net, RecvReply(m)
      PROVE  RoundInv' /\ [Abs!Next]_(Abs!avars)
  BY <1>2, ReplyStep DEF Abs!Next
<1>3. ASSUME NEW m \in net, udp_secreq_callback(m) \/ LoopBack(m)
      PROVE  RoundInv' /\ [Abs!Next]_(Abs!avars)
  <2> DEFINE r == [m EXCEPT !.kind = "reply"]
  <2>1. r \in Datagrams /\ r.addr = m.addr
    BY DEF RoundInv, Datagrams
  <2>2. net \ {m} = {}
    BY DEF RoundInv, Single
  <2>3. net' = {r} /\ UNCHANGED <<verifier, heard, log, dups>>
    BY <1>3, <2>2 DEF udp_secreq_callback, LoopBack
  <2> HIDE DEF r
  <2>4. RoundInv'
    BY <2>1, <2>3, NetworkKeeps DEF Single
  <2> QED
    BY <2>3, <2>4 DEF Abs!avars
<1>4. ASSUME NEW m \in net, Lose(m)
      PROVE  RoundInv' /\ [Abs!Next]_(Abs!avars)
  <2>1. net' \subseteq net /\ UNCHANGED <<verifier, heard, log, dups>>
    BY <1>4 DEF Lose
  <2>2. RoundInv'
    BY <2>1, NetworkKeeps DEF Single, RoundInv
  <2> QED
    BY <2>1, <2>2 DEF Abs!avars
<1>5. ASSUME UNCHANGED <<verifier, heard, log, net, dups>>
      PROVE  RoundInv' /\ [Abs!Next]_(Abs!avars)
  <2>1. RoundInv'
    BY <1>5, NetworkKeeps DEF Single, RoundInv
  <2> QED
    BY <1>5, <2>1 DEF Abs!avars
<1>6. CASE RouterReceive \/ RouterLose \/ Tick \/ UNCHANGED vars
  BY <1>5, <1>6 DEF RouterReceive, RouterLose, Tick, vars
<1> QED
  BY <1>1, <1>2, <1>3, <1>4, <1>6 DEF Next

\* A step after something has been duplicated.
LEMMA LateStep ==
    ASSUME OrderInv, dups > 0, [Next]_vars, ~\E m \in net : Duplicate(m)
    PROVE  OrderInv' /\ dups' = dups /\ [Abs!Next]_(Abs!avars)
<1>1. CASE Start
  BY <1>1 DEF OrderInv, Start
<1>2. ASSUME NEW m \in net, RecvReply(m)
      PROVE  OrderInv' /\ dups' = dups /\ [Abs!Next]_(Abs!avars)
  <2>1. dups' = dups
    BY <1>2 DEF RecvReply
  <2> QED
    BY <1>2, <2>1, LateReplyStep DEF Abs!Next
<1>3. ASSUME net' \subseteq Datagrams, UNCHANGED <<verifier, heard, log, dups>>
      PROVE  OrderInv' /\ dups' = dups /\ [Abs!Next]_(Abs!avars)
  BY <1>3 DEF OrderInv, Polling, Abs!avars
<1>4. ASSUME NEW m \in net, udp_secreq_callback(m) \/ LoopBack(m)
      PROVE  OrderInv' /\ dups' = dups /\ [Abs!Next]_(Abs!avars)
  <2>1. [m EXCEPT !.kind = "reply"] \in Datagrams
    BY DEF OrderInv, Datagrams
  <2>2. net' \subseteq Datagrams /\ UNCHANGED <<verifier, heard, log, dups>>
    BY <1>4, <2>1 DEF udp_secreq_callback, LoopBack, OrderInv
  <2> QED
    BY <1>3, <2>2
<1>5. ASSUME NEW m \in net, Lose(m)
      PROVE  OrderInv' /\ dups' = dups /\ [Abs!Next]_(Abs!avars)
  <2>1. net' \subseteq Datagrams /\ UNCHANGED <<verifier, heard, log, dups>>
    BY <1>5 DEF Lose, OrderInv
  <2> QED
    BY <1>3, <2>1
<1>6. CASE RouterReceive \/ RouterLose \/ Tick \/ UNCHANGED vars
  <2>1. net' \subseteq Datagrams /\ UNCHANGED <<verifier, heard, log, dups>>
    BY <1>6 DEF RouterReceive, RouterLose, Tick, vars, OrderInv
  <2> QED
    BY <1>3, <2>1
<1> QED
  BY <1>1, <1>2, <1>4, <1>5, <1>6 DEF Next

LEMMA StepKeeps ==
    ASSUME SessionInv, [Next]_vars
    PROVE  SessionInv' /\ [Abs!Next]_(Abs!avars)
<1>1. ASSUME NEW m \in net, Duplicate(m)
      PROVE  SessionInv' /\ [Abs!Next]_(Abs!avars)
  BY <1>1, DuplicateStep DEF Abs!Next
<1>2. CASE dups = 0 /\ ~\E m \in net : Duplicate(m)
  <2>1. RoundInv
    BY <1>2 DEF SessionInv
  <2>2. RoundInv' /\ [Abs!Next]_(Abs!avars)
    BY <1>2, <2>1, CleanStep
  <2>3. dups' = 0
    BY <2>2 DEF RoundInv
  <2> QED
    BY <2>2, <2>3 DEF SessionInv
<1>3. CASE dups # 0 /\ ~\E m \in net : Duplicate(m)
  <2>1. OrderInv /\ dups > 0
    BY <1>3 DEF SessionInv, OrderInv
  <2>2. OrderInv' /\ dups' = dups /\ [Abs!Next]_(Abs!avars)
    BY <1>3, <2>1, LateStep
  <2> QED
    BY <1>3, <2>2 DEF SessionInv
<1> QED
  BY <1>1, <1>2, <1>3

\* SessionInv is an invariant: whatever the network loses, what is in flight
\* belongs to the mote the verifier waits for, until something is duplicated.
LEMMA SessionInvariant == Spec => []SessionInv
<1>1. Init => SessionInv
  BY Initially
<1>2. SessionInv /\ [Next]_vars => SessionInv'
  BY StepKeeps
<1> QED
  BY <1>1, <1>2, PTL DEF Spec

\* One mote is asked at a time (send_req_single_node), until something is
\* duplicated.
THEOREM OneAtATime == Spec => []OneOutstanding
<1>1. SessionInv => OneOutstanding
  BY DEF SessionInv, RoundInv, Single, OneOutstanding
<1> QED
  BY <1>1, SessionInvariant, PTL

\* The verifier of the second round implements SecondRoundAbs: STOP only goes
\* out in the order of the file and, until something is duplicated, when every
\* mote of the line has answered.
THEOREM Refinement == Spec => RoundsInOrder
<1>1. SessionInv /\ [Next]_vars => [Abs!Next]_(Abs!avars)
  BY StepKeeps
<1>2. Init => Abs!Init
  BY Initially
<1>3. Spec => Abs!Spec
  BY <1>1, <1>2, SessionInvariant, PTL DEF Spec, Abs!Spec
<1> QED
  BY <1>3 DEF RoundsInOrder
-----------------------------------------------------------------------------
(* Types, and the times the border router reports, for any clock that     *)
(* wraps and any lost commands: they add up.  Remainders first.            *)

LEMMA DivMod ==
    ASSUME NEW W \in Nat \ {0}, NEW a \in Int
    PROVE  /\ a \div W \in Int /\ a % W \in Int
           /\ 0 <= a % W /\ a % W < W
           /\ a = (W * (a \div W)) + (a % W)
  BY SMTT(20)

\* The only multiple of W nearer to 0 than W is 0.
LEMMA SmallMultiple ==
    ASSUME NEW W \in Nat \ {0}, NEW d \in Int, W * d < W, -W < W * d
    PROVE  d = 0
<1>1. CASE d >= 1
  <2>1. W * d >= W * 1
    BY <1>1, SMTT(20)
  <2> QED
    BY <2>1
<1>2. CASE d <= -1
  <2>1. W * d <= W * (-1)
    BY <1>2, SMTT(20)
  <2> QED
    BY <2>1
<1> QED
  BY <1>1, <1>2

\* Numbers that differ by a multiple of W have the same remainder.
LEMMA Congruent ==
    ASSUME NEW W \in Nat \ {0}, NEW x \in Int, NEW y \in Int, NEW k \in Int,
           x = y + (W * k)
    PROVE  x % W = y % W
<1> DEFINE dx == x \div W
           dy == y \div W
           mx == x % W
           my == y % W
           d == (dy + k) - dx
<1>1. dx \in Int /\ mx \in Int /\ 0 <= mx /\ mx < W /\ x = (W * dx) + mx
  BY DivMod
<1>2. dy \in Int /\ my \in Int /\ 0 <= my /\ my < W /\ y = (W * dy) + my
  BY DivMod
<1> HIDE DEF dx, dy, mx, my
<1>3. W * d = ((W * dy) + (W * k)) - (W * dx)
  BY <1>1, <1>2, SMTT(20)
<1>4. W * d = mx - my
  BY <1>1, <1>2, <1>3
<1>5. d \in Int
  BY <1>1, <1>2
<1> HIDE DEF d
<1>6. W * d < W /\ -W < W * d
  BY <1>1, <1>2, <1>4, <1>5
<1>7. d = 0
  BY <1>5, <1>6, SmallMultiple
<1>8. W * d = 0
  BY <1>7
<1>9. mx = my
  BY <1>1, <1>2, <1>4, <1>8
<1> QED
  BY <1>9 DEF mx, my

\* One more difference of a clock that wraps at W: from c to n.
LEMMA AddUp ==
    ASSUME NEW W \in Nat \ {0}, NEW t \in Int, NEW c \in Int, NEW c2 \in Int, NEW n \in Int,
           t % W = (c - c2) % W
    PROVE  (t + ((n - c) % W)) % W = (n - c2) % W
<1>1. PICK i \in Int : t = (W * i) + (t % W)
  BY DivMod
<1>2. PICK j \in Int : c - c2 = (W * j) + ((c - c2) % W)
  <2>1. c - c2 \in Int
    OBVIOUS
  <2> QED
    BY <2>1, DivMod
<1>3. n - c \in Int
  OBVIOUS
<1>4. PICK k \in Int : n - c = (W * k) + ((n - c) % W)
  BY <1>3, DivMod
<1> DEFINE m == t % W
           r == (n - c) % W
<1>5. m \in Int /\ r \in Int
  BY <1>3, DivMod
<1>6. c - c2 = (W * j) + m
  BY <1>2
<1>7. t = (W * i) + m /\ n - c = (W * k) + r
  BY <1>1, <1>4
<1> HIDE DEF m, r
<1>8. t + r = ((n - c2) + (W * i)) - ((W * j) + (W * k))
  BY <1>5, <1>6, <1>7
<1>9. W * (i - (j + k)) = (W * i) - ((W * j) + (W * k))
  BY SMTT(20)
<1>10. t + r = (n - c2) + (W * (i - (j + k)))
  BY <1>5, <1>8, <1>9
<1>11. t + r \in Int /\ n - c2 \in Int /\ i - (j + k) \in Int
  BY <1>5
<1>12. (t + r) % W = (n - c2) % W
  BY <1>10, <1>11, Congruent
<1> QED
  BY <1>12 DEF r

-----------------------------------------------------------------------------
(* The router's clock variables *)

Times == 0..(CLOCK_WRAP - 1)

RouterStates == [next : Nat, cnt : Nat, ct : Times, ct2 : Times, time_diff : Times, total : Nat]

\* What RoundTimesAddUp needs, and the types that SessionInv leaves open.
TimesInv ==
    /\ router \in RouterStates /\ router.next >= 1
    /\ heard \subseteq Motes /\ dups \in 0..MaxDup /\ lost \in BOOLEAN /\ now \in 0..MaxTime
    /\ RoundTimesAddUp

LEMMA ClockTime ==
    ASSUME now \in 0..MaxTime
    PROVE  clock_time \in Times
<1>1. CLOCK_WRAP \in Nat \ {0} /\ now \in Int
  BY NetworkAssumption
<1>2. now % CLOCK_WRAP \in Int /\ 0 <= now % CLOCK_WRAP /\ now % CLOCK_WRAP < CLOCK_WRAP
  BY <1>1, DivMod
<1> QED
  BY <1>1, <1>2 DEF clock_time, Times

LEMMA ElapsedTime ==
    ASSUME NEW a \in Times, NEW b \in Times
    PROVE  Elapsed(a, b) \in Times
<1>1. CLOCK_WRAP \in Nat \ {0} /\ a - b \in Int
  BY NetworkAssumption DEF Times
<1>2. (a - b) % CLOCK_WRAP \in Int /\ 0 <= (a - b) % CLOCK_WRAP /\ (a - b) % CLOCK_WRAP < CLOCK_WRAP
  BY <1>1, DivMod
<1> QED
  BY <1>1, <1>2 DEF Elapsed, Times

\* START begins anew, STOP adds its difference and moves ct, DONE adds nothing.
LEMMA HandlerAddsUp ==
    ASSUME TimesInv, NEW type \in {"START", "STOP", "DONE"}
    PROVE  LET r == router_tcpip_handler(router, type)
           IN  /\ r \in RouterStates /\ r.next = router.next
               /\ r.total % CLOCK_WRAP = (r.ct - r.ct2) % CLOCK_WRAP
<1> DEFINE t == clock_time
           diff == Elapsed(t, router.ct)
           r == router_tcpip_handler(router, type)
<1>1. router \in RouterStates
  BY DEF TimesInv
<1>2. router.ct \in Times /\ router.ct2 \in Times /\ router.total \in Nat
  BY <1>1 DEF RouterStates
<1>3. t \in Times
  BY ClockTime DEF TimesInv
<1>4. diff \in Times
  BY <1>2, <1>3, ElapsedTime
<1>5. CLOCK_WRAP \in Nat \ {0}
  BY NetworkAssumption
<1>6. \A x \in Times : x \in Nat
  BY <1>5 DEF Times
<1>7. router.total % CLOCK_WRAP = (router.ct - router.ct2) % CLOCK_WRAP
  BY DEF TimesInv, RoundTimesAddUp
<1> HIDE DEF t
<1>8. t \in Nat /\ router.ct \in Nat /\ router.ct2 \in Nat
  BY <1>2, <1>3, <1>6
<1>9. diff = (t - router.ct) % CLOCK_WRAP
  BY DEF Elapsed
<1> HIDE DEF diff, r
<1>10. diff \in Nat
  BY <1>4, <1>6
<1>11. CASE type = "START"
  <2>1. r = [[router EXCEPT !.cnt = 0] EXCEPT !.ct = t, !.ct2 = t, !.total = 0]
    BY <1>11 DEF router_tcpip_handler, t, r
  <2>2. r \in RouterStates /\ r.next = router.next /\ r.total = 0 /\ r.ct = t /\ r.ct2 = t
    BY <1>1, <1>3, <2>1 DEF RouterStates
  <2>3. r.ct - r.ct2 = 0
    BY <1>8, <2>2
  <2> QED
    BY <2>2, <2>3 DEF r
<1>12. CASE type = "STOP"
  <2> DEFINE sum == router.total + diff
  <2>1. r = [[router EXCEPT !.cnt = 0] EXCEPT !.time_diff = diff, !.ct = t, !.total = sum]
    BY <1>12, <1>1 DEF router_tcpip_handler, t, diff, r, RouterStates
  <2> HIDE DEF sum
  <2>2. sum \in Nat
    BY <1>2, <1>10 DEF sum
  <2>3. sum % CLOCK_WRAP = (t - router.ct2) % CLOCK_WRAP
    <3>1. t \in Int /\ router.ct \in Int /\ router.ct2 \in Int /\ router.total \in Int
      BY <1>2, <1>8
    <3>2. (router.total + ((t - router.ct) % CLOCK_WRAP)) % CLOCK_WRAP
            = (t - router.ct2) % CLOCK_WRAP
      BY <1>5, <1>7, <3>1, AddUp
    <3> QED
      BY <1>9, <3>2 DEF sum
  <2>4. r \in RouterStates /\ r.next = router.next /\ r.total = sum /\ r.ct = t
        /\ r.ct2 = router.ct2
    BY <1>1, <1>3, <1>4, <2>1, <2>2 DEF RouterStates
  <2> QED
    BY <2>3, <2>4 DEF r
<1>13. CASE type = "DONE"
  <2>1. r = [router EXCEPT !.cnt = 0]
    BY <1>13 DEF router_tcpip_handler, r
  <2>2. r \in RouterStates /\ r.next = router.next /\ r.total = router.total
        /\ r.ct = router.ct /\ r.ct2 = router.ct2
    BY <1>1, <2>1 DEF RouterStates
  <2> QED
    BY <1>7, <2>2 DEF r
<1> QED
  BY <1>11, <1>12, <1>13

LEMMA InitTimes == Init => TimesInv
<1> SUFFICES ASSUME Init PROVE TimesInv
  OBVIOUS
<1>1. CLOCK_WRAP \in Nat \ {0} /\ MaxDup \in Nat /\ MaxTime \in Nat
  BY NetworkAssumption
<1>2. router = [next |-> 1, cnt |-> 1, ct |-> 0, ct2 |-> 0, time_diff |-> 0, total |-> 0]
  BY DEF Init
<1>3. 0 \in Times
  BY <1>1 DEF Times
<1>4. router \in RouterStates /\ router.next >= 1
  BY <1>2, <1>3 DEF RouterStates
<1>5. RoundTimesAddUp
  BY <1>2 DEF RoundTimesAddUp
<1>6. heard \subseteq Motes /\ lost \in BOOLEAN
  BY DEF Init
<1>7. dups \in 0..MaxDup /\ now \in 0..MaxTime
  BY <1>1 DEF Init
<1> QED
  BY <1>4, <1>5, <1>6, <1>7 DEF TimesInv

LEMMA StepTimes == SessionInv /\ TimesInv /\ [Next]_vars => TimesInv'
<1> SUFFICES ASSUME SessionInv, TimesInv, [Next]_vars PROVE TimesInv'
  OBVIOUS
<1>1. log \in Seq(Commands) /\ net \subseteq Datagrams
  BY DEF SessionInv, RoundInv, OrderInv
<1>2. /\ router \in RouterStates /\ router.next \in Nat /\ router.next >= 1
      /\ heard \subseteq Motes /\ dups \in 0..MaxDup /\ lost \in BOOLEAN /\ now \in 0..MaxTime
      /\ router.total % CLOCK_WRAP = (router.ct - router.ct2) % CLOCK_WRAP
  BY DEF TimesInv, RoundTimesAddUp, RouterStates
<1>3. CASE router' = router /\ heard' \subseteq Motes /\ dups' \in 0..MaxDup
           /\ lost' \in BOOLEAN /\ now' \in 0..MaxTime
  BY <1>2, <1>3 DEF TimesInv, RoundTimesAddUp
<1>4. CASE Start
  BY <1>2, <1>3, <1>4 DEF Start
<1>5. ASSUME NEW m \in net, RecvReply(m) PROVE TimesInv'
  <2>1. m.addr \in Motes
    BY <1>1 DEF Datagrams
  <2>2. heard' \subseteq Motes
    BY <1>2, <1>5, <2>1 DEF RecvReply
  <2> QED
    BY <1>2, <1>3, <1>5, <2>2 DEF RecvReply
<1>6. ASSUME NEW m \in net, udp_secreq_callback(m) \/ LoopBack(m) PROVE TimesInv'
  BY <1>2, <1>3, <1>6 DEF udp_secreq_callback, LoopBack
<1>7. ASSUME NEW m \in net, Duplicate(m) PROVE TimesInv'
  <2>1. dups' \in 0..MaxDup
    BY <1>2, <1>7, NetworkAssumption DEF Duplicate
  <2> QED
    BY <1>2, <1>3, <1>7, <2>1 DEF Duplicate
<1>8. ASSUME NEW m \in net, Lose(m) PROVE TimesInv'
  BY <1>2, <1>3, <1>8 DEF Lose
<1>9. CASE RouterReceive
  <2> DEFINE r == router_tcpip_handler(router, log[router.next].type)
  <2>1. log[router.next].type \in {"START", "STOP", "DONE"}
    <3>1. router.next \in 1..Len(log)
      BY <1>1, <1>2, <1>9 DEF RouterReceive
    <3>2. log[router.next] \in Commands
      BY <1>1, <3>1
    <3> QED
      BY <3>2 DEF Commands
  <2>2. r \in RouterStates /\ r.next = router.next
        /\ r.total % CLOCK_WRAP = (r.ct - r.ct2) % CLOCK_WRAP
    BY <2>1, HandlerAddsUp
  <2>3. router' = [r EXCEPT !.next = r.next + 1]
    BY <1>9 DEF RouterReceive
  <2> HIDE DEF r
  <2>4. r.next + 1 \in Nat /\ r.next + 1 >= 1
    BY <1>2, <2>2
  <2>5. router' \in RouterStates /\ router'.next >= 1 /\ router'.total = r.total
        /\ router'.ct = r.ct /\ router'.ct2 = r.ct2
    BY <2>2, <2>3, <2>4 DEF RouterStates
  <2>6. heard' = heard /\ dups' = dups /\ lost' = lost /\ now' = now
    BY <1>9 DEF RouterReceive
  <2> QED
    BY <1>2, <2>2, <2>5, <2>6 DEF TimesInv, RoundTimesAddUp
<1>10. CASE RouterLose
  <2>1. router' = [router EXCEPT !.next = router.next + 1]
    BY <1>10 DEF RouterLose
  <2>2. router.next + 1 \in Nat /\ router.next + 1 >= 1
    BY <1>2
  <2>3. router' \in RouterStates /\ router'.next >= 1 /\ router'.total = router.total
        /\ router'.ct = router.ct /\ router'.ct2 = router.ct2
    BY <1>2, <2>1, <2>2 DEF RouterStates
  <2>4. heard' = heard /\ dups' = dups /\ lost' = TRUE /\ now' = now
    BY <1>10 DEF RouterLose
  <2> QED
    BY <1>2, <2>3, <2>4 DEF TimesInv, RoundTimesAddUp
<1>11. CASE Tick
  <2>1. now' \in 0..MaxTime
    BY <1>2, <1>11, NetworkAssumption DEF Tick
  <2> QED
    BY <1>2, <1>3, <1>11, <2>1 DEF Tick
<1>12. CASE UNCHANGED vars
  BY <1>2, <1>3, <1>12 DEF vars
<1> QED
  BY <1>4, <1>5, <1>6, <1>7, <1>8, <1>9, <1>10, <1>11, <1>12 DEF Next

LEMMA TimesInvariant == Spec => []TimesInv
  BY InitTimes, StepTimes, SessionInvariant, PTL DEF Spec

-----------------------------------------------------------------------------
(* The counter of main() *)

\* What the bound of TypeOK needs: the first line is begun from 0.
CountInv ==
    /\ verifier.pc = "start" => verifier.line = 0 /\ verifier.recv_count = 0
    /\ verifier.pc = "loop" /\ verifier.file =>
          verifier.recv_count < verifier.sec_client_count

LEMMA SendFile ==
    ASSUME NEW s \in VerifierTypes
    PROVE  send_req_single_node(s).st.file = s.file
  BY DEF send_req_single_node, VerifierTypes

\* A line that has just been read has an id, and no answer is counted.
LEMMA LineCount ==
    ASSUME NEW s \in VerifierTypes, s.line + 1 \in 1..Len(Lines), s.recv_count = 0,
           s.pc = "loop", verifier' = read_line_send_req(s).st
    PROVE  CountInv'
<1> DEFINE l == s.line + 1
           n == Len(Lines[l].ids)
<1>1. verifier'.pc = "loop" /\ verifier'.sec_client_count = n /\ verifier'.recv_count = 0
  BY NextLine
<1>2. \A j \in 1..Len(Lines) : Len(Lines[j].ids) \in 1..150
  BY Zenon, LinesAssumption
<1>3. n \in 1..150
  BY <1>2
<1> HIDE DEF n
<1> QED
  BY <1>1, <1>3 DEF CountInv

LEMMA StartCount ==
    ASSUME verifier \in VerifierTypes, CountInv, Start
    PROVE  CountInv'
<1> DEFINE s == [verifier EXCEPT !.pc = "loop"]
           s1 == [s EXCEPT !.start_sent = TRUE, !.node_addr = <<6>>, !.node_index = 0]
<1>1. verifier.line = 0 /\ verifier.recv_count = 0
  BY DEF CountInv, Start
<1>2. /\ s \in VerifierTypes /\ s.pc = "loop" /\ s.line = 0 /\ s.recv_count = 0
      /\ s.file = verifier.file
  BY <1>1 DEF VerifierTypes
<1>3. CASE s.file /\ Len(Lines) = 0
  <2>1. verifier' = [s EXCEPT !.pc = "exit"]
    BY <1>3 DEF Start
  <2>2. verifier'.pc = "exit"
    BY <1>2, <2>1 DEF VerifierTypes
  <2> QED
    BY <2>2 DEF CountInv
<1>4. CASE s.file /\ Len(Lines) # 0
  <2>1. verifier' = read_line_send_req(s).st
    BY <1>4 DEF Start
  <2>2. Len(Lines) \in Nat
    BY LinesAssumption
  <2> HIDE DEF s
  <2>3. s.line + 1 \in 1..Len(Lines)
    BY <1>2, <1>4, <2>2
  <2> QED
    BY <1>2, <2>1, <2>3, LineCount
<1>5. CASE ~s.file
  <2>1. verifier' = send_req_single_node(s1).st
    BY <1>5 DEF Start, send_unicast_second_round_req
  <2> HIDE DEF s
  <2>2. s1 \in VerifierTypes /\ s1.file = s.file /\ s1.pc = "loop"
    <3>1. <<6>> \in Seq(Id)
      BY DEF Id
    <3> QED
      BY <1>2, <3>1 DEF VerifierTypes
  <2> HIDE DEF s1
  <2>3. verifier'.file = s.file /\ verifier'.pc = "loop"
    BY <2>1, <2>2, SendFile, SendOne
  <2> QED
    BY <1>5, <2>3 DEF CountInv
<1> QED
  BY <1>3, <1>4, <1>5

LEMMA ReplyCount ==
    ASSUME verifier \in VerifierTypes, CountInv, NEW m \in net, RecvReply(m)
    PROVE  CountInv'
<1> DEFINE s == [verifier EXCEPT !.recv_count = @ + 1]
           s0 == line_done(s)
           more == send_req_single_node(s)
<1>1. verifier.pc = "loop" /\ verifier.recv_count + 1 \in Nat
  BY DEF RecvReply, VerifierTypes
<1>2. /\ s \in VerifierTypes /\ s.pc = "loop" /\ s.line = verifier.line /\ s.line \in Nat
      /\ s.file = verifier.file /\ s.recv_count = verifier.recv_count + 1
      /\ s.sec_client_count = verifier.sec_client_count
  BY <1>1 DEF VerifierTypes
<1>3. s0 \in VerifierTypes /\ s0.pc = "loop" /\ s0.line = s.line /\ s0.recv_count = 0
  <2> HIDE DEF s
  <2> QED
    BY <1>2 DEF VerifierTypes, line_done
<1>4. CASE s.sec_client_count = s.recv_count /\ s.line < Len(Lines)
           /\ verifier' = read_line_send_req(s0).st
  <2>1. Len(Lines) \in Nat
    BY LinesAssumption
  <2> HIDE DEF s, s0
  <2>2. s0.line + 1 \in 1..Len(Lines)
    BY <1>2, <1>3, <1>4, <2>1
  <2> QED
    BY <1>3, <1>4, <2>2, LineCount
<1>5. CASE verifier' = [s0 EXCEPT !.pc = "exit", !.line = s0.line + 1]
  <2> HIDE DEF s0
  <2>1. verifier'.pc = "exit"
    BY <1>3, <1>5 DEF VerifierTypes
  <2> QED
    BY <2>1 DEF CountInv
<1>6. CASE s.sec_client_count # s.recv_count /\ verifier' \in {s, more.st}
  <2> HIDE DEF s
  <2>1. /\ more.st.pc = s.pc /\ more.st.file = s.file /\ more.st.recv_count = s.recv_count
        /\ more.st.sec_client_count = s.sec_client_count
    BY <1>2, SendOne, SendFile
  <2> HIDE DEF more
  <2>2. /\ verifier'.pc = "loop" /\ verifier'.file = verifier.file
        /\ verifier'.recv_count = verifier.recv_count + 1
        /\ verifier'.sec_client_count = verifier.sec_client_count
        /\ verifier.sec_client_count # verifier.recv_count + 1
    BY <1>2, <1>6, <2>1
  <2>3. verifier.recv_count \in Nat /\ verifier.sec_client_count \in Nat
    BY DEF VerifierTypes
  <2> QED
    BY <1>1, <2>2, <2>3 DEF CountInv
<1> QED
  BY <1>4, <1>5, <1>6 DEF RecvReply

LEMMA StepCount == SessionInv /\ CountInv /\ [Next]_vars => CountInv'
<1> SUFFICES ASSUME SessionInv, CountInv, [Next]_vars PROVE CountInv'
  OBVIOUS
<1>1. verifier \in VerifierTypes
  BY DEF SessionInv, RoundInv, OrderInv
<1>2. ASSUME verifier' = verifier PROVE CountInv'
  BY <1>2 DEF CountInv
<1>3. ASSUME NEW m \in net,
             udp_secreq_callback(m) \/ LoopBack(m) \/ Duplicate(m) \/ Lose(m)
      PROVE  CountInv'
  BY <1>2, <1>3 DEF udp_secreq_callback, LoopBack, Duplicate, Lose
<1>4. CASE RouterReceive \/ RouterLose \/ Tick \/ UNCHANGED vars
  BY <1>2, <1>4 DEF RouterReceive, RouterLose, Tick, vars
<1> QED
  BY <1>1, <1>3, <1>4, StartCount, ReplyCount DEF Next

LEMMA CountInvariant == Spec => []CountInv
<1>1. Init => CountInv
  BY DEF Init, CountInv
<1> QED
  BY <1>1, StepCount, SessionInvariant, PTL DEF Spec

-----------------------------------------------------------------------------
\* The border router's reports add up to the time since START, for any clock
\* that wraps, whatever is lost and whatever is repeated (tcpip_handler moves ct
\* with each STOP).
THEOREM RoundTimes == Spec => []RoundTimesAddUp
<1>1. TimesInv => RoundTimesAddUp
  BY DEF TimesInv
<1> QED
  BY <1>1, TimesInvariant, PTL

\* The globals of sec_server.c and of the border router keep their types, for
\* every map and every file; and while a line is polled recv_count stays below
\* sec_client_count, whatever is duplicated, so that main() cannot miss it.
THEOREM TypeCorrect == Spec => []TypeOK
<1>1. SessionInv /\ TimesInv /\ CountInv => TypeOK
  <2> SUFFICES ASSUME SessionInv, TimesInv, CountInv PROVE TypeOK
    OBVIOUS
  <2>1. verifier \in VerifierTypes /\ log \in Seq(Commands) /\ net \subseteq Datagrams
    BY DEF SessionInv, RoundInv, OrderInv
  <2> QED
    BY <2>1 DEF TypeOK, TimesInv, CountInv, VerifierTypes, Commands, Id, RouterStates, Times
<1> QED
  BY <1>1, TimesInvariant, CountInvariant, SessionInvariant, PTL
=============================================================================
