------------------------------- MODULE Httpd --------------------------------
(***************************************************************************)
(* The web server of the border router: httpd-simple.c, and the page that  *)
(* generate_routes of border-router.c makes for it.                        *)
(*                                                                         *)
(* A connection has a block of the pool conns from uip_connected() until   *)
(* the stack reports its end.  The page goes out in segments; each         *)
(* SEND_STRING blocks the connection's protothreads until its segment is   *)
(* acknowledged, while buf, blen, nbr and r are static, so that all        *)
(* connections share them.                                                 *)
(*                                                                         *)
(* The TCP stack is external.  It reports the end of every connection it   *)
(* has told the server of, but for one that the server has closed and the  *)
(* peer has not: waiting for the peer's FIN (FIN_WAIT_2) the stack drops   *)
(* the connection without a word.  When the peer closes first the end is   *)
(* reported twice: at the FIN, and when the stack's FIN is acknowledged.   *)
(***************************************************************************)
EXTENDS Integers, Sequences, SequencesExt, FiniteSetsExt

CONSTANTS
    Connections,   \* connections that peers open, each of them once
    CONNS,         \* blocks in the pool
    NumNbrs,       \* neighbours of the border router
    NbrEnd,        \* NbrEnd[k]: length of the lines of neighbours 1..k
    NumRoutes,     \* its routes
    RouteLen       \* RouteLen[k]: length of the line of route k

\* A line of a neighbour is an address, of 2 to 39 characters, and a newline;
\* that of a route two addresses, its length and its lifetime.
ASSUME PageAssumption ==
    /\ CONNS \in Nat /\ NumNbrs \in Nat /\ NumRoutes \in Nat
    /\ NbrEnd \in [0..NumNbrs -> Nat]
    /\ \A k \in 1..NumNbrs : NbrEnd[k] - NbrEnd[k - 1] \in 3..40
    /\ RouteLen \in [1..NumRoutes -> 1..102]

VARIABLES
    conn,     \* connections: the stack's state, and the block
    memb,     \* blocks of the pool that are allocated
    st,       \* the blocks: struct httpd_state
    page,     \* static variables of generate_routes
    client,   \* what a peer has got; alone: no other page was made meanwhile
    robbed    \* has a second report freed a block that had a new owner?

hvars == <<conn, memb, st, page, client, robbed>>

Blocks == 1..CONNS

-----------------------------------------------------------------------------
(* generate_routes.  An item stands for a piece of text.                   *)

Item(what, k) == <<what, k>>
Items(what, i, j) == [n \in 1..(j - i + 1) |-> Item(what, i + n - 1)]

BUF == 256    \* sizeof(buf)

\* Mutant: the buffer is only flushed when it is nearly full.
FlushMark_Late == BUF - 5

\* Past this mark the neighbours' loop flushes the buffer.
FlushMark == BUF - 45

\* ADD of text of this length: it ends the string in buf, which begins anew
\* when blen is 0.
ADD(p, items, len) ==
    [p EXCEPT !.blen = @ + len, !.buf = IF p.blen = 0 THEN items ELSE @ \o items]

\* blen = 0, after a SEND_STRING.
flushed(p) == [p EXCEPT !.blen = 0]

\* Mutant: the protothread goes on after a flush with the member after next.
list_next_Skip(i, n) == IF i = 0 \/ i + 1 >= n THEN 0 ELSE i + 2

\* list_item_next, for lists of n members; 0 is NULL.
list_next(i, n) == IF i = 0 \/ i = n THEN 0 ELSE i + 1
list_head(n) == IF n = 0 THEN 0 ELSE 1

\* Where the protothreads of a connection block: "idle" before the first send,
\* then one point for each SEND_STRING.  At BufPoints, buf is being sent.
BufPoints == {"nbrs", "nbrend", "routes", "end"}
Points == {"idle", "status", "type", "top", "bottom"} \cup BufPoints

\* A block with its output blocked at out.
At(out, p) == [out |-> out, page |-> p]

\* The loop over the neighbours from nbr on: it stops at the first line that
\* takes blen past the mark, or else at its end.
nbr_loop(p) ==
    LET length(k) == NbrEnd[k] - NbrEnd[p.nbr - 1]
        full == {k \in p.nbr..NumNbrs : p.blen + length(k) > FlushMark}
        upto(k) == [ADD(p, Items("nbr", p.nbr, k), length(k)) EXCEPT !.nbr = k]
        done(q) == At("nbrend", ADD([q EXCEPT !.nbr = 0], <<Item("mid", 0)>>, 18))
    IN  IF p.nbr = 0 THEN done(p)
        ELSE IF full = {} THEN done(upto(NumNbrs))
        ELSE At("nbrs", upto(Min(full)))

\* One round of the loop over the routes, each sent by itself, or its end.
route_loop(p) ==
    IF p.r = 0 THEN At("end", ADD(p, <<Item("end", 0)>>, 6))
    ELSE At("routes", ADD(p, <<Item("route", p.r)>>, RouteLen[p.r]))

\* generate_routes goes on when its segment has been acknowledged.
generate_routes(out, p) ==
    LET q == flushed(p)
    IN  CASE out = "top"    -> nbr_loop([ADD(q, <<Item("head", 0)>>, 14) EXCEPT
                                            !.nbr = list_head(NumNbrs)])
          [] out = "nbrs"   -> nbr_loop([q EXCEPT !.nbr = list_next(p.nbr, NumNbrs)])
          [] out = "nbrend" -> route_loop([q EXCEPT !.r = list_head(NumRoutes)])
          [] out = "routes" -> route_loop([q EXCEPT !.r = list_next(p.r, NumRoutes)])
          [] out = "end"    -> At("bottom", p)

-----------------------------------------------------------------------------
(* httpd-simple.c *)

\* What the segment sent from out carries; a retransmission reads buf again.
Segment(out, p) ==
    CASE out = "idle"        -> <<>>
      [] out \in BufPoints   -> p.buf
      [] OTHER               -> <<Item(out, 0)>>

\* handle_output, when it starts or its segment has been acknowledged: the
\* headers, the page, and the end, where the protothread begins anew.
\* httpd_simple_get_script never returns NULL.
handle_output(out, p) ==
    CASE out = "idle"   -> At("status", p)
      [] out = "status" -> At("type", p)
      [] out = "type"   -> At("top", p)
      [] out = "bottom" -> At("idle", p)
      [] OTHER          -> generate_routes(out, p)

\* What the stack tells the server of a segment: how many more of the two
\* words handle_input reads it completes, whether they are "GET " and a path,
\* and the flags.
Event(words, good, acked, rexmit) ==
    [words |-> words, good |-> good, acked |-> acked, rexmit |-> rexmit]
Nothing == Event(0, TRUE, FALSE, FALSE)

\* handle_input, then handle_output once the path is read (STATE_OUTPUT).
\* in counts the words read.  A word that is wrong closes the connection.
handle_connection(s, p, ev) ==
    LET in == s.in + ev.words
        go == in = 2 /\ ev.good /\ (s.out = "idle" \/ ev.acked)
        o == IF go THEN handle_output(s.out, p) ELSE At(s.out, p)
    IN  [s     |-> [s EXCEPT !.in = IF ev.good THEN in ELSE 0, !.out = o.out],
         page  |-> o.page,
         tx    |-> IF go \/ (in = 2 /\ ev.good /\ ev.rexmit)
                   THEN Segment(o.out, o.page) ELSE <<>>,
         close |-> ~ev.good \/ (go /\ s.out = "bottom")]

Fresh == [in |-> 0, out |-> "idle", expired |-> FALSE]

-----------------------------------------------------------------------------
New == [tcp |-> "new", s |-> 0, unacked |-> FALSE]
Gone == [New EXCEPT !.tcp = "gone"]

Unseen == [got |-> <<>>, seg |-> <<>>, alone |-> TRUE]
Spoiled == [Unseen EXCEPT !.alone = FALSE]

HInit ==
    /\ conn = [c \in Connections |-> New]
    /\ memb = {}
    /\ st = [b \in Blocks |-> Fresh]
    /\ page = [nbr |-> 0, r |-> 0, blen |-> 0, buf |-> <<>>]
    /\ client = [c \in Connections |-> Unseen]
    /\ robbed = FALSE

Live(c) == conn[c].tcp \in {"open", "closing"}

\* What peers have got after c's event: an acknowledgement is for what was sent
\* first or for a retransmission.  Pages being sent from buf are spoiled when
\* another connection writes it.
Seen(c, ev, h) ==
    LET mine == client[c]
        got == IF ev.acked THEN mine.got \o mine.seg ELSE mine.got
        seg == IF h.tx # <<>> THEN h.tx ELSE IF ev.acked THEN <<>> ELSE mine.seg
        spoils(d) == d # c /\ Live(d) /\ h.page # page /\ st[conn[d].s].out \in BufPoints
    IN  \E carried \in IF ev.rexmit THEN {mine.seg, h.tx} ELSE {seg} :
          client' = [d \in Connections |->
             IF d # c THEN IF spoils(d) THEN Spoiled ELSE client[d]
             ELSE IF mine.alone THEN [mine EXCEPT !.got = got, !.seg = carried]
             ELSE mine]

\* handle_connection for c, on block b holding s.
Handle(c, b, s, ev) ==
    LET h == handle_connection(s, page, ev)
        k == conn[c]
    IN  /\ st' = [st EXCEPT ![b] = h.s]
        /\ page' = h.page
        /\ conn' = [conn EXCEPT ![c] =
              [k EXCEPT !.tcp = IF h.close THEN "closing" ELSE "open", !.s = b,
                        !.unacked = h.tx # <<>> \/ (@ /\ ~ev.acked)]]
        /\ Seen(c, ev, h)

\* What a segment can complete of the request line of s.
Reads(n) == {ev \in [words : 0..n, good : BOOLEAN, acked : {FALSE}, rexmit : {FALSE}] :
                ev.words > 0 \/ ev.good}

\* Mutant: handle_input begins again with every segment.
Words_Again(s) == Reads(2)

Words(s) == Reads(2 - s.in)

-----------------------------------------------------------------------------
(* httpd_appcall, by the event reported.                                   *)

\* uip_connected(): without a free block, the connection is aborted.
Connected(c) ==
    /\ conn[c].tcp = "new"
    /\ LET free == Blocks \ memb
       IN  IF free = {}
           THEN /\ conn' = [conn EXCEPT ![c] = Gone]
                /\ UNCHANGED <<memb, st, page, client>>
           ELSE /\ memb' = memb \cup {Min(free)}
                /\ \E ev \in Words(Fresh) : Handle(c, Min(free), Fresh, ev)
    /\ UNCHANGED robbed

\* Every event but a poll restarts the timer.
Restarted(b) == [st[b] EXCEPT !.expired = FALSE]

\* uip_newdata(), with or without an acknowledgement.
NewData(c) ==
    /\ conn[c].tcp = "open"
    /\ LET b == conn[c].s
       IN  \E ev \in Words(st[b]), acked \in {FALSE, conn[c].unacked} :
              Handle(c, b, Restarted(b), [ev EXCEPT !.acked = acked])
    /\ UNCHANGED <<memb, robbed>>

\* uip_acked(), without data.
Acked(c) ==
    /\ conn[c].tcp = "open" /\ conn[c].unacked
    /\ LET b == conn[c].s IN Handle(c, b, Restarted(b), Event(0, TRUE, TRUE, FALSE))
    /\ UNCHANGED <<memb, robbed>>

\* uip_rexmit()
Rexmit(c) ==
    /\ conn[c].tcp = "open" /\ conn[c].unacked
    /\ LET b == conn[c].s IN Handle(c, b, Restarted(b), Event(0, TRUE, FALSE, TRUE))
    /\ UNCHANGED <<memb, robbed>>

\* Mutant: the block is freed, but the connection is not aborted.
timed_out_Open(k) == k

\* uip_abort(): the stack forgets the connection, and does not report it.
timed_out(k) == Gone

\* Mutant: the timer is set again by the poll that looks at it.
timer_expired_Never(s) == FALSE

timer_expired(s) == s.expired

\* uip_poll(), when nothing is outstanding: after 10 seconds without another
\* event the block is freed; handle_connection runs, on the freed block too.
Poll(c) ==
    /\ conn[c].tcp = "open" /\ ~conn[c].unacked
    /\ LET b == conn[c].s
           h == handle_connection(st[b], page, Nothing)
           late == timer_expired(st[b])
       IN  /\ st' = [st EXCEPT ![b] = h.s]
           /\ page' = h.page
           /\ memb' = IF late THEN memb \ {b} ELSE memb
           /\ conn' = [conn EXCEPT ![c] = IF late THEN timed_out(@) ELSE @]
           /\ client' = IF late THEN [client EXCEPT ![c] = Unseen] ELSE client
    /\ UNCHANGED robbed

\* uip_closed(), uip_aborted() or uip_timedout().
Ended(c) ==
    /\ Live(c)
    /\ memb' = memb \ {conn[c].s}
    /\ \/ conn' = [conn EXCEPT ![c] = Gone]
       \/ /\ conn[c].tcp = "open"
          /\ conn' = [conn EXCEPT ![c] = [Gone EXCEPT !.tcp = "half-closed", !.s = conn[c].s]]
    /\ client' = [client EXCEPT ![c] = Unseen]
    /\ UNCHANGED <<st, page, robbed>>

\* The stack drops a connection in FIN_WAIT_2, after its own timeout.  The server
\* is not called, and nobody will free the block.
Dropped(c) ==
    /\ conn[c].tcp = "closing"
    /\ conn' = [conn EXCEPT ![c] = [Gone EXCEPT !.tcp = "dropped", !.s = conn[c].s]]
    /\ client' = [client EXCEPT ![c] = Unseen]
    /\ UNCHANGED <<memb, st, page, robbed>>

\* uip_closed() again, with the same block.
EndedAgain(c) ==
    /\ conn[c].tcp = "half-closed"
    /\ memb' = memb \ {conn[c].s}
    /\ conn' = [conn EXCEPT ![c] = Gone]
    /\ robbed' = (robbed \/ conn[c].s \in memb)
    /\ UNCHANGED <<st, page, client>>

\* Ten seconds pass for the timer of a block.
TimerRuns(b) ==
    /\ ~st[b].expired /\ \E c \in Connections : Live(c) /\ conn[c].s = b
    /\ st' = [st EXCEPT ![b].expired = TRUE]
    /\ UNCHANGED <<conn, memb, page, client, robbed>>

-----------------------------------------------------------------------------
HNext ==
    \/ \E c \in Connections :
          \/ Connected(c) \/ NewData(c) \/ Acked(c) \/ Rexmit(c)
          \/ Poll(c) \/ Ended(c) \/ Dropped(c) \/ EndedAgain(c)
    \/ \E b \in Blocks : TimerRuns(b)

\* The stack polls a connection that waits for nothing, has a segment
\* acknowledged or gives up on it, and gets to the end of a closed one or drops
\* it.  Nothing is assumed of a peer.
HFairness ==
    /\ \A c \in Connections :
          /\ WF_hvars(Poll(c))
          /\ WF_hvars(conn[c].unacked /\ (Acked(c) \/ Ended(c)))
          /\ WF_hvars(conn[c].tcp = "closing" /\ (Ended(c) \/ Dropped(c)))
    /\ \A b \in Blocks : WF_hvars(TimerRuns(b))

HSpec == HInit /\ [][HNext]_hvars
HFairSpec == HSpec /\ HFairness

-----------------------------------------------------------------------------
HTypeOK ==
    /\ conn \in [Connections -> [tcp : {"new", "open", "closing", "half-closed", "dropped", "gone"},
                                 s : 0..CONNS, unacked : BOOLEAN]]
    /\ memb \subseteq Blocks
    /\ st \in [Blocks -> [in : 0..2, out : Points, expired : BOOLEAN]]
    /\ page.nbr \in 0..NumNbrs /\ page.r \in 0..NumRoutes /\ page.blen \in Nat
    /\ robbed \in BOOLEAN

\* Does c have a block: it is served on it, or was dropped with it.
Keeps(c) == Live(c) \/ conn[c].tcp = "dropped"

\* The pool and the connections agree: a block is allocated exactly while one
\* connection, and one only, is served on it, or for good once the stack has
\* dropped that connection in FIN_WAIT_2.  So that is the only way a block leaks,
\* and none is freed under a connection, even when a poll frees it and goes on
\* (httpd_appcall).  It takes a second report of an end to break this, and only
\* when the block has a new owner by then.
PoolExact ==
    ~robbed =>
        /\ memb = {conn[c].s : c \in {d \in Connections : Keeps(d)}}
        /\ \A c, d \in Connections : Keeps(c) /\ Keeps(d) /\ conn[c].s = conn[d].s => c = d

\* What the pages add to buf fits, with the NUL at its end, though they are made
\* of pieces of any of several connections, and blen belongs to all of them (ADD,
\* SEND_STRING).
BufferFits == page.blen < BUF

FullPage ==
    <<Item("status", 0), Item("type", 0), Item("top", 0), Item("head", 0)>>
    \o Items("nbr", 1, NumNbrs) \o <<Item("mid", 0)>>
    \o Items("route", 1, NumRoutes) \o <<Item("end", 0), Item("bottom", 0)>>

\* A peer gets the whole page, each neighbour and route once, also when
\* segments are sent again, unless another page was made meanwhile: "Multiple
\* connections can result in interleaved tcp segments" (border-router.c).
PageReceived ==
    ~robbed => \A c \in Connections : Live(c) /\ client[c].alone =>
        /\ IsPrefix(client[c].got, FullPage)
        /\ conn[c].tcp = "closing" /\ st[conn[c].s].in = 2 => client[c].got = FullPage

\* The server is done with every peer some time, whether that falls silent in the
\* middle of a request, never closes, or stops acknowledging - unless it goes on
\* sending: each segment restarts the timer (httpd_appcall), also one that the
\* server has no use for.  Done with is not freed: see PoolExact.
Released ==
    \A c \in Connections : []<><<NewData(c)>>_hvars \/ (Live(c) ~> ~Live(c))
=============================================================================
