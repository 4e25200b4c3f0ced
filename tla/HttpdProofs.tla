---------------------------- MODULE HttpdProofs -----------------------------
(***************************************************************************)
(* What TLAPS proves of Httpd.tla, for any number of connections, blocks,  *)
(* neighbours and routes: types, that the pool and the connections agree,  *)
(* that buf never overflows, and that a peer gets the page as it is.       *)
(***************************************************************************)
EXTENDS Httpd, WellFoundedInduction, TLAPS

NbrPos == 0..NumNbrs
RoutePos == 0..NumRoutes
Lengths == 0..(BUF - 1)

\* Nothing is said of buf.
IsPage(p) == p \in [nbr : NbrPos, r : RoutePos, blen : Lengths, buf : {p.buf}]

ConnStates == [tcp : {"new", "open", "closing", "half-closed", "dropped", "gone"},
               s : 0..CONNS, unacked : BOOLEAN]

BlockStates == [in : 0..2, out : Points, expired : BOOLEAN]

Events == [words : 0..2, good : BOOLEAN, acked : BOOLEAN, rexmit : BOOLEAN]

\* A block has room for the words an event brings.
Readable(s, ev) == ev \in Events /\ s.in + ev.words \in 0..2

\* A connection the server knows has a block.
Served(k) == k.tcp \in {"open", "closing", "half-closed", "dropped"} => k.s \in Blocks

\* The static variables are good for the next segment, whichever connection
\* sends it; and the pool.
HttpdInv ==
    /\ HTypeOK /\ IsPage(page) /\ PoolExact
    /\ \A c \in Connections : Served(conn[c])

-----------------------------------------------------------------------------
(* The least element of a set of naturals exists.                          *)

LessThan == {ss \in Nat \X Nat : ss[1] < ss[2]}

LEMMA LessThanWellFounded == IsWellFoundedOn(LessThan, Nat)
  BY NatLessThanWellFounded DEF OpToRel, LessThan

LEMMA MinOfNats ==
    ASSUME NEW S \in SUBSET Nat, S # {}
    PROVE  /\ Min(S) \in S
           /\ \A y \in S : Min(S) <= y
<1>1. PICK x \in S : \A y \in S : ~(<<y, x>> \in LessThan)
  BY LessThanWellFounded, WFMin
<1>2. ASSUME NEW y \in S PROVE x <= y
  <2>1. ~(<<y, x>> \in LessThan) /\ x \in Nat /\ y \in Nat
    BY <1>1
  <2>2. ~(y < x)
    BY <2>1 DEF LessThan
  <2> QED
    BY <2>1, <2>2
<1> QED
  BY <1>2 DEF Min

-----------------------------------------------------------------------------
(* The page *)

LEMMA PageFields ==
    ASSUME NEW p, IsPage(p)
    PROVE  /\ p.nbr \in Nat /\ p.nbr <= NumNbrs
           /\ p.r \in Nat /\ p.r <= NumRoutes
           /\ p.blen \in Nat /\ p.blen < BUF
<1>1. p.nbr \in NbrPos /\ p.r \in RoutePos /\ p.blen \in Lengths
  BY DEF IsPage
<1>2. NumNbrs \in Nat /\ NumRoutes \in Nat /\ BUF \in Nat
  BY PageAssumption DEF BUF
<1> QED
  BY <1>1, <1>2 DEF NbrPos, RoutePos, Lengths

LEMMA ZeroPos == 0 \in NbrPos /\ 0 \in RoutePos
  BY PageAssumption DEF NbrPos, RoutePos

\* The assignments that generate_routes makes keep the page well formed.
LEMMA PageUpdate ==
    ASSUME NEW p, IsPage(p), NEW x
    PROVE  /\ x \in NbrPos => /\ IsPage([p EXCEPT !.nbr = x])
                              /\ [p EXCEPT !.nbr = x].nbr = x
                              /\ [p EXCEPT !.nbr = x].blen = p.blen
           /\ x \in RoutePos => /\ IsPage([p EXCEPT !.r = x])
                                /\ [p EXCEPT !.r = x].r = x
                                /\ [p EXCEPT !.r = x].blen = p.blen
<1>1. ASSUME x \in NbrPos PROVE IsPage([p EXCEPT !.nbr = x])
  BY <1>1 DEF IsPage
<1>2. ASSUME x \in RoutePos PROVE IsPage([p EXCEPT !.r = x])
  BY <1>2 DEF IsPage
<1>3. [p EXCEPT !.nbr = x].nbr = x /\ [p EXCEPT !.nbr = x].blen = p.blen
  BY DEF IsPage
<1>4. [p EXCEPT !.r = x].r = x /\ [p EXCEPT !.r = x].blen = p.blen
  BY DEF IsPage
<1> QED
  BY <1>1, <1>2, <1>3, <1>4

LEMMA Flushed ==
    ASSUME NEW p, IsPage(p)
    PROVE  IsPage(flushed(p)) /\ flushed(p).blen = 0
<1>1. 0 \in Lengths
  BY DEF Lengths, BUF
<1> QED
  BY <1>1 DEF flushed, IsPage

\* ADD keeps the page well formed when its text fits.
LEMMA AddFits ==
    ASSUME NEW p, IsPage(p), NEW items, NEW len \in Nat, p.blen + len < BUF
    PROVE  /\ IsPage(ADD(p, items, len))
           /\ ADD(p, items, len).blen = p.blen + len
<1> DEFINE x == p.blen + len
           y == IF p.blen = 0 THEN items ELSE p.buf \o items
<1>1. x \in Lengths
  <2> HIDE DEF y
  <2>1. p.blen \in Nat
    BY PageFields
  <2>2. x \in Nat /\ x < BUF
    BY <2>1
  <2> HIDE DEF x
  <2> QED
    BY <2>2 DEF Lengths, BUF
<1>2. ADD(p, items, len) = [p EXCEPT !.blen = x, !.buf = y]
  BY DEF ADD
<1> HIDE DEF x, y
<1>3. [p EXCEPT !.blen = x, !.buf = y] \in [nbr : NbrPos, r : RoutePos, blen : Lengths, buf : {y}]
  BY <1>1 DEF IsPage
<1>4. [p EXCEPT !.blen = x, !.buf = y].buf = y /\ [p EXCEPT !.blen = x, !.buf = y].blen = x
  BY DEF IsPage
<1> QED
  BY <1>2, <1>3, <1>4 DEF IsPage, x

LEMMA Line ==
    ASSUME NEW k \in 1..NumNbrs
    PROVE  /\ NbrEnd[k] \in Nat /\ NbrEnd[k - 1] \in Nat
           /\ NbrEnd[k] - NbrEnd[k - 1] >= 3 /\ NbrEnd[k] - NbrEnd[k - 1] <= 40
<1>1. NumNbrs \in Nat
  BY PageAssumption
<1>2. k \in 0..NumNbrs /\ k - 1 \in 0..NumNbrs
  BY <1>1
<1>3. NbrEnd[k] \in Nat /\ NbrEnd[k - 1] \in Nat
  BY <1>2, PageAssumption
<1>4. NbrEnd[k] - NbrEnd[k - 1] \in 3..40
  BY PageAssumption
<1> QED
  BY <1>3, <1>4

\* NbrEnd grows: otherwise take the first place past j where it is less than
\* at j.
LEMMA LengthsGrow ==
    ASSUME NEW j \in 0..NumNbrs, NEW k \in j..NumNbrs
    PROVE  NbrEnd[j] <= NbrEnd[k]
<1> DEFINE S == {i \in j..NumNbrs : NbrEnd[i] < NbrEnd[j]}
<1>1. SUFFICES ASSUME S # {} PROVE FALSE
  <2>1. k \notin S
    BY <1>1
  <2>2. NbrEnd[j] \in Nat /\ NbrEnd[k] \in Nat
    BY PageAssumption
  <2> QED
    BY <2>1, <2>2
<1>2. S \in SUBSET Nat
  BY PageAssumption
<1> DEFINE m == Min(S)
<1>3. m \in S /\ \A y \in S : m <= y
  BY <1>1, <1>2, MinOfNats
<1> HIDE DEF m
<1>4. m \in j..NumNbrs /\ m # j /\ NbrEnd[m] < NbrEnd[j]
  BY <1>3, PageAssumption
<1>5. m \in 1..NumNbrs /\ m - 1 \in j..NumNbrs /\ m - 1 \in 0..NumNbrs
  BY <1>4, PageAssumption
<1>6. /\ NbrEnd[m] \in Nat /\ NbrEnd[m - 1] \in Nat
      /\ NbrEnd[m] - NbrEnd[m - 1] >= 3
  BY <1>5, Line
<1>7. NbrEnd[j] \in Nat
  BY PageAssumption
<1>8. m - 1 \in S
  BY <1>4, <1>5, <1>6, <1>7
<1> QED
  BY <1>3, <1>5, <1>8

\* The loop over the neighbours flushes buf in time: no line before the one it
\* stops at went past the mark, and that one has at most 40 characters.
LEMMA NbrLoopFits ==
    ASSUME NEW p, IsPage(p), p.blen <= 14
    PROVE  nbr_loop(p).out \in Points /\ IsPage(nbr_loop(p).page)
<1> DEFINE length(k) == NbrEnd[k] - NbrEnd[p.nbr - 1]
           full == {k \in p.nbr..NumNbrs : p.blen + length(k) > FlushMark}
           upto(k) == [ADD(p, Items("nbr", p.nbr, k), length(k)) EXCEPT !.nbr = k]
           done(q) == At("nbrend", ADD([q EXCEPT !.nbr = 0], <<Item("mid", 0)>>, 18))
<1>1. ASSUME NEW q, IsPage(q), q.blen <= FlushMark
      PROVE  done(q).out \in Points /\ IsPage(done(q).page)
  <2>1. IsPage([q EXCEPT !.nbr = 0]) /\ [q EXCEPT !.nbr = 0].blen = q.blen
    BY <1>1, ZeroPos, PageUpdate
  <2>2. [q EXCEPT !.nbr = 0].blen + 18 < BUF
    BY <1>1, <2>1, PageFields DEF FlushMark, BUF
  <2>3. IsPage(ADD([q EXCEPT !.nbr = 0], <<Item("mid", 0)>>, 18))
    BY <2>1, <2>2, AddFits
  <2> QED
    BY <2>3 DEF At, Points, BufPoints
<1>2. CASE p.nbr = 0
  <2>1. p.blen <= FlushMark
    BY PageFields DEF FlushMark, BUF
  <2>2. nbr_loop(p) = done(p)
    BY <1>2 DEF nbr_loop
  <2> QED
    BY <1>1, <2>1, <2>2
<1>3. CASE p.nbr # 0
  <2>1. p.nbr \in 1..NumNbrs /\ p.blen \in 0..14 /\ NumNbrs \in Nat
    <3>1. p.nbr \in Nat /\ p.nbr <= NumNbrs /\ p.blen \in Nat
      BY PageFields
    <3>2. NumNbrs \in Nat
      BY PageAssumption
    <3> QED
      BY <1>3, <3>1, <3>2
  <2>2. ASSUME NEW k \in p.nbr..NumNbrs
        PROVE  length(k) \in Nat
    <3>1. p.nbr - 1 \in 0..NumNbrs /\ k \in (p.nbr - 1)..NumNbrs /\ k \in 0..NumNbrs
      BY <2>1
    <3>2. NbrEnd[p.nbr - 1] <= NbrEnd[k]
      BY <3>1, LengthsGrow
    <3>3. NbrEnd[p.nbr - 1] \in Nat /\ NbrEnd[k] \in Nat
      BY <3>1, PageAssumption
    <3> QED
      BY <3>2, <3>3
  <2>3. ASSUME NEW k \in p.nbr..NumNbrs, length(k) \in Nat, p.blen + length(k) < BUF
        PROVE  /\ IsPage(upto(k)) /\ upto(k).nbr = k
               /\ upto(k).blen = p.blen + length(k)
    <3> DEFINE a == ADD(p, Items("nbr", p.nbr, k), length(k))
    <3>1. IsPage(a) /\ a.blen = p.blen + length(k)
      BY <2>3, AddFits
    <3>2. k \in NbrPos
      BY <2>1 DEF NbrPos
    <3> HIDE DEF a
    <3>3. IsPage([a EXCEPT !.nbr = k]) /\ [a EXCEPT !.nbr = k].nbr = k
          /\ [a EXCEPT !.nbr = k].blen = a.blen
      BY <3>1, <3>2, PageUpdate
    <3> QED
      BY <3>1, <3>3 DEF a
  <2>4. CASE full = {}
    <3>1. NumNbrs \in p.nbr..NumNbrs
      BY <2>1
    <3>2. p.blen + length(NumNbrs) <= FlushMark
      BY <2>1, <2>2, <2>4, <3>1 DEF FlushMark, BUF
    <3>3. length(NumNbrs) \in Nat
      BY <2>2, <3>1
    <3>4. p.blen + length(NumNbrs) < BUF
      BY <2>1, <3>2, <3>3 DEF FlushMark, BUF
    <3>5. IsPage(upto(NumNbrs)) /\ upto(NumNbrs).blen <= FlushMark
      BY <2>3, <3>1, <3>2, <3>3, <3>4
    <3>6. nbr_loop(p) = done(upto(NumNbrs))
      BY <1>3, <2>4 DEF nbr_loop
    <3> QED
      BY <1>1, <3>5, <3>6
  <2>5. CASE full # {}
    <3> DEFINE m == Min(full)
    <3>1. full \in SUBSET Nat
      BY <2>1
    <3>2. m \in full /\ \A y \in full : m <= y
      BY <2>5, <3>1, MinOfNats
    <3>3. nbr_loop(p) = At("nbrs", upto(m))
      BY <1>3, <2>5 DEF nbr_loop
    <3> HIDE DEF m
    <3>4. m \in p.nbr..NumNbrs /\ length(m) \in Nat
      BY <2>2, <3>2
    <3>5. p.blen + length(m) < BUF
      <4>1. /\ NbrEnd[m] \in Nat /\ NbrEnd[m - 1] \in Nat
            /\ NbrEnd[m] - NbrEnd[m - 1] <= 40
        <5>1. m \in 1..NumNbrs
          BY <2>1, <3>4
        <5> QED
          BY <5>1, Line
      <4>2. NbrEnd[p.nbr - 1] \in Nat
        BY <2>1, PageAssumption
      <4>3. CASE m = p.nbr
        BY <2>1, <4>1, <4>2, <4>3 DEF BUF
      <4>4. CASE m # p.nbr
        <5>1. m - 1 \in p.nbr..NumNbrs /\ m \in Nat /\ ~(m <= m - 1)
          BY <2>1, <3>4, <4>4
        <5>2. m - 1 \notin full
          BY <3>2, <5>1
        <5>3. length(m - 1) \in Nat
          BY <2>2, <5>1
        <5>4. p.blen + length(m - 1) <= FlushMark
          BY <2>1, <5>1, <5>2, <5>3 DEF FlushMark, BUF
        <5> QED
          BY <2>1, <4>1, <4>2, <5>4 DEF FlushMark, BUF
      <4> QED
        BY <4>3, <4>4
    <3>6. IsPage(upto(m))
      BY <2>3, <3>4, <3>5
    <3> QED
      BY <3>3, <3>6 DEF At, Points, BufPoints
  <2> QED
    BY <2>4, <2>5
<1> QED
  BY <1>2, <1>3

LEMMA RouteLoopFits ==
    ASSUME NEW p, IsPage(p), p.blen = 0
    PROVE  route_loop(p).out \in Points /\ IsPage(route_loop(p).page)
<1>1. CASE p.r = 0
  <2>1. p.blen + 6 < BUF
    BY DEF BUF
  <2>2. IsPage(ADD(p, <<Item("end", 0)>>, 6))
    BY <2>1, AddFits
  <2>3. route_loop(p) = At("end", ADD(p, <<Item("end", 0)>>, 6))
    BY <1>1 DEF route_loop
  <2> QED
    BY <2>2, <2>3 DEF At, Points, BufPoints
<1>2. CASE p.r # 0
  <2>1. p.r \in 1..NumRoutes
    <3>1. p.r \in Nat /\ p.r <= NumRoutes
      BY PageFields
    <3>2. NumRoutes \in Nat
      BY PageAssumption
    <3> QED
      BY <1>2, <3>1, <3>2
  <2>2. RouteLen[p.r] \in 1..102
    BY <2>1, PageAssumption
  <2>3. RouteLen[p.r] \in Nat /\ p.blen + RouteLen[p.r] < BUF
    BY <2>2 DEF BUF
  <2>4. IsPage(ADD(p, <<Item("route", p.r)>>, RouteLen[p.r]))
    BY <2>3, AddFits
  <2>5. route_loop(p) = At("routes", ADD(p, <<Item("route", p.r)>>, RouteLen[p.r]))
    BY <1>2 DEF route_loop
  <2> QED
    BY <2>4, <2>5 DEF At, Points, BufPoints
<1> QED
  BY <1>1, <1>2

LEMMA ListFits ==
    /\ list_head(NumNbrs) \in NbrPos /\ list_head(NumRoutes) \in RoutePos
    /\ \A i \in NbrPos : list_next(i, NumNbrs) \in NbrPos
    /\ \A i \in RoutePos : list_next(i, NumRoutes) \in RoutePos
  BY PageAssumption DEF list_head, list_next, NbrPos, RoutePos

\* Every segment of the page fits in buf, from whatever page was there.
LEMMA GenerateRoutesFits ==
    ASSUME NEW p, IsPage(p), NEW out \in BufPoints \cup {"top"}
    PROVE  /\ generate_routes(out, p).out \in Points
           /\ IsPage(generate_routes(out, p).page)
<1> DEFINE q == flushed(p)
<1>1. IsPage(q) /\ q.blen = 0
  BY Flushed
<1>2. p.nbr \in NbrPos /\ p.r \in RoutePos
  BY DEF IsPage
<1> HIDE DEF q
<1>3. CASE out = "top"
  <2> DEFINE a == ADD(q, <<Item("head", 0)>>, 14)
             n == [a EXCEPT !.nbr = list_head(NumNbrs)]
  <2>1. q.blen + 14 < BUF
    BY <1>1 DEF BUF
  <2>2. IsPage(a) /\ a.blen = q.blen + 14
    BY <1>1, <2>1, AddFits
  <2>3. generate_routes(out, p) = nbr_loop(n)
    BY <1>3 DEF generate_routes, q
  <2> HIDE DEF a
  <2>4. IsPage(n) /\ n.blen = a.blen
    BY <2>2, ListFits, PageUpdate
  <2> HIDE DEF n
  <2>5. n.blen <= 14
    BY <1>1, <2>2, <2>4
  <2> QED
    BY <2>3, <2>4, <2>5, NbrLoopFits
<1>4. CASE out = "nbrs"
  <2> DEFINE n == [q EXCEPT !.nbr = list_next(p.nbr, NumNbrs)]
  <2>1. generate_routes(out, p) = nbr_loop(n)
    BY <1>4 DEF generate_routes, q
  <2>2. list_next(p.nbr, NumNbrs) \in NbrPos
    BY <1>2, ListFits
  <2>3. IsPage(n) /\ n.blen = q.blen
    BY <1>1, <2>2, PageUpdate
  <2> HIDE DEF n
  <2>4. n.blen <= 14
    BY <1>1, <2>3
  <2> QED
    BY <2>1, <2>3, <2>4, NbrLoopFits
<1>5. CASE out = "nbrend"
  <2> DEFINE n == [q EXCEPT !.r = list_head(NumRoutes)]
  <2>1. generate_routes(out, p) = route_loop(n)
    BY <1>5 DEF generate_routes, q
  <2>2. IsPage(n) /\ n.blen = q.blen
    BY <1>1, ListFits, PageUpdate
  <2> HIDE DEF n
  <2>3. n.blen = 0
    BY <1>1, <2>2
  <2> QED
    BY <2>1, <2>2, <2>3, RouteLoopFits
<1>6. CASE out = "routes"
  <2> DEFINE n == [q EXCEPT !.r = list_next(p.r, NumRoutes)]
  <2>1. generate_routes(out, p) = route_loop(n)
    BY <1>6 DEF generate_routes, q
  <2>2. list_next(p.r, NumRoutes) \in RoutePos
    BY <1>2, ListFits
  <2>3. IsPage(n) /\ n.blen = q.blen
    BY <1>1, <2>2, PageUpdate
  <2> HIDE DEF n
  <2>4. n.blen = 0
    BY <1>1, <2>3
  <2> QED
    BY <2>1, <2>3, <2>4, RouteLoopFits
<1>7. CASE out = "end"
  BY <1>7 DEF generate_routes, At, Points
<1> QED
  BY <1>3, <1>4, <1>5, <1>6, <1>7 DEF BufPoints

LEMMA HandleOutputFits ==
    ASSUME NEW p, IsPage(p), NEW out \in Points
    PROVE  /\ handle_output(out, p).out \in Points
           /\ IsPage(handle_output(out, p).page)
<1>1. CASE out \in BufPoints \cup {"top"}
  <2>1. handle_output(out, p) = generate_routes(out, p)
    BY <1>1 DEF handle_output, BufPoints
  <2> QED
    BY <1>1, <2>1, GenerateRoutesFits
<1>2. CASE out \in {"idle", "status", "type", "bottom"}
  BY <1>2 DEF handle_output, At, Points
<1> QED
  BY <1>1, <1>2 DEF Points

LEMMA HandleConnectionFits ==
    ASSUME NEW p, IsPage(p), NEW s \in BlockStates, NEW ev, Readable(s, ev)
    PROVE  /\ handle_connection(s, p, ev).s \in BlockStates
           /\ IsPage(handle_connection(s, p, ev).page)
<1> DEFINE in == s.in + ev.words
           go == in = 2 /\ ev.good /\ (s.out = "idle" \/ ev.acked)
           o == IF go THEN handle_output(s.out, p) ELSE At(s.out, p)
           h == handle_connection(s, p, ev)
           left == IF ev.good THEN in ELSE 0
<1>1. s.out \in Points
  BY DEF BlockStates
<1>2. handle_output(s.out, p).out \in Points /\ IsPage(handle_output(s.out, p).page)
  BY <1>1, HandleOutputFits
<1>3. At(s.out, p).out = s.out /\ At(s.out, p).page = p
  BY DEF At
<1> HIDE DEF go
<1>4. o.out \in Points /\ IsPage(o.page)
  BY <1>1, <1>2, <1>3
<1>5. left \in 0..2
  BY DEF Readable
<1>6. h.s = [s EXCEPT !.in = left, !.out = o.out] /\ h.page = o.page
  BY DEF handle_connection, go
<1> HIDE DEF o, h, left
<1>7. h.s \in BlockStates
  BY <1>4, <1>5, <1>6 DEF BlockStates
<1> QED
  BY <1>4, <1>6, <1>7 DEF h

-----------------------------------------------------------------------------
(* The handler on a block *)

\* Handle touches one block and one connection, which is then served on it.
LEMMA HandleStep ==
    ASSUME HttpdInv, NEW c \in Connections, NEW b \in Blocks, NEW s \in BlockStates,
           NEW ev, Readable(s, ev), Handle(c, b, s, ev)
    PROVE  /\ st' \in [Blocks -> BlockStates]
           /\ IsPage(page')
           /\ conn' \in [Connections -> ConnStates]
           /\ conn'[c].tcp \in {"open", "closing"} /\ conn'[c].s = b
           /\ \A d \in Connections \ {c} : conn'[d] = conn[d]
<1> DEFINE h == handle_connection(s, page, ev)
           k == conn[c]
           tcp == IF h.close THEN "closing" ELSE "open"
           unacked == h.tx # <<>> \/ (k.unacked /\ ~ev.acked)
           new == [k EXCEPT !.tcp = tcp, !.s = b, !.unacked = unacked]
<1>1. /\ conn \in [Connections -> ConnStates]
      /\ st \in [Blocks -> BlockStates]
      /\ IsPage(page)
  BY DEF HttpdInv, HTypeOK, ConnStates, BlockStates
<1>2. h.s \in BlockStates /\ IsPage(h.page)
  BY <1>1, HandleConnectionFits
<1>3. st' = [st EXCEPT ![b] = h.s] /\ page' = h.page /\ conn' = [conn EXCEPT ![c] = new]
  BY DEF Handle
<1> HIDE DEF h
<1>4. k \in ConnStates /\ b \in 0..CONNS
  BY <1>1, PageAssumption DEF Blocks
<1>5. unacked \in BOOLEAN
  OBVIOUS
<1>6. tcp \in {"open", "closing"}
  OBVIOUS
<1> HIDE DEF k, unacked, tcp
<1>7. new \in ConnStates /\ new.tcp = tcp /\ new.s = b
  BY <1>4, <1>5, <1>6 DEF ConnStates
<1> HIDE DEF new
<1>8. st' \in [Blocks -> BlockStates]
  BY <1>1, <1>2, <1>3
<1>9. conn' \in [Connections -> ConnStates] /\ conn'[c] = new
       /\ \A d \in Connections \ {c} : conn'[d] = conn[d]
  BY <1>1, <1>3, <1>7
<1> QED
  BY <1>2, <1>3, <1>6, <1>7, <1>8, <1>9

\* What the stack reports never brings more words than the block has room for.
LEMMA WordsReadable ==
    ASSUME NEW s \in BlockStates, NEW ev \in Words(s), NEW acked \in BOOLEAN
    PROVE  Readable(s, ev) /\ Readable(s, [ev EXCEPT !.acked = acked])
<1>1. ev \in [words : 0..(2 - s.in), good : BOOLEAN, acked : {FALSE}, rexmit : {FALSE}]
  BY DEF Words, Reads
<1>2. s.in \in 0..2
  BY DEF BlockStates
<1>3. ev.words \in 0..2 /\ s.in + ev.words \in 0..2
  <2>1. ev.words \in 0..(2 - s.in)
    BY <1>1
  <2> QED
    BY <1>2, <2>1
<1>4. ev \in Events
  BY <1>1, <1>3 DEF Events
<1>5. [ev EXCEPT !.acked = acked] \in Events /\ [ev EXCEPT !.acked = acked].words = ev.words
  BY <1>4 DEF Events
<1> QED
  BY <1>3, <1>4, <1>5 DEF Readable

LEMMA NoWordsReadable ==
    ASSUME NEW s \in BlockStates, NEW acked \in BOOLEAN, NEW rexmit \in BOOLEAN
    PROVE  Readable(s, Event(0, TRUE, acked, rexmit))
  BY DEF Readable, Event, Events, BlockStates

LEMMA RestartedBlock ==
    ASSUME HTypeOK, NEW b \in Blocks
    PROVE  Restarted(b) \in BlockStates
<1>1. st[b] \in BlockStates
  BY DEF HTypeOK, BlockStates
<1> QED
  BY <1>1 DEF Restarted, BlockStates

-----------------------------------------------------------------------------
(* The pool *)

IsLive(k) == k.tcp \in {"open", "closing"}

\* A block is the connection's own, also when the stack has dropped it.
HasBlock(k) == k.tcp \in {"open", "closing", "dropped"}

\* PoolExact, for any connections and allocated blocks.
Exact(cn, m) ==
    /\ \A c \in Connections : HasBlock(cn[c]) => cn[c].s \in m
    /\ \A b \in m : \E c \in Connections : HasBlock(cn[c]) /\ cn[c].s = b
    /\ \A c, d \in Connections : HasBlock(cn[c]) /\ HasBlock(cn[d]) /\ cn[c].s = cn[d].s => c = d

LEMMA PoolIsExactNow == PoolExact <=> (~robbed => Exact(conn, memb))
<1>1. memb = {conn[c].s : c \in {d \in Connections : Keeps(d)}} <=>
        /\ \A c \in Connections : HasBlock(conn[c]) => conn[c].s \in memb
        /\ \A b \in memb : \E c \in Connections : HasBlock(conn[c]) /\ conn[c].s = b
  BY DEF Keeps, Live, HasBlock
<1> QED
  BY <1>1 DEF PoolExact, Exact, Keeps, Live, HasBlock

LEMMA PoolIsExactThen == PoolExact' <=> (~robbed' => Exact(conn', memb'))
<1>1. (memb = {conn[c].s : c \in {d \in Connections : Keeps(d)}})' <=>
        /\ \A c \in Connections : HasBlock(conn'[c]) => conn'[c].s \in memb'
        /\ \A b \in memb' : \E c \in Connections : HasBlock(conn'[c]) /\ conn'[c].s = b
  BY DEF Keeps, Live, HasBlock
<1> QED
  BY <1>1 DEF PoolExact, Exact, Keeps, Live, HasBlock

\* A connection takes a free block.
LEMMA PoolTake ==
    ASSUME NEW cn, NEW cm, NEW m, NEW c \in Connections, NEW b, b \notin m,
           Exact(cn, m), ~HasBlock(cn[c]), HasBlock(cm[c]), cm[c].s = b,
           \A d \in Connections \ {c} : cm[d] = cn[d]
    PROVE  Exact(cm, m \cup {b})
<1>1. ASSUME NEW d \in Connections, HasBlock(cm[d]) PROVE cm[d].s \in m \cup {b}
  BY <1>1 DEF Exact
<1>2. ASSUME NEW x \in m \cup {b} PROVE \E d \in Connections : HasBlock(cm[d]) /\ cm[d].s = x
  <2>1. CASE x = b
    BY <2>1
  <2>2. CASE x \in m
    <3>1. PICK d \in Connections : HasBlock(cn[d]) /\ cn[d].s = x
      BY <2>2 DEF Exact
    <3>2. d # c
      BY <3>1
    <3> QED
      BY <3>1, <3>2
  <2> QED
    BY <1>2, <2>1, <2>2
<1>3. ASSUME NEW d \in Connections, NEW e \in Connections,
             HasBlock(cm[d]), HasBlock(cm[e]), cm[d].s = cm[e].s
      PROVE  d = e
  BY <1>3 DEF Exact
<1> QED
  BY <1>1, <1>2, <1>3 DEF Exact

\* A connection goes on, or stays away, and the others are left alone.
LEMMA PoolSame ==
    ASSUME NEW cn, NEW cm, NEW m, NEW c \in Connections, Exact(cn, m),
           HasBlock(cm[c]) <=> HasBlock(cn[c]), HasBlock(cn[c]) => cm[c].s = cn[c].s,
           \A d \in Connections \ {c} : cm[d] = cn[d]
    PROVE  Exact(cm, m)
<1>1. \A d \in Connections : /\ HasBlock(cm[d]) <=> HasBlock(cn[d])
                             /\ HasBlock(cn[d]) => cm[d].s = cn[d].s
  OBVIOUS
<1> QED
  BY <1>1 DEF Exact

\* A connection ends, and its block is freed.
LEMMA PoolFree ==
    ASSUME NEW cn, NEW cm, NEW m, NEW c \in Connections, Exact(cn, m),
           HasBlock(cn[c]), ~HasBlock(cm[c]),
           \A d \in Connections \ {c} : cm[d] = cn[d]
    PROVE  Exact(cm, m \ {cn[c].s})
<1>1. ASSUME NEW d \in Connections, HasBlock(cm[d]) PROVE cm[d].s \in m \ {cn[c].s}
  <2>1. d # c /\ cm[d] = cn[d]
    BY <1>1
  <2> QED
    BY <1>1, <2>1 DEF Exact
<1>2. ASSUME NEW x \in m \ {cn[c].s}
      PROVE  \E d \in Connections : HasBlock(cm[d]) /\ cm[d].s = x
  <2>1. PICK d \in Connections : HasBlock(cn[d]) /\ cn[d].s = x
    BY <1>2 DEF Exact
  <2>2. d # c
    BY <1>2, <2>1
  <2> QED
    BY <2>1, <2>2
<1>3. ASSUME NEW d \in Connections, NEW e \in Connections,
             HasBlock(cm[d]), HasBlock(cm[e]), cm[d].s = cm[e].s
      PROVE  d = e
  <2>1. cm[d] = cn[d] /\ cm[e] = cn[e]
    BY <1>3
  <2> QED
    BY <1>3, <2>1 DEF Exact
<1> QED
  BY <1>1, <1>2, <1>3 DEF Exact

-----------------------------------------------------------------------------
(* The invariant is inductive: one step for each action.                   *)

LEMMA InitInv == HInit => HttpdInv
<1> SUFFICES ASSUME HInit PROVE HttpdInv
  OBVIOUS
<1>1. page = [nbr |-> 0, r |-> 0, blen |-> 0, buf |-> <<>>] /\ 0 \in Lengths
  BY DEF HInit, Lengths, BUF
<1>2. IsPage(page)
  BY <1>1, ZeroPos DEF IsPage
<1>3. HTypeOK
  <2>1. CONNS \in Nat /\ 0 \in 0..NumNbrs /\ 0 \in 0..NumRoutes
    BY PageAssumption
  <2>2. Fresh \in [in : 0..2, out : Points, expired : BOOLEAN]
    BY DEF Fresh, Points
  <2>3. New \in [tcp : {"new", "open", "closing", "half-closed", "dropped", "gone"},
                 s : 0..CONNS, unacked : BOOLEAN]
    BY <2>1 DEF New
  <2>4. /\ page.nbr \in 0..NumNbrs /\ page.r \in 0..NumRoutes /\ page.blen \in Nat
    BY <1>1, <2>1
  <2>5. conn \in [Connections -> [tcp : {"new", "open", "closing", "half-closed", "dropped", "gone"},
                                 s : 0..CONNS, unacked : BOOLEAN]]
    BY <2>3 DEF HInit
  <2>6. st \in [Blocks -> [in : 0..2, out : Points, expired : BOOLEAN]]
    BY <2>2 DEF HInit
  <2>7. memb \subseteq Blocks /\ robbed \in BOOLEAN
    BY DEF HInit
  <2> QED
    BY <2>4, <2>5, <2>6, <2>7 DEF HTypeOK
<1>4. PoolExact
  <2>1. \A c \in Connections : ~HasBlock(conn[c])
    BY DEF HInit, New, HasBlock
  <2>2. memb = {}
    BY DEF HInit
  <2>3. Exact(conn, memb)
    BY <2>1, <2>2 DEF Exact
  <2> QED
    BY <2>3, PoolIsExactNow
<1>5. \A c \in Connections : conn[c].tcp = "new"
  BY DEF HInit, New
<1> QED
  BY <1>2, <1>3, <1>4, <1>5 DEF HttpdInv, Served

\* The types after a step, from its parts.
LEMMA InvParts ==
    ASSUME conn' \in [Connections -> ConnStates], memb' \subseteq Blocks,
           st' \in [Blocks -> BlockStates], IsPage(page'), robbed' \in BOOLEAN,
           \A c \in Connections : Served(conn'[c]), ~robbed' => Exact(conn', memb')
    PROVE  HttpdInv'
<1>1. page'.nbr \in 0..NumNbrs /\ page'.r \in 0..NumRoutes /\ page'.blen \in Nat
  <2>1. page'.nbr \in NbrPos /\ page'.r \in RoutePos /\ page'.blen \in Lengths
    BY DEF IsPage
  <2> QED
    BY <2>1 DEF NbrPos, RoutePos, Lengths, BUF
<1>2. HTypeOK'
  BY <1>1 DEF HTypeOK, ConnStates, BlockStates
<1>3. PoolExact'
  BY PoolIsExactThen
<1>4. IsPage(page)'
  BY DEF IsPage
<1>5. (\A c \in Connections : Served(conn[c]))'
  BY DEF Served, Blocks
<1> QED
  BY <1>2, <1>3, <1>4, <1>5 DEF HttpdInv

\* What the invariant says of the state before a step.
LEMMA InvFacts ==
    ASSUME HttpdInv
    PROVE  /\ conn \in [Connections -> ConnStates] /\ memb \subseteq Blocks
           /\ st \in [Blocks -> BlockStates] /\ IsPage(page) /\ robbed \in BOOLEAN
           /\ \A c \in Connections : Served(conn[c])
           /\ ~robbed => Exact(conn, memb)
  BY PoolIsExactNow DEF HttpdInv, HTypeOK, ConnStates, BlockStates

LEMMA GoneState ==
    Gone \in ConnStates /\ ~IsLive(Gone) /\ ~HasBlock(Gone) /\ Served(Gone)
<1>1. CONNS \in Nat
  BY PageAssumption
<1>2. New \in ConnStates
  BY <1>1 DEF New, ConnStates
<1>3. Gone \in ConnStates /\ Gone.tcp = "gone"
  BY <1>2 DEF Gone, ConnStates
<1> QED
  BY <1>3 DEF IsLive, HasBlock, Served

LEMMA ConnectedInv ==
    ASSUME HttpdInv, NEW c \in Connections, Connected(c)
    PROVE  HttpdInv'
<1> DEFINE free == Blocks \ memb
<1>1. ~HasBlock(conn[c]) /\ robbed' = robbed
  BY DEF Connected, HasBlock
<1>2. CASE free = {}
  <2>1. conn' = [conn EXCEPT ![c] = Gone] /\ memb' = memb /\ st' = st /\ page' = page
    BY <1>2 DEF Connected
  <2>2. conn' \in [Connections -> ConnStates] /\ conn'[c] = Gone
        /\ \A d \in Connections \ {c} : conn'[d] = conn[d]
    BY <2>1, InvFacts, GoneState
  <2>3. ~robbed => Exact(conn', memb)
    BY <1>1, <2>2, InvFacts, GoneState, PoolSame
  <2>4. \A d \in Connections : Served(conn'[d])
    BY <2>2, InvFacts, GoneState
  <2> QED
    BY <1>1, <2>1, <2>2, <2>3, <2>4, InvFacts, InvParts
<1>3. CASE free # {}
  <2> DEFINE b == Min(free)
  <2>1. free \in SUBSET Nat
    BY PageAssumption DEF Blocks
  <2>2. b \in free
    BY <1>3, <2>1, MinOfNats
  <2>3. Fresh \in BlockStates
    BY DEF Fresh, BlockStates, Points
  <2>4. memb' = memb \cup {b}
    BY <1>3 DEF Connected
  <2>5. PICK ev \in Words(Fresh) : Handle(c, b, Fresh, ev)
    BY <1>3 DEF Connected
  <2> HIDE DEF b
  <2>6. Readable(Fresh, ev)
    BY <2>3, WordsReadable
  <2>7. /\ st' \in [Blocks -> BlockStates]
        /\ IsPage(page')
        /\ conn' \in [Connections -> ConnStates]
        /\ conn'[c].tcp \in {"open", "closing"} /\ conn'[c].s = b
        /\ \A d \in Connections \ {c} : conn'[d] = conn[d]
    BY <2>2, <2>3, <2>5, <2>6, HandleStep
  <2>8. ~robbed => Exact(conn', memb \cup {b})
    <3>1. HasBlock(conn'[c]) /\ conn'[c].s = b /\ b \notin memb
      BY <2>2, <2>7 DEF HasBlock
    <3> QED
      BY <1>1, <2>7, <3>1, InvFacts, PoolTake
  <2>9. \A d \in Connections : Served(conn'[d])
    BY <2>2, <2>7, InvFacts DEF Served
  <2> QED
    BY <1>1, <2>2, <2>4, <2>7, <2>8, <2>9, InvFacts, InvParts
<1> QED
  BY <1>2, <1>3

\* The events that only run the handler, on the connection's own block.
LEMMA HandledInv ==
    ASSUME HttpdInv, NEW c \in Connections, conn[c].tcp = "open", NEW ev,
           Readable(Restarted(conn[c].s), ev),
           Handle(c, conn[c].s, Restarted(conn[c].s), ev),
           memb' = memb, robbed' = robbed
    PROVE  HttpdInv'
<1>1. conn[c].s \in Blocks /\ Restarted(conn[c].s) \in BlockStates
  <2>1. conn[c].s \in Blocks
    BY InvFacts DEF Served
  <2> QED
    BY <2>1, RestartedBlock DEF HttpdInv
<1>2. /\ st' \in [Blocks -> BlockStates]
      /\ IsPage(page')
      /\ conn' \in [Connections -> ConnStates]
      /\ conn'[c].tcp \in {"open", "closing"} /\ conn'[c].s = conn[c].s
      /\ \A d \in Connections \ {c} : conn'[d] = conn[d]
  BY <1>1, HandleStep
<1>3. ~robbed => Exact(conn', memb)
  <2>1. HasBlock(conn'[c]) /\ HasBlock(conn[c])
    BY <1>2 DEF HasBlock
  <2> QED
    BY <1>2, <2>1, InvFacts, PoolSame
<1>4. \A d \in Connections : Served(conn'[d])
  BY <1>1, <1>2, InvFacts DEF Served
<1> QED
  BY <1>2, <1>3, <1>4, InvFacts, InvParts

LEMMA NewDataInv ==
    ASSUME HttpdInv, NEW c \in Connections, NewData(c)
    PROVE  HttpdInv'
<1> DEFINE b == conn[c].s
<1>1. conn[c].tcp = "open" /\ memb' = memb /\ robbed' = robbed
  BY DEF NewData
<1>2. b \in Blocks
  BY <1>1, InvFacts DEF Served
<1>3. conn[c].unacked \in BOOLEAN
  BY InvFacts DEF ConnStates
<1>4. st[b] \in BlockStates /\ Restarted(b).in = st[b].in
  BY <1>2, InvFacts DEF Restarted, BlockStates
<1>5. PICK ev \in Words(st[b]), acked \in {FALSE, conn[c].unacked} :
          Handle(c, b, Restarted(b), [ev EXCEPT !.acked = acked])
  BY DEF NewData
<1> HIDE DEF b
<1>6. Readable(st[b], [ev EXCEPT !.acked = acked])
  BY <1>3, <1>4, WordsReadable
<1>7. Readable(Restarted(b), [ev EXCEPT !.acked = acked])
  BY <1>4, <1>6 DEF Readable
<1> QED
  BY <1>1, <1>5, <1>7, HandledInv DEF b

LEMMA AckedInv ==
    ASSUME HttpdInv, NEW c \in Connections, Acked(c)
    PROVE  HttpdInv'
<1>1. conn[c].tcp = "open" /\ memb' = memb /\ robbed' = robbed
  BY DEF Acked
<1>2. conn[c].s \in Blocks
  BY <1>1, InvFacts DEF Served
<1>3. Restarted(conn[c].s) \in BlockStates
  BY <1>2, RestartedBlock DEF HttpdInv
<1>4. Handle(c, conn[c].s, Restarted(conn[c].s), Event(0, TRUE, TRUE, FALSE))
  BY DEF Acked
<1> QED
  BY <1>1, <1>3, <1>4, NoWordsReadable, HandledInv

LEMMA RexmitInv ==
    ASSUME HttpdInv, NEW c \in Connections, Rexmit(c)
    PROVE  HttpdInv'
<1>1. conn[c].tcp = "open" /\ memb' = memb /\ robbed' = robbed
  BY DEF Rexmit
<1>2. conn[c].s \in Blocks
  BY <1>1, InvFacts DEF Served
<1>3. Restarted(conn[c].s) \in BlockStates
  BY <1>2, RestartedBlock DEF HttpdInv
<1>4. Handle(c, conn[c].s, Restarted(conn[c].s), Event(0, TRUE, FALSE, TRUE))
  BY DEF Rexmit
<1> QED
  BY <1>1, <1>3, <1>4, NoWordsReadable, HandledInv

\* The pool after a connection ends, whoever notices it.
LEMMA FreedInv ==
    ASSUME HttpdInv, NEW c \in Connections, HasBlock(conn[c]), NEW k \in ConnStates,
           ~HasBlock(k), Served(k), conn' = [conn EXCEPT ![c] = k],
           memb' = memb \ {conn[c].s}, robbed' = robbed,
           st' \in [Blocks -> BlockStates], IsPage(page')
    PROVE  HttpdInv'
<1>1. /\ conn' \in [Connections -> ConnStates] /\ conn'[c] = k
      /\ \A d \in Connections \ {c} : conn'[d] = conn[d]
  BY InvFacts
<1>2. \A d \in Connections : Served(conn'[d])
  BY <1>1, InvFacts
<1>3. ~robbed => Exact(conn', memb \ {conn[c].s})
  BY <1>1, InvFacts, PoolFree
<1> QED
  BY <1>1, <1>2, <1>3, InvFacts, InvParts

LEMMA PollInv ==
    ASSUME HttpdInv, NEW c \in Connections, Poll(c)
    PROVE  HttpdInv'
<1> DEFINE b == conn[c].s
           h == handle_connection(st[b], page, Nothing)
           late == timer_expired(st[b])
<1>1. conn[c].tcp = "open" /\ robbed' = robbed
  BY DEF Poll
<1>2. b \in Blocks
  BY <1>1, InvFacts DEF Served
<1>3. st[b] \in BlockStates /\ IsPage(page)
  BY <1>2, InvFacts
<1>4. Readable(st[b], Nothing)
  BY <1>3, NoWordsReadable DEF Nothing
<1>5. h.s \in BlockStates /\ IsPage(h.page)
  BY <1>3, <1>4, HandleConnectionFits
<1>6. /\ st' = [st EXCEPT ![b] = h.s] /\ page' = h.page
      /\ memb' = IF late THEN memb \ {b} ELSE memb
      /\ conn' = [conn EXCEPT ![c] = IF late THEN Gone ELSE conn[c]]
  BY DEF Poll, timed_out
<1> HIDE DEF h, late
<1>7. st' \in [Blocks -> BlockStates] /\ IsPage(page')
  BY <1>2, <1>5, <1>6, InvFacts
<1>8. CASE late
  <2>1. HasBlock(conn[c])
    BY <1>1 DEF HasBlock
  <2>2. conn' = [conn EXCEPT ![c] = Gone] /\ memb' = memb \ {conn[c].s}
    BY <1>6, <1>8
  <2> QED
    BY <1>1, <1>7, <2>1, <2>2, GoneState, FreedInv
<1>9. CASE ~late
  <2>1. conn' = conn /\ memb' = memb
    BY <1>6, <1>9, InvFacts
  <2> QED
    BY <1>1, <1>7, <2>1, InvFacts, InvParts
<1> QED
  BY <1>8, <1>9

LEMMA EndedInv ==
    ASSUME HttpdInv, NEW c \in Connections, Ended(c)
    PROVE  HttpdInv'
<1>1. HasBlock(conn[c])
  BY DEF Ended, Live, HasBlock
<1>2. memb' = memb \ {conn[c].s} /\ st' = st /\ page' = page /\ robbed' = robbed
  BY DEF Ended
<1>3. st' \in [Blocks -> BlockStates] /\ IsPage(page')
  BY <1>2, InvFacts
<1>4. CASE conn' = [conn EXCEPT ![c] = Gone]
  BY <1>1, <1>2, <1>3, <1>4, GoneState, FreedInv
<1>5. CASE conn' = [conn EXCEPT ![c] = [Gone EXCEPT !.tcp = "half-closed", !.s = conn[c].s]]
  <2> DEFINE k == [Gone EXCEPT !.tcp = "half-closed", !.s = conn[c].s]
  <2>1. conn[c].s \in Blocks /\ conn[c].s \in 0..CONNS
    BY <1>1, InvFacts DEF Served, HasBlock, ConnStates
  <2>2. k \in ConnStates /\ k.tcp = "half-closed" /\ k.s = conn[c].s
    BY <2>1, GoneState DEF ConnStates
  <2>3. conn' = [conn EXCEPT ![c] = k]
    BY <1>5
  <2> HIDE DEF k
  <2>4. ~HasBlock(k) /\ Served(k)
    BY <2>1, <2>2 DEF HasBlock, Served
  <2> QED
    BY <1>1, <1>2, <1>3, <2>2, <2>3, <2>4, FreedInv
<1> QED
  BY <1>4, <1>5 DEF Ended

\* The stack drops a connection, which keeps its block.
LEMMA DroppedInv ==
    ASSUME HttpdInv, NEW c \in Connections, Dropped(c)
    PROVE  HttpdInv'
<1> DEFINE k == [Gone EXCEPT !.tcp = "dropped", !.s = conn[c].s]
<1>1. /\ conn[c].tcp = "closing" /\ conn' = [conn EXCEPT ![c] = k]
      /\ memb' = memb /\ st' = st /\ page' = page /\ robbed' = robbed
  BY DEF Dropped
<1>2. conn[c].s \in Blocks /\ conn[c].s \in 0..CONNS
  BY <1>1, InvFacts DEF Served, ConnStates
<1>3. k \in ConnStates /\ k.tcp = "dropped" /\ k.s = conn[c].s
  BY <1>2, GoneState DEF ConnStates
<1> HIDE DEF k
<1>4. /\ conn' \in [Connections -> ConnStates] /\ conn'[c] = k
      /\ \A d \in Connections \ {c} : conn'[d] = conn[d]
  BY <1>1, <1>3, InvFacts
<1>5. \A d \in Connections : Served(conn'[d])
  BY <1>2, <1>3, <1>4, InvFacts DEF Served
<1>6. ~robbed => Exact(conn', memb)
  <2>1. HasBlock(k) /\ HasBlock(conn[c])
    BY <1>1, <1>3 DEF HasBlock
  <2> QED
    BY <1>3, <1>4, <2>1, InvFacts, PoolSame
<1> QED
  BY <1>1, <1>4, <1>5, <1>6, InvFacts, InvParts

\* The second report of an end finds the block free, or robs its new owner.
LEMMA EndedAgainInv ==
    ASSUME HttpdInv, NEW c \in Connections, EndedAgain(c)
    PROVE  HttpdInv'
<1>1. /\ ~HasBlock(conn[c]) /\ conn' = [conn EXCEPT ![c] = Gone]
      /\ memb' = memb \ {conn[c].s} /\ robbed' = (robbed \/ conn[c].s \in memb)
      /\ st' = st /\ page' = page
  BY DEF EndedAgain, HasBlock
<1>2. /\ conn' \in [Connections -> ConnStates] /\ conn'[c] = Gone
      /\ \A d \in Connections \ {c} : conn'[d] = conn[d]
  BY <1>1, InvFacts, GoneState
<1>3. \A d \in Connections : Served(conn'[d])
  BY <1>2, InvFacts, GoneState
<1>4. ASSUME ~robbed' PROVE Exact(conn', memb')
  <2>1. ~robbed /\ memb' = memb
    BY <1>1, <1>4
  <2> QED
    BY <1>1, <1>2, <2>1, InvFacts, GoneState, PoolSame
<1>5. robbed' \in BOOLEAN
  BY <1>1
<1> QED
  BY <1>1, <1>2, <1>3, <1>4, <1>5, InvFacts, InvParts

LEMMA TimerRunsInv ==
    ASSUME HttpdInv, NEW b \in Blocks, TimerRuns(b)
    PROVE  HttpdInv'
<1>1. /\ st' = [st EXCEPT ![b].expired = TRUE] /\ conn' = conn /\ memb' = memb
      /\ page' = page /\ robbed' = robbed
  BY DEF TimerRuns
<1>2. st' \in [Blocks -> BlockStates]
  BY <1>1, InvFacts DEF BlockStates
<1> QED
  BY <1>1, <1>2, InvFacts, InvParts

LEMMA StepInv == HttpdInv /\ [HNext]_hvars => HttpdInv'
<1> SUFFICES ASSUME HttpdInv, [HNext]_hvars PROVE HttpdInv'
  OBVIOUS
<1>1. ASSUME NEW c \in Connections,
             Connected(c) \/ NewData(c) \/ Acked(c) \/ Rexmit(c)
               \/ Poll(c) \/ Ended(c) \/ Dropped(c) \/ EndedAgain(c)
      PROVE  HttpdInv'
  BY <1>1, ConnectedInv, NewDataInv, AckedInv, RexmitInv, PollInv, EndedInv, DroppedInv,
     EndedAgainInv
<1>2. ASSUME NEW b \in Blocks, TimerRuns(b) PROVE HttpdInv'
  BY <1>2, TimerRunsInv
<1>3. CASE UNCHANGED hvars
  <2>1. conn' = conn /\ memb' = memb /\ st' = st /\ page' = page /\ robbed' = robbed
    BY <1>3 DEF hvars
  <2> QED
    BY <2>1, InvFacts, InvParts
<1> QED
  BY <1>1, <1>2, <1>3 DEF HNext

LEMMA Inductive == HSpec => []HttpdInv
  BY InitInv, StepInv, PTL DEF HSpec

-----------------------------------------------------------------------------
(* What follows *)

\* Connections, blocks and the static variables of generate_routes keep their
\* types, whatever peers send and close and the timers do.
THEOREM TypeCorrect == HSpec => []HTypeOK
<1>1. HttpdInv => HTypeOK
  BY DEF HttpdInv
<1> QED
  BY <1>1, Inductive, PTL

\* memb_alloc and memb_free of httpd_appcall keep the pool exact, for any
\* number of blocks and connections, as far as the stack lets them: the blocks
\* that nobody will free are those of connections it dropped in FIN_WAIT_2, and
\* no block is freed under a connection but by a second report of another one's
\* end.
THEOREM PoolIsExact == HSpec => []PoolExact
<1>1. HttpdInv => PoolExact
  BY DEF HttpdInv
<1> QED
  BY <1>1, Inductive, PTL

\* The pieces that generate_routes adds fit in its 256 bytes, with the NUL at the
\* end of the string, for any number of neighbours and routes with addresses of
\* any length, though any connections take turns at them.
THEOREM BufferNeverOverflows == HSpec => []BufferFits
<1>1. HttpdInv => BufferFits
  BY PageFields DEF HttpdInv, BufferFits
<1> QED
  BY <1>1, Inductive, PTL

-----------------------------------------------------------------------------
(* The page as peers get it: the stretches that the segments carry.        *)

\* Where FullPage has the line between the lists, and its last items.
MidAt == NumNbrs + 5
EndAt == NumNbrs + NumRoutes + 6
BottomAt == NumNbrs + NumRoutes + 7

\* The items m + 1 to n of the page.
Stretch(m, n) == [i \in 1..(n - m) |-> FullPage[m + i]]

\* The last item of the page that a connection has sent, when it blocks at out.
SentUpTo(out, p) ==
    CASE out = "idle"   -> 0
      [] out = "status" -> 1
      [] out = "type"   -> 2
      [] out = "top"    -> 3
      [] out = "nbrs"   -> p.nbr + 4
      [] out = "nbrend" -> MidAt
      [] out = "routes" -> p.r + MidAt
      [] out = "end"    -> EndAt
      [] out = "bottom" -> BottomAt

\* The loops block with a member at hand.
MidLoop(out, p) == (out = "nbrs" => p.nbr # 0) /\ (out = "routes" => p.r # 0)

\* What is on its way to a peer is the segment from out, and begins where what
\* the peer has got ends.
Underway(out, p, mine) ==
    /\ MidLoop(out, p)
    /\ mine.seg = Segment(out, p)
    /\ \E m \in 0..SentUpTo(out, p) :
          mine.got = Stretch(0, m) /\ mine.seg = Stretch(m, SentUpTo(out, p))

\* What a peer has got when the server has closed the connection.
Finished(s, mine) ==
    \E m \in 0..BottomAt : mine.got = Stretch(0, m) /\ (s.in = 2 => m = BottomAt)

\* A connection in state tcp, on block s, with a peer that has got mine.
Serving(tcp, s, mine, p) ==
    /\ tcp = "open" => (s.in = 2 <=> s.out # "idle")
    /\ tcp = "open" /\ mine.alone => Underway(s.out, p, mine)
    /\ tcp = "closing" /\ mine.alone => Finished(s, mine)

\* Nothing is said of got and seg.
IsClient(mine) == mine \in [got : {mine.got}, seg : {mine.seg}, alone : BOOLEAN]

PageInv ==
    /\ client = [c \in Connections |-> client[c]]
    /\ \A c \in Connections :
          /\ IsClient(client[c])
          /\ conn[c].tcp = "new" => client[c] = Unseen
          /\ ~robbed /\ Live(c) => Serving(conn[c].tcp, st[conn[c].s], client[c], page)

Texts == {"status", "type", "top", "head", "nbr", "mid", "route", "end", "bottom"} \X Nat

LEMMA CatItems ==
    ASSUME NEW S, NEW s \in Seq(S), NEW t \in Seq(S)
    PROVE  /\ s \o t \in Seq(S) /\ Len(s \o t) = Len(s) + Len(t)
           /\ \A i \in 1..Len(s) : (s \o t)[i] = s[i]
           /\ \A i \in 1..Len(t) : (s \o t)[Len(s) + i] = t[i]
<1>1. s \o t \in Seq(S) /\ Len(s \o t) = Len(s) + Len(t)
  OBVIOUS
<1>2. \A i \in 1..Len(s) : (s \o t)[i] = s[i]
  OBVIOUS
<1>3. ASSUME NEW i \in 1..Len(t) PROVE (s \o t)[Len(s) + i] = t[i]
  <2>1. Len(s) \in Nat /\ Len(t) \in Nat
    OBVIOUS
  <2>2. Len(s) + i \in 1..(Len(s) + Len(t)) /\ ~(Len(s) + i <= Len(s)) /\ Len(s) + i - Len(s) = i
    BY <2>1
  <2> QED
    BY <2>1, <2>2
<1> QED
  BY <1>1, <1>2, <1>3

\* The lines of a list.
LEMMA LinesItems ==
    ASSUME NEW what \in {"nbr", "route"}, NEW n \in Nat
    PROVE  /\ Items(what, 1, n) \in Seq(Texts) /\ Len(Items(what, 1, n)) = n
           /\ \A k \in 1..n : Items(what, 1, n)[k] = Item(what, k)
<1>1. Items(what, 1, n) = [k \in 1..n |-> Item(what, k)]
  <2>1. n - 1 + 1 = n /\ \A k \in 1..n : 1 + k - 1 = k
    OBVIOUS
  <2> QED
    BY <2>1 DEF Items
<1>2. \A k \in 1..n : Item(what, k) \in Texts
  BY DEF Item, Texts
<1> QED
  BY <1>1, <1>2

\* The page, item by item.
LEMMA PageItems ==
    /\ FullPage \in Seq(Texts) /\ Len(FullPage) = BottomAt
    /\ FullPage[1] = Item("status", 0) /\ FullPage[2] = Item("type", 0)
    /\ FullPage[3] = Item("top", 0) /\ FullPage[4] = Item("head", 0)
    /\ \A k \in 1..NumNbrs : FullPage[k + 4] = Item("nbr", k)
    /\ FullPage[MidAt] = Item("mid", 0)
    /\ \A k \in 1..NumRoutes : FullPage[k + MidAt] = Item("route", k)
    /\ FullPage[EndAt] = Item("end", 0) /\ FullPage[BottomAt] = Item("bottom", 0)
<1> DEFINE top == <<Item("status", 0), Item("type", 0), Item("top", 0), Item("head", 0)>>
           nbrs == Items("nbr", 1, NumNbrs)
           mid == <<Item("mid", 0)>>
           routes == Items("route", 1, NumRoutes)
           end == <<Item("end", 0), Item("bottom", 0)>>
           a == top \o nbrs
           b == a \o mid
           d == b \o routes
<1>1. /\ top \in Seq(Texts) /\ Len(top) = 4
      /\ top[1] = Item("status", 0) /\ top[2] = Item("type", 0)
      /\ top[3] = Item("top", 0) /\ top[4] = Item("head", 0)
  BY DEF Item, Texts
<1>2. mid \in Seq(Texts) /\ Len(mid) = 1 /\ mid[1] = Item("mid", 0)
  BY DEF Item, Texts
<1>3. /\ end \in Seq(Texts) /\ Len(end) = 2
      /\ end[1] = Item("end", 0) /\ end[2] = Item("bottom", 0)
  BY DEF Item, Texts
<1>4. NumNbrs \in Nat /\ NumRoutes \in Nat
  BY PageAssumption
<1>5. /\ nbrs \in Seq(Texts) /\ Len(nbrs) = NumNbrs
      /\ \A k \in 1..NumNbrs : nbrs[k] = Item("nbr", k)
  BY <1>4, LinesItems
<1>6. /\ routes \in Seq(Texts) /\ Len(routes) = NumRoutes
      /\ \A k \in 1..NumRoutes : routes[k] = Item("route", k)
  BY <1>4, LinesItems
<1>7. FullPage = d \o end
  BY DEF FullPage
<1> HIDE DEF top, nbrs, mid, routes, end
<1>8. /\ a \in Seq(Texts) /\ Len(a) = 4 + NumNbrs
      /\ \A i \in 1..4 : a[i] = top[i]
      /\ \A k \in 1..NumNbrs : a[4 + k] = nbrs[k]
  <2>1. a \in Seq(Texts) /\ Len(a) = Len(top) + Len(nbrs)
    BY <1>1, <1>5, CatItems
  <2>2. \A i \in 1..Len(top) : a[i] = top[i]
    BY <1>1, <1>5, CatItems
  <2>3. \A i \in 1..Len(nbrs) : a[Len(top) + i] = nbrs[i]
    <3>1. top \in Seq(Texts) /\ nbrs \in Seq(Texts)
      BY <1>1, <1>5
    <3> QED
      BY <3>1, CatItems
  <2> QED
    BY <1>1, <1>5, <2>1, <2>2, <2>3
<1> HIDE DEF a
<1>9. /\ b \in Seq(Texts) /\ Len(b) = MidAt
      /\ \A i \in 1..(4 + NumNbrs) : b[i] = a[i]
      /\ b[MidAt] = mid[1]
  <2>1. b \in Seq(Texts) /\ Len(b) = Len(a) + Len(mid)
    BY <1>8, <1>2, CatItems
  <2>2. \A i \in 1..Len(a) : b[i] = a[i]
    BY <1>8, <1>2, CatItems
  <2>3. \A i \in 1..Len(mid) : b[Len(a) + i] = mid[i]
    BY <1>8, <1>2, CatItems
  <2>4. Len(a) + 1 = MidAt /\ 1 \in 1..Len(mid)
    BY <1>4, <1>8, <1>2 DEF MidAt
  <2>5. b[Len(a) + 1] = mid[1]
    BY <2>3, <2>4
  <2> QED
    BY <1>8, <1>2, <2>1, <2>2, <2>4, <2>5
<1> HIDE DEF b
<1>10. /\ d \in Seq(Texts) /\ Len(d) = MidAt + NumRoutes
       /\ \A i \in 1..MidAt : d[i] = b[i]
       /\ \A k \in 1..NumRoutes : d[MidAt + k] = routes[k]
  <2>1. d \in Seq(Texts) /\ Len(d) = Len(b) + Len(routes)
    BY <1>9, <1>6, CatItems
  <2>2. \A i \in 1..Len(b) : d[i] = b[i]
    BY <1>9, <1>6, CatItems
  <2>3. \A i \in 1..Len(routes) : d[Len(b) + i] = routes[i]
    BY <1>9, <1>6, CatItems
  <2> QED
    BY <1>9, <1>6, <2>1, <2>2, <2>3
<1> HIDE DEF d
<1>11. /\ FullPage \in Seq(Texts) /\ Len(FullPage) = MidAt + NumRoutes + 2
       /\ \A i \in 1..(MidAt + NumRoutes) : FullPage[i] = d[i]
       /\ FullPage[MidAt + NumRoutes + 1] = end[1]
       /\ FullPage[MidAt + NumRoutes + 2] = end[2]
  <2>1. FullPage \in Seq(Texts) /\ Len(FullPage) = Len(d) + Len(end)
    BY <1>7, <1>10, <1>3, CatItems
  <2>2. \A i \in 1..Len(d) : FullPage[i] = d[i]
    BY <1>7, <1>10, <1>3, CatItems
  <2>3. \A i \in 1..Len(end) : FullPage[Len(d) + i] = end[i]
    <3>1. d \in Seq(Texts) /\ end \in Seq(Texts)
      BY <1>10, <1>3
    <3> QED
      BY <1>7, <3>1, CatItems
  <2> QED
    BY <1>10, <1>3, <2>1, <2>2, <2>3
<1>12. /\ MidAt \in Nat /\ MidAt = 4 + NumNbrs + 1
       /\ EndAt = MidAt + NumRoutes + 1 /\ BottomAt = MidAt + NumRoutes + 2
  BY <1>4 DEF MidAt, EndAt, BottomAt
<1>13. ASSUME NEW i \in 1..(4 + NumNbrs) PROVE FullPage[i] = a[i]
  <2>1. i \in 1..MidAt /\ i \in 1..(MidAt + NumRoutes)
    BY <1>4, <1>12
  <2> QED
    BY <2>1, <1>9, <1>10, <1>11
<1>14. ASSUME NEW i \in 1..4 PROVE FullPage[i] = top[i]
  <2>1. i \in 1..(4 + NumNbrs)
    BY <1>4
  <2> QED
    BY <2>1, <1>8, <1>13
<1>15. ASSUME NEW k \in 1..NumNbrs PROVE FullPage[k + 4] = Item("nbr", k)
  <2>1. k + 4 = 4 + k /\ 4 + k \in 1..(4 + NumNbrs)
    BY <1>4
  <2> QED
    BY <2>1, <1>5, <1>8, <1>13
<1>16. FullPage[MidAt] = Item("mid", 0)
  <2>1. MidAt \in 1..MidAt /\ MidAt \in 1..(MidAt + NumRoutes)
    BY <1>4, <1>12
  <2> QED
    BY <2>1, <1>2, <1>9, <1>10, <1>11
<1>17. ASSUME NEW k \in 1..NumRoutes PROVE FullPage[k + MidAt] = Item("route", k)
  <2>1. k + MidAt = MidAt + k /\ MidAt + k \in 1..(MidAt + NumRoutes)
    BY <1>4, <1>12
  <2> QED
    BY <2>1, <1>6, <1>10, <1>11
<1>18. 1 \in 1..4 /\ 2 \in 1..4 /\ 3 \in 1..4 /\ 4 \in 1..4
  OBVIOUS
<1> QED
  BY <1>1, <1>3, <1>11, <1>12, <1>14, <1>15, <1>16, <1>17, <1>18

-----------------------------------------------------------------------------
(* Stretches of the page *)

LEMMA PageSizes ==
    /\ NumNbrs \in Nat /\ NumRoutes \in Nat
    /\ MidAt \in Nat /\ EndAt \in Nat /\ BottomAt \in Nat
    /\ MidAt = NumNbrs + 5 /\ EndAt = NumRoutes + MidAt + 1 /\ BottomAt = EndAt + 1
  BY PageAssumption DEF MidAt, EndAt, BottomAt

LEMMA StretchType ==
    ASSUME NEW m \in Nat, NEW n \in Nat, m <= n, n <= BottomAt
    PROVE  /\ Stretch(m, n) \in Seq(Texts) /\ Len(Stretch(m, n)) = n - m
           /\ \A i \in 1..(n - m) : Stretch(m, n)[i] = FullPage[m + i]
<1>1. BottomAt \in Nat /\ n - m \in Nat
  BY PageSizes
<1>2. ASSUME NEW i \in 1..(n - m) PROVE FullPage[m + i] \in Texts
  <2>1. m + i \in 1..BottomAt
    BY <1>1
  <2> QED
    BY <2>1, PageItems
<1>3. Stretch(m, n) \in [1..(n - m) -> Texts]
  BY <1>2 DEF Stretch
<1>4. Stretch(m, n) \in Seq(Texts)
  BY <1>1, <1>3
<1>5. \A i \in 1..(n - m) : Stretch(m, n)[i] = FullPage[m + i]
  BY DEF Stretch
<1> QED
  BY <1>1, <1>3, <1>4, <1>5

\* Sequences with the items of a stretch.
LEMMA StretchIs ==
    ASSUME NEW m \in Nat, NEW n \in Nat, m <= n, n <= BottomAt,
           NEW s \in Seq(Texts), Len(s) = n - m,
           \A i \in 1..(n - m) : s[i] = FullPage[m + i]
    PROVE  s = Stretch(m, n)
<1>1. Stretch(m, n) \in Seq(Texts) /\ Len(Stretch(m, n)) = n - m
  BY StretchType
<1>2. \A i \in 1..(n - m) : Stretch(m, n)[i] = s[i]
  BY StretchType
<1> HIDE DEF Stretch
<1> QED
  BY <1>1, <1>2

LEMMA StretchCat ==
    ASSUME NEW m \in Nat, NEW n \in Nat, NEW k \in Nat, m <= n, n <= k, k <= BottomAt
    PROVE  Stretch(m, n) \o Stretch(n, k) = Stretch(m, k)
<1> DEFINE s == Stretch(m, n)
           t == Stretch(n, k)
           u == s \o t
<1>1. BottomAt \in Nat /\ n <= BottomAt /\ m <= k /\ n - m \in Nat /\ k - n \in Nat /\ k - m \in Nat
  BY PageSizes
<1>2. s \in Seq(Texts) /\ Len(s) = n - m /\ \A i \in 1..(n - m) : s[i] = FullPage[m + i]
  BY <1>1, StretchType
<1>3. t \in Seq(Texts) /\ Len(t) = k - n /\ \A i \in 1..(k - n) : t[i] = FullPage[n + i]
  BY <1>1, StretchType
<1> HIDE DEF s, t
<1>4. s \in Seq(Texts) /\ t \in Seq(Texts)
  BY <1>2, <1>3
<1>5. /\ u \in Seq(Texts) /\ Len(u) = Len(s) + Len(t)
      /\ \A i \in 1..Len(s) : u[i] = s[i]
      /\ \A i \in 1..Len(t) : u[Len(s) + i] = t[i]
  BY <1>4, CatItems
<1> HIDE DEF u
<1>6. Len(u) = k - m
  BY <1>1, <1>2, <1>3, <1>5
<1>7. ASSUME NEW i \in 1..(k - m) PROVE u[i] = FullPage[m + i]
  <2>1. CASE i <= n - m
    <3>1. i \in 1..(n - m) /\ i \in 1..Len(s)
      BY <1>1, <1>2, <2>1
    <3> QED
      BY <3>1, <1>2, <1>5
  <2>2. CASE ~(i <= n - m)
    <3> DEFINE j == i - (n - m)
    <3>1. j \in 1..(k - n) /\ j \in 1..Len(t) /\ Len(s) + j = i /\ n + j = m + i
      BY <1>1, <1>2, <1>3, <2>2
    <3> HIDE DEF j
    <3>2. u[Len(s) + j] = t[j] /\ t[j] = FullPage[n + j]
      BY <3>1, <1>3, <1>5
    <3> QED
      BY <3>1, <3>2
  <2> QED
    BY <2>1, <2>2
<1>8. u = Stretch(m, k)
  <2>1. u \in Seq(Texts) /\ m <= k
    BY <1>1, <1>5
  <2> QED
    BY <2>1, <1>6, <1>7, StretchIs
<1> QED
  BY <1>8 DEF u, s, t

LEMMA StretchOne ==
    ASSUME NEW m \in Nat, NEW n \in Nat, n = m + 1, n <= BottomAt
    PROVE  <<FullPage[n]>> = Stretch(m, n)
<1>1. n \in 1..BottomAt /\ BottomAt \in Nat
  BY PageSizes
<1>2. FullPage[n] \in Texts
  BY <1>1, PageItems
<1> DEFINE s == <<FullPage[n]>>
<1>3. s \in Seq(Texts) /\ Len(s) = 1 /\ s[1] = FullPage[n]
  BY <1>2
<1> HIDE DEF s
<1>4. n - m = 1 /\ m <= n /\ \A i \in 1..(n - m) : i = 1
  OBVIOUS
<1>5. \A i \in 1..(n - m) : s[i] = FullPage[m + i]
  BY <1>3, <1>4
<1>6. s = Stretch(m, n)
  BY <1>3, <1>4, <1>5, StretchIs
<1> QED
  BY <1>6 DEF s

LEMMA StretchEmpty ==
    ASSUME NEW m \in Nat
    PROVE  <<>> = Stretch(m, m)
<1>1. 1..(m - m) = {}
  OBVIOUS
<1>2. Stretch(m, m) = [i \in {} |-> FullPage[m + i]]
  BY <1>1 DEF Stretch
<1>3. <<>> = [i \in {} |-> FullPage[m + i]]
  OBVIOUS
<1> QED
  BY <1>2, <1>3

\* Lines of neighbours.
LEMMA StretchLines ==
    ASSUME NEW i \in 1..NumNbrs, NEW k \in i..NumNbrs
    PROVE  Items("nbr", i, k) = Stretch(i + 3, k + 4)
<1>1. NumNbrs \in Nat /\ k \in Nat /\ k + 4 - (i + 3) = k - i + 1
  BY PageSizes
<1>2. ASSUME NEW n \in 1..(k - i + 1)
      PROVE  Item("nbr", i + n - 1) = FullPage[i + 3 + n]
  <2> DEFINE j == i + n - 1
  <2>1. j \in 1..NumNbrs /\ j + 4 = i + 3 + n
    BY <1>1
  <2> HIDE DEF j
  <2>2. FullPage[j + 4] = Item("nbr", j)
    BY <2>1, PageItems
  <2> QED
    BY <2>1, <2>2 DEF j
<1> QED
  BY <1>1, <1>2 DEF Items, Stretch

\* What begins the page.
LEMMA StretchPrefix ==
    ASSUME NEW m \in 0..BottomAt
    PROVE  /\ IsPrefix(Stretch(0, m), FullPage)
           /\ m = BottomAt => Stretch(0, m) = FullPage
<1>1. BottomAt \in Nat /\ m \in Nat /\ 0 <= m /\ m <= BottomAt /\ m - 0 = m
  BY PageSizes
<1> DEFINE s == Stretch(0, m)
<1>2. s \in Seq(Texts) /\ Len(s) = m /\ \A i \in 1..m : s[i] = FullPage[0 + i]
  <2>1. s \in Seq(Texts) /\ Len(s) = m - 0 /\ \A i \in 1..(m - 0) : s[i] = FullPage[0 + i]
    BY <1>1, StretchType
  <2> QED
    BY <1>1, <2>1
<1> HIDE DEF s
<1>3. \A i \in 1..m : s[i] = FullPage[i]
  BY <1>1, <1>2
<1>4. FullPage \in Seq(Texts) /\ Len(FullPage) = BottomAt
  BY PageItems
<1>5. SubSeq(s, 1, m) = SubSeq(FullPage, 1, m)
  <2>1. SubSeq(s, 1, m) \in Seq(Texts) /\ Len(SubSeq(s, 1, m)) = m
        /\ \A i \in 1..m : SubSeq(s, 1, m)[i] = s[i]
    BY <1>1, <1>2
  <2>2. SubSeq(FullPage, 1, m) \in Seq(Texts) /\ Len(SubSeq(FullPage, 1, m)) = m
        /\ \A i \in 1..m : SubSeq(FullPage, 1, m)[i] = FullPage[i]
    BY <1>1, <1>4
  <2> QED
    BY <1>1, <1>3, <2>1, <2>2
<1>6. IsPrefix(s, FullPage)
  BY <1>1, <1>2, <1>4, <1>5 DEF IsPrefix
<1>7. ASSUME m = BottomAt PROVE s = FullPage
  BY <1>2, <1>3, <1>4, <1>7
<1> QED
  BY <1>6, <1>7 DEF s

-----------------------------------------------------------------------------
(* Each segment is the next stretch of the page.                           *)

\* The static variables, of any values.
Statics(p) == p \in [nbr : {p.nbr}, r : {p.r}, blen : Nat, buf : {p.buf}]

\* What is in buf is the stretch from a to m.
Holds(p, a, m) == IF p.blen = 0 THEN a = m ELSE p.buf = Stretch(a, m)

\* The segment that generate_routes sends is the stretch that begins at a.
Sends(o, a) ==
    /\ o.out # "idle" /\ MidLoop(o.out, o.page)
    /\ SentUpTo(o.out, o.page) \in Nat
    /\ a < SentUpTo(o.out, o.page) /\ SentUpTo(o.out, o.page) <= BottomAt
    /\ Segment(o.out, o.page) = Stretch(a, SentUpTo(o.out, o.page))

LEMMA PageStatics == ASSUME NEW p, IsPage(p) PROVE Statics(p)
<1>1. p.blen \in Nat
  BY PageFields
<1> QED
  BY <1>1 DEF IsPage, Statics

LEMMA StaticsUpdate ==
    ASSUME NEW p, Statics(p), NEW x
    PROVE  /\ Statics([p EXCEPT !.nbr = x]) /\ [p EXCEPT !.nbr = x].nbr = x
           /\ [p EXCEPT !.nbr = x].r = p.r /\ [p EXCEPT !.nbr = x].blen = p.blen
           /\ [p EXCEPT !.nbr = x].buf = p.buf
           /\ Statics([p EXCEPT !.r = x]) /\ [p EXCEPT !.r = x].r = x
           /\ [p EXCEPT !.r = x].nbr = p.nbr /\ [p EXCEPT !.r = x].blen = p.blen
           /\ [p EXCEPT !.r = x].buf = p.buf
<1>1. Statics([p EXCEPT !.nbr = x])
  BY DEF Statics
<1>2. Statics([p EXCEPT !.r = x])
  BY DEF Statics
<1>3. /\ [p EXCEPT !.nbr = x].nbr = x
      /\ [p EXCEPT !.nbr = x].r = p.r /\ [p EXCEPT !.nbr = x].blen = p.blen
      /\ [p EXCEPT !.nbr = x].buf = p.buf
  BY DEF Statics
<1>4. /\ [p EXCEPT !.r = x].r = x
      /\ [p EXCEPT !.r = x].nbr = p.nbr /\ [p EXCEPT !.r = x].blen = p.blen
      /\ [p EXCEPT !.r = x].buf = p.buf
  BY DEF Statics
<1> QED
  BY <1>1, <1>2, <1>3, <1>4

LEMMA StaticsFlushed ==
    ASSUME NEW p, Statics(p)
    PROVE  /\ Statics(flushed(p)) /\ flushed(p).blen = 0
           /\ flushed(p).nbr = p.nbr /\ flushed(p).r = p.r
  BY DEF Statics, flushed

LEMMA AddBuf ==
    ASSUME NEW p, Statics(p), NEW items, NEW len \in Nat
    PROVE  /\ Statics(ADD(p, items, len))
           /\ ADD(p, items, len).nbr = p.nbr /\ ADD(p, items, len).r = p.r
           /\ ADD(p, items, len).blen = p.blen + len
           /\ ADD(p, items, len).buf = IF p.blen = 0 THEN items ELSE p.buf \o items
<1> DEFINE x == p.blen + len
           y == IF p.blen = 0 THEN items ELSE p.buf \o items
           q == [p EXCEPT !.blen = x, !.buf = y]
<1>1. p.blen \in Nat /\ x \in Nat
  <2>1. p.blen \in Nat
    BY DEF Statics
  <2> QED
    BY <2>1
<1>2. ADD(p, items, len) = q
  BY DEF ADD
<1> HIDE DEF x, y
<1>3. q.nbr = p.nbr /\ q.r = p.r /\ q.blen = x /\ q.buf = y
  BY DEF Statics
<1>4. q \in [nbr : {p.nbr}, r : {p.r}, blen : Nat, buf : {y}]
  BY <1>1 DEF Statics
<1>5. Statics(q)
  BY <1>3, <1>4 DEF Statics
<1> QED
  BY <1>2, <1>3, <1>5 DEF x, y

\* ADD of the next stretch.
LEMMA AddStretch ==
    ASSUME NEW p, Statics(p), NEW len \in Nat,
           NEW a \in Nat, NEW m \in Nat, NEW n \in Nat,
           a <= m, m <= n, n <= BottomAt, Holds(p, a, m)
    PROVE  ADD(p, Stretch(m, n), len).buf = Stretch(a, n)
<1>1. ADD(p, Stretch(m, n), len).buf
          = IF p.blen = 0 THEN Stretch(m, n) ELSE p.buf \o Stretch(m, n)
  BY AddBuf
<1>2. CASE p.blen = 0
  BY <1>1, <1>2 DEF Holds
<1>3. CASE p.blen # 0
  <2>1. p.buf = Stretch(a, m)
    BY <1>3 DEF Holds
  <2>2. Stretch(a, m) \o Stretch(m, n) = Stretch(a, n)
    BY StretchCat
  <2>3. ADD(p, Stretch(m, n), len).buf = p.buf \o Stretch(m, n)
    BY <1>1, <1>3
  <2> QED
    BY <2>1, <2>2, <2>3
<1> QED
  BY <1>2, <1>3

LEMMA LoopSends ==
    ASSUME NEW p, Statics(p), p.nbr \in NbrPos, NEW a \in Nat, NEW m \in Nat,
           a <= m, m = (IF p.nbr = 0 THEN NumNbrs + 4 ELSE p.nbr + 3), Holds(p, a, m)
    PROVE  Sends(nbr_loop(p), a)
<1> DEFINE length(k) == NbrEnd[k] - NbrEnd[p.nbr - 1]
           full == {k \in p.nbr..NumNbrs : p.blen + length(k) > FlushMark}
           upto(k) == [ADD(p, Items("nbr", p.nbr, k), length(k)) EXCEPT !.nbr = k]
           done(q) == At("nbrend", ADD([q EXCEPT !.nbr = 0], <<Item("mid", 0)>>, 18))
<1>1. ASSUME NEW q, Statics(q), Holds(q, a, NumNbrs + 4), a <= NumNbrs + 4
      PROVE  Sends(done(q), a)
  <2> DEFINE z == [q EXCEPT !.nbr = 0]
             d == ADD(z, <<Item("mid", 0)>>, 18)
  <2>1. Statics(z) /\ z.blen = q.blen /\ z.buf = q.buf
    BY <1>1, StaticsUpdate
  <2> HIDE DEF z
  <2>2. Holds(z, a, NumNbrs + 4)
    BY <1>1, <2>1 DEF Holds
  <2>3. NumNbrs + 4 \in Nat /\ MidAt = NumNbrs + 4 + 1 /\ MidAt <= BottomAt /\ MidAt \in Nat
    BY PageSizes
  <2>4. <<Item("mid", 0)>> = Stretch(NumNbrs + 4, MidAt)
    <3>1. FullPage[MidAt] = Item("mid", 0)
      BY PageItems
    <3>2. <<FullPage[MidAt]>> = Stretch(NumNbrs + 4, MidAt)
      BY <2>3, StretchOne
    <3> QED
      BY <3>1, <3>2
  <2>5. ADD(z, Stretch(NumNbrs + 4, MidAt), 18).buf = Stretch(a, MidAt)
    <3>1. NumNbrs + 4 <= MidAt /\ 18 \in Nat
      BY <2>3
    <3> QED
      BY <1>1, <2>1, <2>2, <2>3, <3>1, AddStretch
  <2>6. d.buf = Stretch(a, MidAt)
    BY <2>4, <2>5
  <2> HIDE DEF d
  <2>7. At("nbrend", d).out = "nbrend" /\ At("nbrend", d).page = d
    BY DEF At
  <2>8. Sends(At("nbrend", d), a)
    <3>1. SentUpTo("nbrend", d) = MidAt /\ Segment("nbrend", d) = d.buf /\ MidLoop("nbrend", d)
      BY DEF SentUpTo, Segment, MidLoop, BufPoints
    <3>2. a < MidAt
      BY <1>1, <2>3
    <3> QED
      BY <2>3, <2>6, <2>7, <3>1, <3>2 DEF Sends
  <2> QED
    BY <2>8 DEF d, z
<1>2. CASE p.nbr = 0
  <2>1. nbr_loop(p) = done(p)
    BY <1>2 DEF nbr_loop
  <2>2. m = NumNbrs + 4
    BY <1>2
  <2> HIDE DEF done
  <2> QED
    BY <1>1, <2>1, <2>2
<1>3. CASE p.nbr # 0
  <2>1. p.nbr \in 1..NumNbrs /\ NumNbrs \in Nat /\ m = p.nbr + 3 /\ p.blen \in Nat
    <3>1. NumNbrs \in Nat
      BY PageSizes
    <3>2. p.blen \in Nat
      BY DEF Statics
    <3> QED
      BY <1>3, <3>1, <3>2 DEF NbrPos
  <2>2. ASSUME NEW k \in p.nbr..NumNbrs
        PROVE  length(k) \in Nat /\ length(k) > 0
    <3>1. p.nbr - 1 \in 0..NumNbrs /\ k - 1 \in (p.nbr - 1)..NumNbrs /\ k - 1 \in 0..NumNbrs
          /\ k \in 1..NumNbrs
      BY <2>1
    <3>2. NbrEnd[p.nbr - 1] <= NbrEnd[k - 1]
      BY <3>1, LengthsGrow
    <3>3. /\ NbrEnd[k] \in Nat /\ NbrEnd[k - 1] \in Nat /\ NbrEnd[k] - NbrEnd[k - 1] >= 3
      BY <3>1, Line
    <3>4. NbrEnd[p.nbr - 1] \in Nat
      BY <3>1, PageAssumption
    <3> QED
      BY <3>2, <3>3, <3>4
  <2>3. ASSUME NEW k \in p.nbr..NumNbrs, length(k) \in Nat, length(k) > 0
        PROVE  /\ Statics(upto(k)) /\ upto(k).nbr = k /\ upto(k).blen # 0
               /\ upto(k).buf = Stretch(a, k + 4)
    <3> DEFINE d == ADD(p, Items("nbr", p.nbr, k), length(k))
               x == length(k)
    <3>1. Items("nbr", p.nbr, k) = Stretch(m, k + 4)
      BY <2>1, StretchLines
    <3>2. k + 4 \in Nat /\ m <= k + 4 /\ k + 4 <= BottomAt
      BY <2>1, PageSizes
    <3>3. x \in Nat /\ x > 0
      BY <2>3
    <3> HIDE DEF x
    <3>4. ADD(p, Stretch(m, k + 4), x).buf = Stretch(a, k + 4)
      BY <3>2, <3>3, AddStretch
    <3>5. /\ Statics(ADD(p, Stretch(m, k + 4), x))
          /\ ADD(p, Stretch(m, k + 4), x).blen = p.blen + x
      BY <3>3, AddBuf
    <3>6. d = ADD(p, Stretch(m, k + 4), x)
      BY <3>1 DEF x
    <3> HIDE DEF d
    <3>7. /\ Statics([d EXCEPT !.nbr = k]) /\ [d EXCEPT !.nbr = k].nbr = k
          /\ [d EXCEPT !.nbr = k].blen = d.blen /\ [d EXCEPT !.nbr = k].buf = d.buf
      <4>1. Statics(d)
        BY <3>5, <3>6
      <4>2. Statics([d EXCEPT !.nbr = k])
        BY <4>1 DEF Statics
      <4>3. [d EXCEPT !.nbr = k].nbr = k
        BY <4>1 DEF Statics
      <4>4. [d EXCEPT !.nbr = k].blen = d.blen /\ [d EXCEPT !.nbr = k].buf = d.buf
        BY <4>1 DEF Statics
      <4> QED
        BY <4>2, <4>3, <4>4
    <3>8. p.blen + x # 0
      BY <2>1, <3>3
    <3>9. /\ [d EXCEPT !.nbr = k].buf = Stretch(a, k + 4) /\ [d EXCEPT !.nbr = k].blen # 0
      BY <3>4, <3>5, <3>6, <3>7, <3>8
    <3> QED
      BY <3>7, <3>9 DEF d
  <2>4. CASE full = {}
    <3>1. NumNbrs \in p.nbr..NumNbrs
      BY <2>1
    <3> DEFINE q == upto(NumNbrs)
    <3>2. length(NumNbrs) \in Nat /\ length(NumNbrs) > 0
      BY <2>2, <3>1
    <3>3. Statics(q) /\ q.blen # 0 /\ q.buf = Stretch(a, NumNbrs + 4)
      BY <2>3, <3>1, <3>2
    <3>4. nbr_loop(p) = done(q)
      BY <1>3, <2>4 DEF nbr_loop
    <3> HIDE DEF q, done
    <3>5. Holds(q, a, NumNbrs + 4) /\ a <= NumNbrs + 4
      BY <2>1, <3>3 DEF Holds
    <3> QED
      BY <1>1, <3>3, <3>4, <3>5
  <2>5. CASE full # {}
    <3> DEFINE k == Min(full)
               q == upto(k)
    <3>1. full \in SUBSET Nat
      BY <2>1
    <3>2. k \in full
      BY <2>5, <3>1, MinOfNats
    <3>3. nbr_loop(p) = At("nbrs", q)
      BY <1>3, <2>5 DEF nbr_loop
    <3>4. k \in p.nbr..NumNbrs
      BY <3>2
    <3> HIDE DEF k
    <3>5. length(k) \in Nat /\ length(k) > 0
      BY <2>2, <3>4
    <3>6. q.nbr = k /\ q.buf = Stretch(a, k + 4)
      BY <2>3, <3>4, <3>5
    <3> HIDE DEF q
    <3>7. /\ SentUpTo("nbrs", q) = k + 4 /\ Segment("nbrs", q) = q.buf
          /\ MidLoop("nbrs", q)
      <4>1. k # 0
        BY <2>1, <3>4
      <4> QED
        BY <3>6, <4>1 DEF SentUpTo, Segment, MidLoop, BufPoints
    <3>8. k + 4 \in Nat /\ a < k + 4 /\ k + 4 <= BottomAt
      BY <2>1, <3>4, PageSizes
    <3>9. At("nbrs", q).out = "nbrs" /\ At("nbrs", q).page = q
      BY DEF At
    <3>10. Sends(At("nbrs", q), a)
      BY <3>6, <3>7, <3>8, <3>9 DEF Sends
    <3> QED
      BY <3>3, <3>10
  <2> QED
    BY <2>4, <2>5
<1> QED
  BY <1>2, <1>3

LEMMA RouteSends ==
    ASSUME NEW p, Statics(p), p.blen = 0, p.r \in RoutePos, NEW a \in Nat,
           a + 1 = (IF p.r = 0 THEN EndAt ELSE p.r + MidAt)
    PROVE  Sends(route_loop(p), a)
<1>1. CASE p.r = 0
  <2> DEFINE d == ADD(p, <<Item("end", 0)>>, 6)
  <2>1. a + 1 = EndAt /\ EndAt \in Nat /\ EndAt <= BottomAt /\ a < EndAt
    BY <1>1, PageSizes
  <2>2. <<Item("end", 0)>> = Stretch(a, EndAt)
    <3>1. <<FullPage[EndAt]>> = Stretch(a, EndAt)
      BY <2>1, StretchOne
    <3> QED
      BY <3>1, PageItems
  <2>3. d.buf = <<Item("end", 0)>>
    BY AddBuf
  <2>4. route_loop(p) = At("end", d)
    BY <1>1 DEF route_loop
  <2> HIDE DEF d
  <2>5. SentUpTo("end", d) = EndAt /\ Segment("end", d) = d.buf /\ MidLoop("end", d)
    BY DEF SentUpTo, Segment, MidLoop, BufPoints
  <2>6. At("end", d).out = "end" /\ At("end", d).page = d
    BY DEF At
  <2> QED
    BY <2>1, <2>2, <2>3, <2>4, <2>5, <2>6 DEF Sends
<1>2. CASE p.r # 0
  <2> DEFINE d == ADD(p, <<Item("route", p.r)>>, RouteLen[p.r])
  <2>1. p.r \in 1..NumRoutes
    BY <1>2, PageSizes DEF RoutePos
  <2>2. a + 1 = p.r + MidAt /\ p.r + MidAt \in Nat /\ p.r + MidAt <= BottomAt /\ a < p.r + MidAt
    BY <1>2, <2>1, PageSizes
  <2>3. <<Item("route", p.r)>> = Stretch(a, p.r + MidAt)
    <3>1. <<FullPage[p.r + MidAt]>> = Stretch(a, p.r + MidAt)
      BY <2>2, StretchOne
    <3> QED
      BY <2>1, <3>1, PageItems
  <2>4. d.buf = <<Item("route", p.r)>> /\ d.r = p.r
    <3>1. RouteLen[p.r] \in Nat
      <4>1. RouteLen[p.r] \in 1..102
        BY <2>1, PageAssumption
      <4> QED
        BY <4>1
    <3> QED
      BY <3>1, AddBuf
  <2>5. route_loop(p) = At("routes", d)
    BY <1>2 DEF route_loop
  <2> HIDE DEF d
  <2>6. /\ SentUpTo("routes", d) = p.r + MidAt /\ Segment("routes", d) = d.buf
        /\ MidLoop("routes", d)
    BY <1>2, <2>4 DEF SentUpTo, Segment, MidLoop, BufPoints
  <2>7. At("routes", d).out = "routes" /\ At("routes", d).page = d
    BY DEF At
  <2> QED
    BY <2>2, <2>3, <2>4, <2>5, <2>6, <2>7 DEF Sends
<1> QED
  BY <1>1, <1>2

\* The segments that are a single item.
LEMMA ItemSends ==
    ASSUME NEW out \in {"status", "type", "top", "bottom"}, NEW p, NEW a \in Nat,
           a + 1 = SentUpTo(out, p)
    PROVE  Sends(At(out, p), a)
<1> DEFINE n == SentUpTo(out, p)
<1>1. n = IF out = "status" THEN 1 ELSE IF out = "type" THEN 2
          ELSE IF out = "top" THEN 3 ELSE BottomAt
  BY DEF SentUpTo
<1>2. n \in Nat /\ a < n /\ n <= BottomAt
  BY <1>1, PageSizes
<1>3. FullPage[n] = Item(out, 0)
  BY <1>1, PageItems
<1>4. Segment(out, p) = <<Item(out, 0)>> /\ MidLoop(out, p)
  BY DEF Segment, MidLoop, BufPoints
<1>5. At(out, p).out = out /\ At(out, p).page = p
  BY DEF At
<1> HIDE DEF n
<1>6. <<FullPage[n]>> = Stretch(a, n)
  BY <1>2, StretchOne DEF n
<1>7. Segment(out, p) = Stretch(a, n)
  BY <1>3, <1>4, <1>6
<1> QED
  BY <1>2, <1>4, <1>5, <1>7 DEF Sends, n

\* handle_output goes on where it stopped: what it sends next is the stretch
\* after the one sent last, up to the end of the page.
LEMMA OutputSends ==
    ASSUME NEW p, Statics(p), p.nbr \in NbrPos, p.r \in RoutePos,
           NEW out \in Points \ {"bottom"}, MidLoop(out, p)
    PROVE  SentUpTo(out, p) \in Nat /\ Sends(handle_output(out, p), SentUpTo(out, p))
<1> DEFINE q == flushed(p)
<1>1. /\ Statics(q) /\ q.blen = 0 /\ q.nbr = p.nbr /\ q.r = p.r
  BY StaticsFlushed
<1>2. p.nbr \in Nat /\ p.nbr <= NumNbrs /\ p.r \in Nat /\ p.r <= NumRoutes
  BY PageSizes DEF NbrPos, RoutePos
<1> HIDE DEF q
<1>3. CASE out \in {"idle", "status", "type"}
  <2> DEFINE o == IF out = "idle" THEN "status" ELSE IF out = "status" THEN "type" ELSE "top"
  <2>1. handle_output(out, p) = At(o, p) /\ o \in {"status", "type", "top", "bottom"}
    BY <1>3 DEF handle_output
  <2>2. SentUpTo(out, p) \in Nat /\ SentUpTo(out, p) + 1 = SentUpTo(o, p)
    BY <1>3 DEF SentUpTo
  <2> HIDE DEF o
  <2> QED
    BY <2>1, <2>2, ItemSends
<1>4. CASE out = "end"
  <2>1. handle_output(out, p) = At("bottom", p)
    BY <1>4 DEF handle_output, generate_routes
  <2>2. SentUpTo(out, p) \in Nat /\ SentUpTo(out, p) + 1 = SentUpTo("bottom", p)
    BY <1>4, PageSizes DEF SentUpTo
  <2> QED
    BY <2>1, <2>2, ItemSends
<1>5. CASE out = "top"
  <2> DEFINE d == ADD(q, <<Item("head", 0)>>, 14)
             n == [d EXCEPT !.nbr = list_head(NumNbrs)]
             m == IF n.nbr = 0 THEN NumNbrs + 4 ELSE n.nbr + 3
  <2>1. Statics(d) /\ d.blen = 14 /\ d.buf = <<Item("head", 0)>>
    <3>1. 14 \in Nat
      OBVIOUS
    <3>2. Statics(d) /\ d.blen = q.blen + 14
          /\ d.buf = IF q.blen = 0 THEN <<Item("head", 0)>> ELSE q.buf \o <<Item("head", 0)>>
      BY <1>1, <3>1, AddBuf
    <3> HIDE DEF d
    <3> QED
      BY <1>1, <3>2
  <2>2. handle_output(out, p) = nbr_loop(n)
    BY <1>5 DEF handle_output, generate_routes, BufPoints, q
  <2> HIDE DEF d
  <2>3. Statics(n) /\ n.nbr = list_head(NumNbrs) /\ n.blen = 14 /\ n.buf = <<Item("head", 0)>>
    <3>1. Statics(n)
      BY <2>1 DEF Statics
    <3>2. n.nbr = list_head(NumNbrs) /\ n.blen = d.blen /\ n.buf = d.buf
      BY <2>1 DEF Statics
    <3> QED
      BY <2>1, <3>1, <3>2
  <2> HIDE DEF n
  <2>4. n.nbr \in NbrPos /\ m = 4
    <3>1. list_head(NumNbrs) = IF NumNbrs = 0 THEN 0 ELSE 1
      BY DEF list_head
    <3> QED
      BY <2>3, <3>1, PageSizes DEF NbrPos
  <2>5. <<Item("head", 0)>> = Stretch(3, 4)
    <3>1. 4 <= BottomAt
      BY PageSizes
    <3>2. <<FullPage[4]>> = Stretch(3, 4)
      BY <3>1, StretchOne
    <3> QED
      BY <3>2, PageItems
  <2>6. Holds(n, 3, 4)
    BY <2>3, <2>5 DEF Holds
  <2>7. Sends(nbr_loop(n), 3)
    <3>1. Holds(n, 3, m) /\ m \in Nat /\ 3 <= m
      BY <2>4, <2>6
    <3> QED
      BY <2>3, <2>4, <3>1, LoopSends
  <2>8. SentUpTo(out, p) = 3
    BY <1>5 DEF SentUpTo
  <2> QED
    BY <2>2, <2>7, <2>8
<1>6. CASE out = "nbrs"
  <2> DEFINE n == [q EXCEPT !.nbr = list_next(p.nbr, NumNbrs)]
             m == IF n.nbr = 0 THEN NumNbrs + 4 ELSE n.nbr + 3
  <2>1. handle_output(out, p) = nbr_loop(n)
    BY <1>6 DEF handle_output, generate_routes, BufPoints, q
  <2>2. Statics(n) /\ n.nbr = list_next(p.nbr, NumNbrs) /\ n.blen = 0
    <3>1. Statics(n)
      BY <1>1 DEF Statics
    <3>2. n.nbr = list_next(p.nbr, NumNbrs) /\ n.blen = q.blen
      BY <1>1 DEF Statics
    <3> QED
      BY <1>1, <3>1, <3>2
  <2> HIDE DEF n
  <2>3. p.nbr # 0
    BY <1>6 DEF MidLoop
  <2>4. n.nbr \in NbrPos /\ m = p.nbr + 4
    <3>1. list_next(p.nbr, NumNbrs) = IF p.nbr = NumNbrs THEN 0 ELSE p.nbr + 1
      BY <2>3 DEF list_next
    <3> QED
      BY <1>2, <2>2, <3>1, PageSizes DEF NbrPos
  <2>5. SentUpTo(out, p) = p.nbr + 4 /\ p.nbr + 4 \in Nat
    BY <1>2, <1>6 DEF SentUpTo
  <2>6. Sends(nbr_loop(n), p.nbr + 4)
    <3>1. Holds(n, p.nbr + 4, m) /\ m \in Nat /\ p.nbr + 4 <= m
      BY <2>2, <2>4, <2>5 DEF Holds
    <3> QED
      BY <2>2, <2>4, <2>5, <3>1, LoopSends
  <2> QED
    BY <2>1, <2>5, <2>6
<1>7. CASE out = "nbrend"
  <2> DEFINE n == [q EXCEPT !.r = list_head(NumRoutes)]
  <2>1. handle_output(out, p) = route_loop(n)
    BY <1>7 DEF handle_output, generate_routes, BufPoints, q
  <2>2. Statics(n) /\ n.r = list_head(NumRoutes) /\ n.blen = 0
    <3>1. Statics(n)
      BY <1>1 DEF Statics
    <3>2. n.r = list_head(NumRoutes) /\ n.blen = q.blen
      BY <1>1 DEF Statics
    <3> QED
      BY <1>1, <3>1, <3>2
  <2> HIDE DEF n
  <2>3. n.r \in RoutePos /\ MidAt + 1 = (IF n.r = 0 THEN EndAt ELSE n.r + MidAt)
    <3>1. list_head(NumRoutes) = IF NumRoutes = 0 THEN 0 ELSE 1
      BY DEF list_head
    <3> QED
      BY <2>2, <3>1, PageSizes DEF RoutePos
  <2>4. SentUpTo(out, p) = MidAt /\ MidAt \in Nat
    BY <1>7, PageSizes DEF SentUpTo
  <2> QED
    BY <2>1, <2>2, <2>3, <2>4, RouteSends
<1>8. CASE out = "routes"
  <2> DEFINE n == [q EXCEPT !.r = list_next(p.r, NumRoutes)]
             a == p.r + MidAt
  <2>1. handle_output(out, p) = route_loop(n)
    BY <1>8 DEF handle_output, generate_routes, BufPoints, q
  <2>2. Statics(n) /\ n.r = list_next(p.r, NumRoutes) /\ n.blen = 0
    <3>1. Statics(n)
      BY <1>1 DEF Statics
    <3>2. n.r = list_next(p.r, NumRoutes) /\ n.blen = q.blen
      BY <1>1 DEF Statics
    <3> QED
      BY <1>1, <3>1, <3>2
  <2> HIDE DEF n
  <2>3. p.r # 0
    BY <1>8 DEF MidLoop
  <2>4. n.r \in RoutePos /\ a + 1 = (IF n.r = 0 THEN EndAt ELSE n.r + MidAt)
    <3>1. list_next(p.r, NumRoutes) = IF p.r = NumRoutes THEN 0 ELSE p.r + 1
      BY <2>3 DEF list_next
    <3> QED
      BY <1>2, <2>2, <3>1, PageSizes DEF RoutePos
  <2>5. SentUpTo(out, p) = a /\ a \in Nat
    BY <1>2, <1>8, PageSizes DEF SentUpTo
  <2> HIDE DEF a
  <2> QED
    BY <2>1, <2>2, <2>4, <2>5, RouteSends
<1> QED
  BY <1>3, <1>4, <1>5, <1>6, <1>7, <1>8 DEF Points, BufPoints

-----------------------------------------------------------------------------
(* The handler, for the peer it serves.                                    *)

\* Words come in new data only, and an acknowledgement is no retransmission.
Legal(s, ev) ==
    /\ Readable(s, ev) /\ (ev.good \/ s.in # 2)
    /\ ev.rexmit => ev.words = 0 /\ ~ev.acked

\* A connection goes on to send until it has sent the end of the page.
LEMMA OutputBusy ==
    ASSUME NEW p, NEW out \in Points \ {"bottom"}
    PROVE  handle_output(out, p).out # "idle"
<1>1. ASSUME NEW q PROVE nbr_loop(q).out # "idle"
  <2> DEFINE length(k) == NbrEnd[k] - NbrEnd[q.nbr - 1]
             full == {k \in q.nbr..NumNbrs : q.blen + length(k) > FlushMark}
             upto(k) == [ADD(q, Items("nbr", q.nbr, k), length(k)) EXCEPT !.nbr = k]
             done(z) == At("nbrend", ADD([z EXCEPT !.nbr = 0], <<Item("mid", 0)>>, 18))
  <2>1. nbr_loop(q) = IF q.nbr = 0 THEN done(q)
                      ELSE IF full = {} THEN done(upto(NumNbrs))
                      ELSE At("nbrs", upto(Min(full)))
    BY DEF nbr_loop
  <2>2. \A z : done(z).out # "idle" /\ At("nbrs", z).out # "idle"
    BY DEF At
  <2> HIDE DEF done, full, upto
  <2> QED
    BY <2>1, <2>2
<1>2. ASSUME NEW q PROVE route_loop(q).out # "idle"
  BY DEF route_loop, At
<1>3. CASE out \in {"idle", "status", "type", "end"}
  BY <1>3 DEF handle_output, generate_routes, At
<1>4. CASE out \in {"top", "nbrs", "nbrend", "routes"}
  BY <1>1, <1>2, <1>4 DEF handle_output, generate_routes
<1> QED
  BY <1>3, <1>4 DEF Points, BufPoints

LEMMA StretchSome ==
    ASSUME NEW m \in Nat, NEW n \in Nat, m < n, n <= BottomAt
    PROVE  Stretch(m, n) # <<>>
<1>1. m <= n /\ n - m # 0
  OBVIOUS
<1>2. Stretch(m, n) \in Seq(Texts) /\ Len(Stretch(m, n)) = n - m
  BY <1>1, StretchType
<1> QED
  BY <1>1, <1>2

\* What a peer has got and what is on its way make a stretch from the start.
LEMMA UnderwayGot ==
    ASSUME NEW out \in Points, NEW p, NEW mine, Underway(out, p, mine),
           SentUpTo(out, p) \in Nat, SentUpTo(out, p) <= BottomAt
    PROVE  /\ mine.got \o mine.seg = Stretch(0, SentUpTo(out, p))
           /\ out = "idle" => mine.got = <<>> /\ mine.seg = <<>>
<1> DEFINE n == SentUpTo(out, p)
<1>1. PICK m \in 0..n : mine.got = Stretch(0, m) /\ mine.seg = Stretch(m, n)
  BY DEF Underway
<1>2. m \in Nat /\ 0 <= m /\ m <= n /\ n \in Nat /\ n <= BottomAt
  BY <1>1
<1> HIDE DEF n
<1>3. Stretch(0, m) \o Stretch(m, n) = Stretch(0, n)
  BY <1>2, StretchCat
<1>4. ASSUME out = "idle" PROVE mine.got = <<>> /\ mine.seg = <<>>
  <2>1. n = 0 /\ m = 0
    BY <1>2, <1>4 DEF n, SentUpTo
  <2>2. <<>> = Stretch(0, 0)
    BY StretchEmpty
  <2> QED
    BY <1>1, <2>1, <2>2
<1>5. mine.got \o mine.seg = Stretch(0, n)
  BY <1>1, <1>3
<1> QED
  BY <1>4, <1>5 DEF n

LEMMA NothingUnderway ==
    ASSUME NEW p, NEW mine, mine.got = <<>>, mine.seg = <<>>
    PROVE  Underway("idle", p, mine)
<1> DEFINE out == "idle"
<1>1. SentUpTo(out, p) = 0
  BY DEF SentUpTo
<1>2. Segment(out, p) = <<>>
  BY DEF Segment, BufPoints
<1>3. MidLoop(out, p)
  BY DEF MidLoop
<1>4. <<>> = Stretch(0, 0)
  BY StretchEmpty
<1> QED
  BY <1>1, <1>2, <1>3, <1>4 DEF Underway

LEMMA SentWithin ==
    ASSUME NEW p, IsPage(p), NEW out \in Points
    PROVE  SentUpTo(out, p) \in Nat /\ SentUpTo(out, p) <= BottomAt
<1>1. p.nbr \in Nat /\ p.nbr <= NumNbrs /\ p.r \in Nat /\ p.r <= NumRoutes
  BY PageFields
<1> QED
  BY <1>1, PageSizes DEF SentUpTo, Points, BufPoints

\* handle_connection keeps what the peer gets in order.
LEMMA HandlerServes ==
    ASSUME NEW p, IsPage(p), NEW s \in BlockStates, NEW ev, Legal(s, ev), NEW mine,
           Serving("open", s, mine, p), NEW h, h = handle_connection(s, p, ev),
           NEW got, got = (IF ev.acked THEN mine.got \o mine.seg ELSE mine.got),
           NEW seg, seg = (IF h.tx # <<>> THEN h.tx ELSE IF ev.acked THEN <<>> ELSE mine.seg),
           NEW carried \in IF ev.rexmit THEN {mine.seg, h.tx} ELSE {seg},
           NEW new, new.alone = mine.alone,
           mine.alone => new.got = got /\ new.seg = carried
    PROVE  Serving(IF h.close THEN "closing" ELSE "open", h.s, new, h.page)
<1> DEFINE in == s.in + ev.words
           go == in = 2 /\ ev.good /\ (s.out = "idle" \/ ev.acked)
           o == IF go THEN handle_output(s.out, p) ELSE At(s.out, p)
<1>1. /\ h.s = [s EXCEPT !.in = IF ev.good THEN in ELSE 0, !.out = o.out]
      /\ h.page = o.page
      /\ h.tx = IF go \/ (in = 2 /\ ev.good /\ ev.rexmit)
                THEN Segment(o.out, o.page) ELSE <<>>
      /\ h.close = (~ev.good \/ (go /\ s.out = "bottom"))
  BY DEF handle_connection
<1>2. /\ s.in \in 0..2 /\ s.out \in Points
      /\ ev.words \in 0..2 /\ in \in 0..2
  BY DEF BlockStates, Legal, Readable, Events
<1>3. h.s.in = (IF ev.good THEN in ELSE 0) /\ h.s.out = o.out
  BY <1>1 DEF BlockStates
<1>4. s.in = 2 <=> s.out # "idle"
  BY DEF Serving
<1>5. mine.alone => Underway(s.out, p, mine)
  BY DEF Serving
<1>6. SentUpTo(s.out, p) \in Nat /\ SentUpTo(s.out, p) <= BottomAt
  BY <1>2, SentWithin
<1>7. ASSUME mine.alone
      PROVE  /\ mine.got \o mine.seg = Stretch(0, SentUpTo(s.out, p))
             /\ s.out = "idle" => mine.got = <<>> /\ mine.seg = <<>>
  BY <1>2, <1>5, <1>6, <1>7, UnderwayGot
<1>8. /\ ev.rexmit => ev.words = 0 /\ ~ev.acked
      /\ ev.good \/ s.in # 2
  BY DEF Legal
<1> HIDE DEF go, o, in
<1>9. CASE go
  <2>1. in = 2 /\ ev.good /\ (s.out = "idle" \/ ev.acked) /\ ~ev.rexmit
    <3>1. in = 2 /\ ev.good /\ (s.out = "idle" \/ ev.acked)
      BY <1>9 DEF go
    <3>2. ASSUME ev.rexmit PROVE FALSE
      <4>1. s.in = 2
        BY <1>2, <1>8, <3>1, <3>2 DEF in
      <4> QED
        BY <4>1, <1>4, <1>8, <3>1, <3>2
    <3> QED
      BY <3>1, <3>2
  <2>2. o = handle_output(s.out, p) /\ h.tx = Segment(o.out, o.page) /\ carried = seg
    BY <1>1, <1>9, <2>1 DEF o
  <2>3. h.s.in = 2
    BY <1>3, <2>1
  <2>4. ASSUME mine.alone PROVE got = Stretch(0, SentUpTo(s.out, p))
    <3>1. CASE ev.acked
      BY <1>7, <2>4, <3>1
    <3>2. CASE ~ev.acked
      <4>1. s.out = "idle" /\ got = <<>>
        BY <1>7, <2>1, <2>4, <3>2
      <4>2. SentUpTo(s.out, p) = 0
        BY <4>1 DEF SentUpTo
      <4>3. <<>> = Stretch(0, 0)
        BY StretchEmpty
      <4> QED
        BY <4>1, <4>2, <4>3
    <3> QED
      BY <3>1, <3>2
  <2>5. CASE s.out = "bottom"
    <3>1. h.close
      BY <1>1, <1>9, <2>5
    <3>2. ASSUME new.alone PROVE Finished(h.s, new)
      <4>1. SentUpTo(s.out, p) = BottomAt
        BY <2>5 DEF SentUpTo
      <4>2. new.got = Stretch(0, BottomAt)
        BY <2>4, <3>2, <4>1
      <4>3. BottomAt \in 0..BottomAt
        BY PageSizes
      <4> QED
        BY <4>2, <4>3 DEF Finished
    <3> QED
      BY <3>1, <3>2 DEF Serving
  <2>6. CASE s.out # "bottom"
    <3>1. ~h.close
      BY <1>1, <2>1, <2>6
    <3>2. o.out # "idle"
      BY <1>2, <2>2, <2>6, OutputBusy
    <3>3. ASSUME new.alone PROVE Underway(h.s.out, h.page, new)
      <4> DEFINE a == SentUpTo(s.out, p)
                 n == SentUpTo(o.out, o.page)
      <4>1. MidLoop(s.out, p)
        BY <1>5, <3>3 DEF Underway
      <4>2. Statics(p) /\ p.nbr \in NbrPos /\ p.r \in RoutePos
        BY PageStatics DEF IsPage
      <4>3. Sends(o, a)
        BY <1>2, <2>2, <2>6, <4>1, <4>2, OutputSends
      <4>4. /\ n \in Nat /\ a < n /\ n <= BottomAt /\ MidLoop(o.out, o.page)
            /\ Segment(o.out, o.page) = Stretch(a, n)
        BY <4>3 DEF Sends
      <4>5. a \in Nat
        BY <1>6
      <4> HIDE DEF a, n
      <4>6. h.tx # <<>>
        <5>1. Stretch(a, n) # <<>>
          BY <4>4, <4>5, StretchSome
        <5> QED
          BY <2>2, <4>4, <5>1
      <4>7. new.seg = Segment(o.out, o.page) /\ new.seg = Stretch(a, n)
        BY <2>2, <3>3, <4>4, <4>6
      <4>8. new.got = Stretch(0, a)
        BY <2>4, <3>3 DEF a
      <4>9. a \in 0..n
        BY <4>4, <4>5
      <4>10. Underway(o.out, o.page, new)
        BY <4>4, <4>7, <4>8, <4>9 DEF Underway, n
      <4> QED
        BY <1>1, <1>3, <4>10
    <3> QED
      BY <1>3, <2>3, <3>1, <3>2, <3>3 DEF Serving
  <2> QED
    BY <2>5, <2>6
<1>10. CASE ~go
  <2>1. o.out = s.out /\ o.page = p
    BY <1>10 DEF o, At
  <2>2. CASE ~ev.good
    <3>1. h.close /\ h.s.in = 0 /\ s.out = "idle"
      BY <1>1, <1>2, <1>3, <1>4, <1>8, <2>2
    <3>2. ASSUME new.alone PROVE Finished(h.s, new)
      <4>1. SentUpTo(s.out, p) = 0
        BY <3>1 DEF SentUpTo
      <4>2. <<>> = Stretch(0, 0)
        BY StretchEmpty
      <4>3. new.got = Stretch(0, 0)
        BY <1>7, <3>1, <3>2, <4>1, <4>2
      <4>4. 0 \in 0..BottomAt
        BY PageSizes
      <4> QED
        BY <3>1, <4>3, <4>4 DEF Finished
    <3> QED
      BY <3>1, <3>2 DEF Serving
  <2>3. CASE ev.good /\ in # 2
    <3>1. ~h.close /\ h.s.in = in /\ h.tx = <<>>
      BY <1>1, <1>3, <1>10, <2>3
    <3>2. s.out = "idle"
      <4>1. s.in # 2
        BY <1>2, <2>3 DEF in
      <4> QED
        BY <4>1, <1>4
    <3>3. ASSUME new.alone PROVE Underway(h.s.out, h.page, new)
      <4>1. mine.got = <<>> /\ mine.seg = <<>> /\ mine.got \o mine.seg = Stretch(0, 0)
        <5>1. SentUpTo(s.out, p) = 0
          BY <3>2 DEF SentUpTo
        <5> QED
          BY <1>7, <3>2, <3>3, <5>1
      <4>2. <<>> = Stretch(0, 0)
        BY StretchEmpty
      <4>3. got = <<>> /\ seg = <<>>
        BY <3>1, <4>1, <4>2
      <4>4. carried = <<>>
        BY <3>1, <4>1, <4>3
      <4>5. new.got = <<>> /\ new.seg = <<>>
        BY <3>3, <4>3, <4>4
      <4> QED
        BY <1>3, <2>1, <3>2, <4>5, NothingUnderway
    <3> QED
      BY <1>3, <2>1, <2>3, <3>1, <3>2, <3>3 DEF Serving
  <2>4. CASE ev.good /\ in = 2
    <3>1. s.out # "idle" /\ ~ev.acked /\ ~h.close /\ h.s.in = 2
      BY <1>1, <1>3, <1>10, <2>4 DEF go
    <3>2. ASSUME new.alone PROVE Underway(h.s.out, h.page, new)
      <4>1. mine.seg = Segment(s.out, p)
        BY <1>5, <3>2 DEF Underway
      <4>2. h.tx \in {mine.seg, <<>>}
        BY <1>1, <2>1, <4>1
      <4>3. new.got = mine.got
        BY <3>1, <3>2
      <4>4. new.seg = mine.seg
        <5>1. CASE ev.rexmit
          <6>1. h.tx = mine.seg
            BY <1>1, <2>1, <2>4, <4>1, <5>1
          <6> QED
            BY <3>2, <5>1, <6>1
        <5>2. CASE ~ev.rexmit
          <6>1. seg = mine.seg
            BY <3>1, <4>2
          <6> QED
            BY <3>2, <5>2, <6>1
        <5> QED
          BY <5>1, <5>2
      <4>5. Underway(s.out, p, new)
        BY <1>5, <3>2, <4>3, <4>4 DEF Underway
      <4> QED
        BY <1>1, <1>3, <2>1, <4>5
    <3> QED
      BY <1>3, <2>1, <3>1, <3>2 DEF Serving
  <2> QED
    BY <2>2, <2>3, <2>4
<1> QED
  BY <1>9, <1>10

-----------------------------------------------------------------------------
(* PageInv is kept: one step for each action.                              *)

\* PageInv, of any values: one function of what each peer has got.
Peers(cl, cn, bl, p, rob) ==
    /\ cl = [c \in Connections |-> cl[c]]
    /\ \A c \in Connections :
          /\ IsClient(cl[c])
          /\ cn[c].tcp = "new" => cl[c] = Unseen
          /\ ~rob /\ IsLive(cn[c]) => Serving(cn[c].tcp, bl[cn[c].s], cl[c], p)

LEMMA PeersNow == PageInv <=> Peers(client, conn, st, page, robbed)
  BY DEF PageInv, Peers, Live, IsLive

LEMMA PeersThen == PageInv' <=> Peers(client', conn', st', page', robbed')
  BY DEF PageInv, Peers, Live, IsLive, Serving, Underway, Finished, MidLoop, Segment,
         SentUpTo, IsClient

LEMMA SeenClients ==
    /\ IsClient(Unseen) /\ Unseen.got = <<>> /\ Unseen.seg = <<>>
    /\ IsClient(Spoiled) /\ Spoiled.alone = FALSE
<1>1. /\ Unseen.got = <<>> /\ Unseen.seg = <<>> /\ IsClient(Unseen)
  BY DEF Unseen, IsClient
<1>2. Spoiled.alone = FALSE /\ IsClient(Spoiled)
  BY DEF Unseen, Spoiled, IsClient
<1> QED
  BY <1>1, <1>2

\* Outside of BufPoints the static variables do not matter.
LEMMA ServingOther ==
    ASSUME NEW tcp, NEW s \in BlockStates, NEW mine, NEW p, NEW q, Serving(tcp, s, mine, p),
           p = q \/ s.out \notin BufPoints
    PROVE  Serving(tcp, s, mine, q)
<1>1. CASE p = q
  BY <1>1
<1>2. CASE s.out \notin BufPoints
  <2>1. ASSUME Underway(s.out, p, mine) PROVE Underway(s.out, q, mine)
    <3>1. /\ SentUpTo(s.out, p) = SentUpTo(s.out, q)
          /\ Segment(s.out, p) = Segment(s.out, q)
          /\ MidLoop(s.out, q)
      BY <1>2 DEF SentUpTo, Segment, MidLoop, BufPoints, BlockStates, Points
    <3> QED
      BY <2>1, <3>1 DEF Underway
  <2> QED
    BY <2>1 DEF Serving
<1> QED
  BY <1>1, <1>2

\* A page that is spoiled is not claimed to arrive.
LEMMA ServingSpoiled ==
    ASSUME NEW tcp, NEW s, NEW mine, NEW p, NEW q, Serving(tcp, s, mine, p)
    PROVE  Serving(tcp, s, Spoiled, q)
  BY SeenClients DEF Serving

\* The timer of a block does not matter.
LEMMA ServingTimer ==
    ASSUME NEW tcp, NEW s, NEW z, NEW mine, NEW p, Serving(tcp, s, mine, p),
           z.in = s.in, z.out = s.out
    PROVE  Serving(tcp, z, mine, p)
  BY DEF Serving, Finished

LEMMA FreshServing == ASSUME NEW p PROVE Serving("open", Fresh, Unseen, p)
<1>1. Underway("idle", p, Unseen)
  BY SeenClients, NothingUnderway
<1> QED
  BY <1>1 DEF Serving, Fresh

\* The handler, for all peers.
LEMMA HandlePage ==
    ASSUME HttpdInv, PageInv, NEW c \in Connections, NEW b \in Blocks, NEW s \in BlockStates,
           NEW ev, Legal(s, ev), Handle(c, b, s, ev),
           robbed' = robbed, ~robbed => Serving("open", s, client[c], page),
           ~robbed => \A d \in Connections \ {c} : IsLive(conn[d]) => conn[d].s # b
    PROVE  PageInv'
<1> DEFINE h == handle_connection(s, page, ev)
           mine == client[c]
           got == IF ev.acked THEN mine.got \o mine.seg ELSE mine.got
           seg == IF h.tx # <<>> THEN h.tx ELSE IF ev.acked THEN <<>> ELSE mine.seg
           spoils(d) == d # c /\ Live(d) /\ h.page # page /\ st[conn[d].s].out \in BufPoints
           new == client'[c]
           tcp == IF h.close THEN "closing" ELSE "open"
<1>1. Peers(client, conn, st, page, robbed)
  BY PeersNow
<1>2. /\ conn \in [Connections -> ConnStates] /\ st \in [Blocks -> BlockStates]
      /\ IsPage(page) /\ \A d \in Connections : Served(conn[d])
  BY InvFacts
<1>3. Readable(s, ev)
  BY DEF Legal
<1>4. /\ st' \in [Blocks -> BlockStates]
      /\ conn' \in [Connections -> ConnStates] /\ conn'[c].s = b
      /\ \A d \in Connections \ {c} : conn'[d] = conn[d]
  BY <1>3, HandleStep
<1>5. st' = [st EXCEPT ![b] = h.s] /\ page' = h.page /\ Seen(c, ev, h)
  BY DEF Handle
<1>6. conn'[c].tcp = tcp
  <2> DEFINE unacked == h.tx # <<>> \/ (conn[c].unacked /\ ~ev.acked)
             k == [conn[c] EXCEPT !.tcp = tcp, !.s = b, !.unacked = unacked]
  <2>1. conn' = [conn EXCEPT ![c] = k]
    BY DEF Handle
  <2> HIDE DEF h, unacked, tcp
  <2>2. conn[c] \in ConnStates
    BY <1>2
  <2>3. k.tcp = tcp
    BY <2>2 DEF ConnStates
  <2> HIDE DEF k
  <2>4. conn'[c] = k
    BY <1>2, <2>1
  <2> QED
    BY <2>3, <2>4
<1>7. PICK carried \in IF ev.rexmit THEN {mine.seg, h.tx} ELSE {seg} :
          client' = [d \in Connections |->
             IF d # c THEN IF spoils(d) THEN Spoiled ELSE client[d]
             ELSE IF mine.alone THEN [mine EXCEPT !.got = got, !.seg = carried]
             ELSE mine]
  BY <1>5 DEF Seen
<1> HIDE DEF h
<1>8. IsClient(mine)
  BY <1>1 DEF Peers
<1>9. /\ IsClient(new) /\ new.alone = mine.alone
      /\ mine.alone => new.got = got /\ new.seg = carried
  <2>1. new = IF mine.alone THEN [mine EXCEPT !.got = got, !.seg = carried] ELSE mine
    BY <1>7
  <2> HIDE DEF got, seg, mine, new
  <2>2. CASE ~mine.alone
    BY <1>8, <2>1, <2>2
  <2>3. CASE mine.alone
    <3>1. new = [mine EXCEPT !.got = got, !.seg = carried]
      BY <2>1, <2>3
    <3>2. new.got = got /\ new.seg = carried /\ new.alone = mine.alone
      BY <1>8, <3>1 DEF IsClient
    <3>3. new \in [got : {got}, seg : {carried}, alone : BOOLEAN]
      BY <1>8, <3>1 DEF IsClient
    <3> QED
      BY <3>2, <3>3 DEF IsClient
  <2> QED
    BY <2>2, <2>3
<1>10. ASSUME ~robbed PROVE Serving(conn'[c].tcp, st'[conn'[c].s], client'[c], page')
  <2>1. st'[b] = h.s
    BY <1>2, <1>5
  <2>2. Serving("open", s, mine, page)
    BY <1>10
  <2> HIDE DEF mine, got, seg, new
  <2>3. got = (IF ev.acked THEN mine.got \o mine.seg ELSE mine.got)
        /\ seg = (IF h.tx # <<>> THEN h.tx ELSE IF ev.acked THEN <<>> ELSE mine.seg)
    BY DEF got, seg
  <2>4. h = handle_connection(s, page, ev)
    BY DEF h
  <2>5. Serving(tcp, h.s, new, h.page)
    BY <1>2, <1>7, <1>9, <2>2, <2>3, <2>4, HandlerServes
  <2> QED
    BY <1>4, <1>5, <1>6, <2>1, <2>5 DEF new
<1>11. ASSUME NEW d \in Connections \ {c}
       PROVE  /\ IsClient(client'[d])
              /\ conn'[d].tcp = "new" => client'[d] = Unseen
              /\ ~robbed /\ IsLive(conn[d]) =>
                    Serving(conn'[d].tcp, st'[conn'[d].s], client'[d], page')
  <2>1. client'[d] = IF spoils(d) THEN Spoiled ELSE client[d]
    BY <1>7
  <2>2. IsClient(client[d]) /\ conn'[d] = conn[d]
    BY <1>1, <1>4 DEF Peers
  <2>3. IsClient(client'[d])
    BY <2>1, <2>2, SeenClients
  <2>4. ASSUME conn'[d].tcp = "new" PROVE client'[d] = Unseen
    <3>1. ~spoils(d) /\ client[d] = Unseen
      BY <1>1, <2>2, <2>4 DEF Live, Peers
    <3> QED
      BY <2>1, <3>1
  <2>5. ASSUME ~robbed, IsLive(conn[d])
        PROVE  Serving(conn'[d].tcp, st'[conn'[d].s], client'[d], page')
    <3> DEFINE z == st[conn[d].s]
    <3>1. conn[d].s \in Blocks /\ conn[d].s # b
      BY <1>2, <2>5 DEF Served, IsLive
    <3>2. st'[conn[d].s] = z /\ z \in BlockStates
      BY <1>2, <1>5, <3>1
    <3>3. Serving(conn[d].tcp, z, client[d], page)
      BY <1>1, <2>5 DEF Peers
    <3>4. CASE spoils(d)
      <4>1. client'[d] = Spoiled
        BY <2>1, <3>4
      <4> HIDE DEF z, spoils
      <4>2. Serving(conn[d].tcp, z, Spoiled, page')
        BY <3>3, ServingSpoiled
      <4> QED
        BY <2>2, <3>2, <4>1, <4>2
    <3>5. CASE ~spoils(d)
      <4>1. client'[d] = client[d]
        BY <2>1, <3>5
      <4>2. page = page' \/ z.out \notin BufPoints
        BY <1>5, <2>5, <3>5 DEF Live, IsLive
      <4> HIDE DEF z, spoils
      <4>3. Serving(conn[d].tcp, z, client[d], page')
        BY <3>2, <3>3, <4>2, ServingOther
      <4> QED
        BY <2>2, <3>2, <4>1, <4>3
    <3> QED
      BY <3>4, <3>5
  <2> QED
    BY <2>3, <2>4, <2>5
<1>12. client' = [d \in Connections |-> client'[d]]
  BY <1>7
<1>13. conn'[c].tcp # "new"
  BY <1>6
<1>14. ASSUME NEW d \in Connections
       PROVE  /\ IsClient(client'[d])
              /\ conn'[d].tcp = "new" => client'[d] = Unseen
              /\ ~robbed' /\ IsLive(conn'[d]) =>
                    Serving(conn'[d].tcp, st'[conn'[d].s], client'[d], page')
  <2>1. CASE d = c
    BY <1>9, <1>10, <1>13, <2>1
  <2>2. CASE d # c
    <3>1. conn'[d] = conn[d]
      BY <1>4, <2>2
    <3> QED
      BY <1>11, <2>2, <3>1
  <2> QED
    BY <2>1, <2>2
<1> QED
  BY <1>12, <1>14, PeersThen DEF Peers

LEMMA WordsLegal ==
    ASSUME NEW s \in BlockStates, NEW ev \in Words(s), NEW acked \in BOOLEAN
    PROVE  Legal(s, ev) /\ Legal(s, [ev EXCEPT !.acked = acked])
<1>1. /\ ev \in [words : 0..(2 - s.in), good : BOOLEAN, acked : {FALSE}, rexmit : {FALSE}]
      /\ ev.words > 0 \/ ev.good
  BY DEF Words, Reads
<1>2. s.in \in 0..2 /\ ev.words \in 0..(2 - s.in) /\ ev.rexmit = FALSE
  BY <1>1 DEF BlockStates
<1>3. ev.good \/ s.in # 2
  BY <1>1, <1>2
<1>4. /\ [ev EXCEPT !.acked = acked].good = ev.good
      /\ [ev EXCEPT !.acked = acked].rexmit = ev.rexmit
  BY <1>1
<1>5. Readable(s, ev) /\ Readable(s, [ev EXCEPT !.acked = acked])
  BY WordsReadable
<1> QED
  BY <1>2, <1>3, <1>4, <1>5 DEF Legal

LEMMA ConnectedPage ==
    ASSUME HttpdInv, PageInv, NEW c \in Connections, Connected(c)
    PROVE  PageInv'
<1> DEFINE free == Blocks \ memb
<1>1. conn[c].tcp = "new" /\ robbed' = robbed
  BY DEF Connected
<1>2. Peers(client, conn, st, page, robbed)
  BY PeersNow
<1>3. CASE free = {}
  <2>1. conn' = [conn EXCEPT ![c] = Gone] /\ client' = client /\ st' = st /\ page' = page
    BY <1>3 DEF Connected
  <2>2. conn'[c] = Gone /\ \A d \in Connections \ {c} : conn'[d] = conn[d]
    BY <2>1, InvFacts
  <2>3. Gone.tcp # "new" /\ ~IsLive(Gone)
    BY GoneState DEF Gone, New
  <2>4. Peers(client', conn', st', page', robbed')
    BY <1>1, <1>2, <2>1, <2>2, <2>3 DEF Peers
  <2> QED
    BY <2>4, PeersThen
<1>4. CASE free # {}
  <2> DEFINE b == Min(free)
  <2>1. free \in SUBSET Nat
    BY PageAssumption DEF Blocks
  <2>2. b \in free
    BY <1>4, <2>1, MinOfNats
  <2>3. Fresh \in BlockStates
    BY DEF Fresh, BlockStates, Points
  <2>4. PICK ev \in Words(Fresh) : Handle(c, b, Fresh, ev)
    BY <1>4 DEF Connected
  <2> HIDE DEF b
  <2>5. Legal(Fresh, ev)
    BY <2>3, WordsLegal
  <2>6. client[c] = Unseen
    BY <1>1, <1>2 DEF Peers
  <2>7. Serving("open", Fresh, client[c], page)
    BY <2>6, FreshServing
  <2>8. ~robbed => \A d \in Connections \ {c} : IsLive(conn[d]) => conn[d].s # b
    BY <2>2, InvFacts DEF Exact, IsLive, HasBlock
  <2> QED
    BY <1>1, <2>2, <2>3, <2>4, <2>5, <2>7, <2>8, HandlePage
<1> QED
  BY <1>3, <1>4

\* The events that only run the handler, on the connection's own block.
LEMMA HandledPage ==
    ASSUME HttpdInv, PageInv, NEW c \in Connections, conn[c].tcp = "open", NEW ev,
           Legal(Restarted(conn[c].s), ev),
           Handle(c, conn[c].s, Restarted(conn[c].s), ev), robbed' = robbed
    PROVE  PageInv'
<1> DEFINE b == conn[c].s
           s == Restarted(b)
<1>1. b \in Blocks /\ IsLive(conn[c])
  BY InvFacts DEF Served, IsLive
<1>2. s \in BlockStates
  BY <1>1, RestartedBlock DEF HttpdInv
<1>3. st[b] \in BlockStates
  BY <1>1, InvFacts
<1>4. s.in = st[b].in /\ s.out = st[b].out
  BY <1>3 DEF Restarted, BlockStates
<1>5. ASSUME ~robbed PROVE Serving("open", s, client[c], page)
  <2>1. Serving("open", st[b], client[c], page)
    BY <1>1, <1>5, PeersNow DEF Peers
  <2> HIDE DEF s
  <2> QED
    BY <1>4, <2>1, ServingTimer
<1>6. ~robbed => \A d \in Connections \ {c} : IsLive(conn[d]) => conn[d].s # b
  BY <1>1, InvFacts DEF Exact, IsLive, HasBlock
<1> QED
  BY <1>1, <1>2, <1>5, <1>6, HandlePage

LEMMA NewDataPage ==
    ASSUME HttpdInv, PageInv, NEW c \in Connections, NewData(c)
    PROVE  PageInv'
<1> DEFINE b == conn[c].s
<1>1. conn[c].tcp = "open" /\ robbed' = robbed
  BY DEF NewData
<1>2. b \in Blocks
  BY <1>1, InvFacts DEF Served
<1>3. conn[c].unacked \in BOOLEAN
  BY InvFacts DEF ConnStates
<1>4. /\ st[b] \in BlockStates /\ Restarted(b).in = st[b].in
  BY <1>2, InvFacts DEF Restarted, BlockStates
<1>5. PICK ev \in Words(st[b]), acked \in {FALSE, conn[c].unacked} :
          Handle(c, b, Restarted(b), [ev EXCEPT !.acked = acked])
  BY DEF NewData
<1> HIDE DEF b
<1>6. Legal(st[b], [ev EXCEPT !.acked = acked])
  BY <1>3, <1>4, WordsLegal
<1>7. Legal(Restarted(b), [ev EXCEPT !.acked = acked])
  BY <1>4, <1>6 DEF Legal, Readable
<1> QED
  BY <1>1, <1>5, <1>7, HandledPage DEF b

LEMMA AckedPage ==
    ASSUME HttpdInv, PageInv, NEW c \in Connections, Acked(c)
    PROVE  PageInv'
<1>1. conn[c].tcp = "open" /\ robbed' = robbed
  BY DEF Acked
<1>2. Restarted(conn[c].s) \in BlockStates
  <2>1. conn[c].s \in Blocks
    BY <1>1, InvFacts DEF Served
  <2> QED
    BY <2>1, RestartedBlock DEF HttpdInv
<1>3. Handle(c, conn[c].s, Restarted(conn[c].s), Event(0, TRUE, TRUE, FALSE))
  BY DEF Acked
<1>4. Legal(Restarted(conn[c].s), Event(0, TRUE, TRUE, FALSE))
  BY <1>2, NoWordsReadable DEF Legal, Event
<1> QED
  BY <1>1, <1>3, <1>4, HandledPage

LEMMA RexmitPage ==
    ASSUME HttpdInv, PageInv, NEW c \in Connections, Rexmit(c)
    PROVE  PageInv'
<1>1. conn[c].tcp = "open" /\ robbed' = robbed
  BY DEF Rexmit
<1>2. Restarted(conn[c].s) \in BlockStates
  <2>1. conn[c].s \in Blocks
    BY <1>1, InvFacts DEF Served
  <2> QED
    BY <2>1, RestartedBlock DEF HttpdInv
<1>3. Handle(c, conn[c].s, Restarted(conn[c].s), Event(0, TRUE, FALSE, TRUE))
  BY DEF Rexmit
<1>4. Legal(Restarted(conn[c].s), Event(0, TRUE, FALSE, TRUE))
  BY <1>2, NoWordsReadable DEF Legal, Event
<1> QED
  BY <1>1, <1>3, <1>4, HandledPage

\* A connection ends, whoever notices it, and nothing else changes.
LEMMA EndedPage ==
    ASSUME HttpdInv, PageInv, NEW c \in Connections, NEW k, k.tcp # "new", ~IsLive(k),
           conn' = [conn EXCEPT ![c] = k],
           client' = client \/ client' = [client EXCEPT ![c] = Unseen],
           st' = st, page' = page, ~robbed' => ~robbed
    PROVE  PageInv'
<1>1. Peers(client, conn, st, page, robbed)
  BY PeersNow
<1>2. conn'[c] = k /\ \A d \in Connections \ {c} : conn'[d] = conn[d]
  BY InvFacts
<1>3. client = [d \in Connections |-> client[d]]
  BY <1>1 DEF Peers
<1>4. /\ client' = [d \in Connections |-> client'[d]]
      /\ client'[c] \in {client[c], Unseen}
      /\ \A d \in Connections \ {c} : client'[d] = client[d]
  <2>1. CASE client' = client
    <3>1. client' = [d \in Connections |-> client'[d]]
      BY <1>3, <2>1
    <3> QED
      BY <2>1, <3>1
  <2>2. CASE client' = [client EXCEPT ![c] = Unseen]
    BY <1>3, <2>2
  <2> QED
    BY <2>1, <2>2
<1>5. ASSUME NEW d \in Connections
      PROVE  /\ IsClient(client'[d])
             /\ conn'[d].tcp = "new" => client'[d] = Unseen
             /\ ~robbed' /\ IsLive(conn'[d]) =>
                   Serving(conn'[d].tcp, st'[conn'[d].s], client'[d], page')
  <2>1. CASE d = c
    <3>1. IsClient(client'[c])
      BY <1>1, <1>4, SeenClients DEF Peers
    <3> QED
      BY <1>2, <2>1, <3>1
  <2>2. CASE d # c
    <3>1. conn'[d] = conn[d] /\ client'[d] = client[d]
      BY <1>2, <1>4, <2>2
    <3> QED
      BY <1>1, <3>1 DEF Peers
  <2> QED
    BY <2>1, <2>2
<1> QED
  BY <1>4, <1>5, PeersThen DEF Peers

\* A step in which nobody gets anything, and no connection changes.
LEMMA QuietPage ==
    ASSUME HttpdInv, PageInv, conn' = conn, client' = client, robbed' = robbed,
           ~robbed => page' = page,
           ~robbed => \A b \in Blocks : st'[b].in = st[b].in /\ st'[b].out = st[b].out
    PROVE  PageInv'
<1>1. Peers(client, conn, st, page, robbed)
  BY PeersNow
<1>2. ASSUME NEW d \in Connections, ~robbed, IsLive(conn[d])
      PROVE  Serving(conn[d].tcp, st'[conn[d].s], client[d], page')
  <2>1. conn[d].s \in Blocks
    BY <1>2, InvFacts DEF Served, IsLive
  <2>2. Serving(conn[d].tcp, st[conn[d].s], client[d], page)
    BY <1>1, <1>2 DEF Peers
  <2> QED
    BY <1>2, <2>1, <2>2, ServingTimer
<1> QED
  BY <1>1, <1>2, PeersThen DEF Peers

LEMMA PollPage ==
    ASSUME HttpdInv, PageInv, NEW c \in Connections, Poll(c)
    PROVE  PageInv'
<1> DEFINE b == conn[c].s
           h == handle_connection(st[b], page, Nothing)
           late == timer_expired(st[b])
<1>1. conn[c].tcp = "open" /\ IsLive(conn[c]) /\ robbed' = robbed
  BY DEF Poll, IsLive
<1>2. b \in Blocks /\ st[b] \in BlockStates
  BY <1>1, InvFacts DEF Served
<1>3. /\ st' = [st EXCEPT ![b] = h.s] /\ page' = h.page
      /\ conn' = [conn EXCEPT ![c] = IF late THEN Gone ELSE conn[c]]
      /\ client' = IF late THEN [client EXCEPT ![c] = Unseen] ELSE client
  BY DEF Poll, timed_out
<1>4. ASSUME ~robbed
      PROVE  page' = page /\ \A x \in Blocks : st'[x].in = st[x].in /\ st'[x].out = st[x].out
  <2>1. Serving("open", st[b], client[c], page)
    BY <1>1, <1>4, PeersNow DEF Peers
  <2>2. st[b].in = 2 => st[b].out # "idle"
    BY <2>1 DEF Serving
  <2>3. st[b].in \in 0..2
    BY <1>2 DEF BlockStates
  <2>4. h.page = page /\ h.s = [st[b] EXCEPT !.in = st[b].in, !.out = st[b].out]
    <3> DEFINE z == st[b]
               in == z.in + Nothing.words
               go == in = 2 /\ Nothing.good /\ (z.out = "idle" \/ Nothing.acked)
               o == IF go THEN handle_output(z.out, page) ELSE At(z.out, page)
    <3>1. in = z.in /\ Nothing.good /\ ~Nothing.acked
      BY <2>3 DEF Nothing, Event
    <3>2. ~go
      BY <2>2, <3>1
    <3>3. /\ h.page = o.page
          /\ h.s = [z EXCEPT !.in = IF Nothing.good THEN in ELSE 0, !.out = o.out]
      BY DEF handle_connection
    <3> HIDE DEF go, in, h
    <3>4. o.page = page /\ o.out = z.out
      BY <3>2 DEF At
    <3> HIDE DEF o
    <3> QED
      BY <3>1, <3>3, <3>4
  <2>5. h.s.in = st[b].in /\ h.s.out = st[b].out
    BY <1>2, <2>4 DEF BlockStates
  <2> HIDE DEF h
  <2> QED
    BY <1>2, <1>3, <2>4, <2>5, InvFacts
<1> HIDE DEF h, late
<1>5. CASE ~late
  <2>1. conn' = conn /\ client' = client
    BY <1>3, <1>5, InvFacts
  <2> QED
    BY <1>1, <1>4, <2>1, QuietPage
<1>6. CASE late
  <2>1. /\ conn' = [conn EXCEPT ![c] = Gone] /\ client' = [client EXCEPT ![c] = Unseen]
    BY <1>3, <1>6
  <2>2. Peers(client, conn, st, page, robbed)
    BY PeersNow
  <2>3. Gone.tcp # "new" /\ ~IsLive(Gone)
    BY GoneState DEF Gone, New
  <2>4. /\ conn'[c] = Gone /\ client'[c] = Unseen
        /\ client' = [d \in Connections |-> client'[d]]
        /\ \A d \in Connections \ {c} : conn'[d] = conn[d] /\ client'[d] = client[d]
    <3>1. client = [d \in Connections |-> client[d]]
      BY <2>2 DEF Peers
    <3> QED
      BY <2>1, <3>1, InvFacts
  <2>5. ASSUME NEW d \in Connections
        PROVE  /\ IsClient(client'[d])
               /\ conn'[d].tcp = "new" => client'[d] = Unseen
               /\ ~robbed' /\ IsLive(conn'[d]) =>
                     Serving(conn'[d].tcp, st'[conn'[d].s], client'[d], page')
    <3>1. CASE d = c
      BY <2>3, <2>4, <3>1, SeenClients
    <3>2. CASE d # c
      <4>1. conn'[d] = conn[d] /\ client'[d] = client[d]
        BY <2>4, <3>2
      <4>2. ASSUME ~robbed, IsLive(conn[d])
            PROVE  Serving(conn[d].tcp, st'[conn[d].s], client[d], page')
        <5>1. conn[d].s \in Blocks
          BY <4>2, InvFacts DEF Served, IsLive
        <5>2. Serving(conn[d].tcp, st[conn[d].s], client[d], page)
          BY <2>2, <4>2 DEF Peers
        <5> QED
          BY <1>4, <4>2, <5>1, <5>2, ServingTimer
      <4> QED
        BY <1>1, <2>2, <4>1, <4>2 DEF Peers
    <3> QED
      BY <3>1, <3>2
  <2> QED
    BY <2>4, <2>5, PeersThen DEF Peers
<1> QED
  BY <1>5, <1>6

LEMMA EndsPage ==
    ASSUME HttpdInv, PageInv, NEW c \in Connections, Ended(c) \/ Dropped(c) \/ EndedAgain(c)
    PROVE  PageInv'
<1>1. Gone.tcp # "new" /\ ~IsLive(Gone)
  BY GoneState DEF Gone, New
<1>2. CASE Ended(c)
  <2> DEFINE k == [Gone EXCEPT !.tcp = "half-closed", !.s = conn[c].s]
  <2>1. /\ client' = [client EXCEPT ![c] = Unseen]
        /\ st' = st /\ page' = page /\ robbed' = robbed
        /\ conn' = [conn EXCEPT ![c] = Gone] \/ conn' = [conn EXCEPT ![c] = k]
    BY <1>2 DEF Ended
  <2>2. k.tcp # "new" /\ ~IsLive(k)
    BY DEF Gone, New, IsLive
  <2> HIDE DEF k
  <2> QED
    BY <1>1, <2>1, <2>2, EndedPage
<1>3. CASE EndedAgain(c)
  <2>1. /\ client' = client /\ st' = st /\ page' = page
        /\ conn' = [conn EXCEPT ![c] = Gone] /\ (~robbed' => ~robbed)
    BY <1>3 DEF EndedAgain
  <2> QED
    BY <1>1, <2>1, EndedPage
<1>4. CASE Dropped(c)
  <2> DEFINE k == [Gone EXCEPT !.tcp = "dropped", !.s = conn[c].s]
  <2>1. /\ client' = [client EXCEPT ![c] = Unseen]
        /\ st' = st /\ page' = page /\ robbed' = robbed /\ conn' = [conn EXCEPT ![c] = k]
    BY <1>4 DEF Dropped
  <2>2. k.tcp # "new" /\ ~IsLive(k)
    BY DEF Gone, New, IsLive
  <2> HIDE DEF k
  <2> QED
    BY <2>1, <2>2, EndedPage
<1> QED
  BY <1>2, <1>3, <1>4

LEMMA TimerRunsPage ==
    ASSUME HttpdInv, PageInv, NEW b \in Blocks, TimerRuns(b)
    PROVE  PageInv'
<1>1. /\ st' = [st EXCEPT ![b].expired = TRUE]
      /\ conn' = conn /\ client' = client /\ page' = page /\ robbed' = robbed
  BY DEF TimerRuns
<1>2. \A x \in Blocks : st'[x].in = st[x].in /\ st'[x].out = st[x].out
  BY <1>1, InvFacts DEF BlockStates
<1> QED
  BY <1>1, <1>2, QuietPage

LEMMA InitPage == HInit => PageInv
<1> SUFFICES ASSUME HInit PROVE PageInv
  OBVIOUS
<1>1. /\ client = [c \in Connections |-> Unseen]
      /\ \A c \in Connections : conn[c].tcp = "new" /\ client[c] = Unseen
  BY DEF HInit, New
<1>2. client = [c \in Connections |-> client[c]]
  BY <1>1
<1> QED
  BY <1>1, <1>2, SeenClients, PeersNow DEF Peers, IsLive

LEMMA StepPage == HttpdInv /\ PageInv /\ [HNext]_hvars => PageInv'
<1> SUFFICES ASSUME HttpdInv, PageInv, [HNext]_hvars PROVE PageInv'
  OBVIOUS
<1>1. ASSUME NEW c \in Connections,
             Connected(c) \/ NewData(c) \/ Acked(c) \/ Rexmit(c)
               \/ Poll(c) \/ Ended(c) \/ Dropped(c) \/ EndedAgain(c)
      PROVE  PageInv'
  BY <1>1, ConnectedPage, NewDataPage, AckedPage, RexmitPage, PollPage, EndsPage
<1>2. ASSUME NEW b \in Blocks, TimerRuns(b) PROVE PageInv'
  BY <1>2, TimerRunsPage
<1>3. CASE UNCHANGED hvars
  <2>1. conn' = conn /\ client' = client /\ st' = st /\ page' = page /\ robbed' = robbed
    BY <1>3 DEF hvars
  <2> QED
    BY <2>1, QuietPage
<1> QED
  BY <1>1, <1>2, <1>3 DEF HNext

LEMMA PageInductive == HSpec => []PageInv
  BY Inductive, InitPage, StepPage, PTL DEF HSpec

\* What a peer has got is a part of the page from its start.
LEMMA GotPrefix ==
    ASSUME HttpdInv, PageInv
    PROVE  PageReceived
<1> SUFFICES ASSUME ~robbed, NEW c \in Connections, Live(c), client[c].alone
             PROVE  /\ IsPrefix(client[c].got, FullPage)
                    /\ conn[c].tcp = "closing" /\ st[conn[c].s].in = 2 =>
                          client[c].got = FullPage
  BY DEF PageReceived
<1> DEFINE s == st[conn[c].s]
           mine == client[c]
<1>1. Serving(conn[c].tcp, s, mine, page) /\ conn[c].tcp \in {"open", "closing"}
  BY DEF PageInv, Live
<1>2. s \in BlockStates
  <2>1. conn[c].s \in Blocks
    BY InvFacts DEF Served, Live
  <2> QED
    BY <2>1, InvFacts
<1> HIDE DEF s
<1>3. CASE conn[c].tcp = "open"
  <2>1. Underway(s.out, page, mine)
    BY <1>1, <1>3 DEF Serving
  <2>2. SentUpTo(s.out, page) \in Nat /\ SentUpTo(s.out, page) <= BottomAt
    BY <1>2, InvFacts, SentWithin DEF BlockStates
  <2>3. PICK m \in 0..SentUpTo(s.out, page) : mine.got = Stretch(0, m)
    BY <2>1 DEF Underway
  <2>4. m \in 0..BottomAt
    BY <2>2, PageSizes
  <2> QED
    BY <1>3, <2>3, <2>4, StretchPrefix
<1>4. CASE conn[c].tcp = "closing"
  <2>1. PICK m \in 0..BottomAt : mine.got = Stretch(0, m) /\ (s.in = 2 => m = BottomAt)
    BY <1>1, <1>4 DEF Serving, Finished
  <2> QED
    BY <2>1, StretchPrefix DEF s
<1> QED
  BY <1>1, <1>3, <1>4

\* The pieces that generate_routes sends, each SEND_STRING resuming where the
\* last acknowledgement left it, make the page: a peer gets a beginning of it
\* without a gap or a repetition, and all of it when the server closes, for any
\* number of neighbours and routes, also when segments are sent again.
THEOREM PageArrives == HSpec => []PageReceived
<1>1. HttpdInv /\ PageInv => PageReceived
  BY GotPrefix
<1> QED
  BY <1>1, Inductive, PageInductive, PTL
=============================================================================
