----------------------------- MODULE SwarmSums ------------------------------
(***************************************************************************)
(* What TLAPS proves of what relays add up and pass on, for every swarm:   *)
(* checksums (XOR) and the rank of the farthest leaf.                      *)
(***************************************************************************)
EXTENDS SwarmPaths

-----------------------------------------------------------------------------
(* XOR counts bits modulo 2. *)

\* What is in one of two sets but not in both: a mote that is added twice
\* cancels out.
LEMMA SymDiffParity ==
    ASSUME NEW A, NEW B, IsFiniteSet(A), IsFiniteSet(B)
    PROVE  Cardinality(Xor(A, B)) % 2 = 1 <=> ~(Cardinality(A) % 2 = 1 <=> Cardinality(B) % 2 = 1)
<1>1. /\ IsFiniteSet(A \ B) /\ IsFiniteSet(B \ A) /\ IsFiniteSet(A \cap B)
      /\ Cardinality(A \ B) \in Nat /\ Cardinality(B \ A) \in Nat
      /\ Cardinality(A \cap B) \in Nat
  BY FS_Subset, FS_CardinalityType
<1>2. ASSUME NEW C, NEW D, IsFiniteSet(C), IsFiniteSet(D), C \cap D = {}
      PROVE  Cardinality(C \cup D) = Cardinality(C) + Cardinality(D)
  <2>1. Cardinality(C \cup D) = Cardinality(C) + Cardinality(D) - Cardinality({})
    BY <1>2, FS_Union
  <2>2. Cardinality(C) \in Nat /\ Cardinality(D) \in Nat /\ Cardinality({}) = 0
    BY <1>2, FS_CardinalityType, FS_EmptySet
  <2> QED
    BY <2>1, <2>2
<1>3. Cardinality(A) = Cardinality(A \ B) + Cardinality(A \cap B)
  <2>1. (A \ B) \cup (A \cap B) = A /\ (A \ B) \cap (A \cap B) = {}
    OBVIOUS
  <2> QED
    BY <1>1, <1>2, <2>1
<1>4. Cardinality(B) = Cardinality(B \ A) + Cardinality(A \cap B)
  <2>1. (B \ A) \cup (A \cap B) = B /\ (B \ A) \cap (A \cap B) = {}
    OBVIOUS
  <2> QED
    BY <1>1, <1>2, <2>1
<1>5. Cardinality(Xor(A, B)) = Cardinality(A \ B) + Cardinality(B \ A)
  <2>1. (A \ B) \cap (B \ A) = {}
    OBVIOUS
  <2> QED
    BY <1>1, <1>2, <2>1 DEF Xor
<1>6. ASSUME NEW a \in Nat, NEW b \in Nat, NEW c \in Nat
      PROVE  (a + b) % 2 = 1 <=> ~((a + c) % 2 = 1 <=> (b + c) % 2 = 1)
  OBVIOUS
<1> QED
  BY <1>1, <1>3, <1>4, <1>5, <1>6

\* The motes of S whose checksum has bit b.
Setting(S, b) == {n \in S : b \in attest_memory(n)}

\* The XOR of two sets of motes is that of the motes in one of them only.
LEMMA XorOfXor ==
    ASSUME NEW S \in SUBSET Nodes, NEW T \in SUBSET Nodes
    PROVE  XorOf(Xor(S, T)) = Xor(XorOf(S), XorOf(T))
<1>1. ASSUME NEW b \in Word
      PROVE  b \in XorOf(Xor(S, T)) <=> ~(b \in XorOf(S) <=> b \in XorOf(T))
  <2>1. \A U : b \in XorOf(U) <=> Cardinality(Setting(U, b)) % 2 = 1
    BY DEF XorOf, Setting
  <2>2. Setting(Xor(S, T), b) = Xor(Setting(S, b), Setting(T, b))
    BY DEF Setting, Xor
  <2>3. IsFiniteSet(Setting(S, b)) /\ IsFiniteSet(Setting(T, b))
    BY NodesFinite, FS_Subset DEF Setting
  <2> QED
    BY <2>1, <2>2, <2>3, SymDiffParity
<1>2. \A U : XorOf(U) \subseteq Word
  BY DEF XorOf
<1> QED
  BY <1>1, <1>2 DEF Xor

LEMMA XorOfNone == XorOf({}) = {}
<1>1. ASSUME NEW b PROVE Cardinality({n \in {} : b \in attest_memory(n)}) = 0
  <2>1. {n \in {} : b \in attest_memory(n)} = {}
    OBVIOUS
  <2> QED
    BY <2>1, FS_EmptySet
<1> QED
  BY <1>1 DEF XorOf

LEMMA XorOfOne == \A n : XorOf({n}) = attest_memory(n)
<1> SUFFICES ASSUME NEW n PROVE XorOf({n}) = attest_memory(n)
  OBVIOUS
<1>1. ASSUME NEW b \in Word
      PROVE  b \in XorOf({n}) <=> b \in attest_memory(n)
  <2>1. b \in XorOf({n}) <=> Cardinality(Setting({n}, b)) % 2 = 1
    BY DEF XorOf, Setting
  <2>2. CASE b \in attest_memory(n)
    <3>1. Setting({n}, b) = {n}
      BY <2>2 DEF Setting
    <3>2. Cardinality({n}) = 1 /\ 1 % 2 = 1
      BY FS_Singleton
    <3> QED
      BY <2>1, <2>2, <3>1, <3>2
  <2>3. CASE b \notin attest_memory(n)
    <3>1. Setting({n}, b) = {}
      BY <2>3 DEF Setting
    <3> QED
      BY <2>1, <2>3, <3>1, FS_EmptySet
  <2> QED
    BY <2>2, <2>3
<1>2. XorOf({n}) \subseteq Word /\ attest_memory(n) \subseteq Word
  BY ChecksumType DEF XorOf
<1> QED
  BY <1>1, <1>2

\* One mote more.
LEMMA XorOfAdd ==
    ASSUME NEW S \in SUBSET Nodes, NEW n \in Nodes, n \notin S
    PROVE  XorOf(S \cup {n}) = Xor(XorOf(S), attest_memory(n))
<1>1. Xor(S, {n}) = S \cup {n}
  BY DEF Xor
<1> QED
  BY <1>1, XorOfXor, XorOfOne

-----------------------------------------------------------------------------
(* The checksums a relay has stored. *)

LEMMA XorAllNone == XorAll(<<>>) = {}
<1>1. ASSUME NEW b PROVE Cardinality({k \in 1..Len(<<>>) : b \in <<>>[k]}) = 0
  <2>1. {k \in 1..Len(<<>>) : b \in <<>>[k]} = {}
    OBVIOUS
  <2> QED
    BY <2>1, FS_EmptySet
<1> QED
  BY <1>1 DEF XorAll

\* One checksum more.
LEMMA XorAllAppend ==
    ASSUME NEW ws \in Seq(SUBSET Word), NEW w \in SUBSET Word
    PROVE  XorAll(Append(ws, w)) = Xor(XorAll(ws), w)
<1> DEFINE vs == Append(ws, w)
           At(us, b) == {k \in 1..Len(us) : b \in us[k]}
<1>1. /\ Len(ws) \in Nat /\ Len(vs) = Len(ws) + 1 /\ vs[Len(ws) + 1] = w
      /\ \A k \in 1..Len(ws) : vs[k] = ws[k]
  OBVIOUS
<1>2. ASSUME NEW b \in Word
      PROVE  b \in XorAll(vs) <=> ~(b \in XorAll(ws) <=> b \in w)
  <2> HIDE DEF vs
  <2>1. \A us : b \in XorAll(us) <=> Cardinality(At(us, b)) % 2 = 1
    BY DEF XorAll
  <2>2. IsFiniteSet(At(ws, b)) /\ Cardinality(At(ws, b)) \in Nat
    <3>1. IsFiniteSet(1..Len(ws))
      BY <1>1, FS_Interval
    <3> QED
      BY <3>1, FS_Subset, FS_CardinalityType
  <2>3. CASE b \in w
    <3>1. At(vs, b) = At(ws, b) \cup {Len(ws) + 1}
      BY <1>1, <2>3
    <3>2. Len(ws) + 1 \notin At(ws, b)
      BY <1>1
    <3> HIDE DEF At
    <3>3. Cardinality(At(vs, b)) = Cardinality(At(ws, b)) + 1
      BY <2>2, <3>1, <3>2, FS_AddElement
    <3> QED
      BY <2>1, <2>2, <2>3, <3>3
  <2>4. CASE b \notin w
    <3>1. At(vs, b) = At(ws, b)
      BY <1>1, <2>4
    <3> QED
      BY <2>1, <2>4, <3>1
  <2> QED
    BY <2>3, <2>4
<1>3. XorAll(vs) \subseteq Word /\ XorAll(ws) \subseteq Word
  BY DEF XorAll
<1> QED
  BY <1>2, <1>3 DEF Xor

-----------------------------------------------------------------------------
(* Sums over motes further from the root. *)

Farther(n) == {m \in Nodes : Rank[m] > Rank[n]}

SumsOf(A) == {XorOf(S) : S \in SUBSET A}

\* The checksums that cover n and motes further from the root.
Covers(n) == {XorOf(S \cup {n}) : S \in SUBSET Farther(n)}

LEMMA SumsXor ==
    ASSUME NEW A \in SUBSET Nodes, NEW a \in SumsOf(A), NEW b \in SumsOf(A)
    PROVE  Xor(a, b) \in SumsOf(A)
<1>1. PICK S \in SUBSET A, T \in SUBSET A : a = XorOf(S) /\ b = XorOf(T)
  BY DEF SumsOf
<1>2. Xor(a, b) = XorOf(Xor(S, T))
  BY <1>1, XorOfXor
<1>3. Xor(S, T) \in SUBSET A
  BY DEF Xor
<1> QED
  BY <1>2, <1>3 DEF SumsOf

LEMMA NoSum == \A A : {} \in SumsOf(A)
<1>1. \A A : XorOf({}) \in SumsOf(A)
  BY DEF SumsOf
<1> QED
  BY <1>1, XorOfNone

\* What a mote further away covers is further away.
LEMMA CoversFarther ==
    ASSUME NEW n \in Nodes, NEW r \in Nodes, Rank[n] > Rank[r]
    PROVE  Covers(n) \subseteq SumsOf(Farther(r))
<1> SUFFICES ASSUME NEW S \in SUBSET Farther(n)
             PROVE  XorOf(S \cup {n}) \in SumsOf(Farther(r))
  BY DEF Covers
<1>1. Farther(n) \subseteq Farther(r)
  <2> SUFFICES ASSUME NEW m \in Nodes, Rank[m] > Rank[n] PROVE Rank[m] > Rank[r]
    BY DEF Farther
  <2>1. Rank[m] \in Nat /\ Rank[n] \in Nat /\ Rank[r] \in Nat
    BY RankType DEF UInt16
  <2> QED
    BY <2>1
<1>2. S \cup {n} \in SUBSET Farther(r)
  BY <1>1 DEF Farther
<1> QED
  BY <1>2 DEF SumsOf

\* get_combined_checksum adds the mote itself.
LEMMA CoversSelf ==
    ASSUME NEW n \in Nodes, NEW a \in SumsOf(Farther(n))
    PROVE  Xor(a, attest_memory(n)) \in Covers(n)
<1>1. PICK S \in SUBSET Farther(n) : a = XorOf(S)
  BY DEF SumsOf
<1>2. S \in SUBSET Nodes /\ n \notin S
  <2>1. Rank[n] \in Nat
    BY RankType DEF UInt16
  <2> QED
    BY <2>1 DEF Farther
<1>3. Xor(a, attest_memory(n)) = XorOf(S \cup {n})
  BY <1>1, <1>2, XorOfAdd
<1> QED
  BY <1>3 DEF Covers

LEMMA CoversOne == ASSUME NEW n \in Nodes PROVE attest_memory(n) \in Covers(n)
<1>1. {} \cup {n} = {n} /\ {} \in SUBSET Farther(n)
  OBVIOUS
<1>2. XorOf({} \cup {n}) \in Covers(n)
  BY <1>1 DEF Covers
<1> QED
  BY <1>1, <1>2, XorOfOne

-----------------------------------------------------------------------------
(* What relay r has added up and learnt, and what is on its way. *)

Summed(r, s) == XorAll(s.checksum_children) \in SumsOf(Farther(r))

Ready(r, s) == s.p_timer => s.ctimer_resp.checksum \in Covers(r)

LeafRanks(n) == {0} \cup {Rank[m] : m \in Farther(n)}

Learnt(r, s) == s.max_leaf_rank \in LeafRanks(r)

CoversOut(out) ==
    \A d \in out : d.port # MCAST_SINK_UDP_PORT => d.pkt.checksum \in Covers(d.src)

LeafOut(out) ==
    \A d \in out : d.port = PARENT_UDP_CHECKSUM_PORT =>
        d.pkt.max_leaf_rank \in LeafRanks(d.src) \cup {Rank[d.src]}

\* Broadcasts are heard by neighbours.
HeardOut(out) ==
    \A d \in out : d.port = CHECKSUM_PORT =>
        d.src \in Relays \cup Clients /\ d.dst \in Nbr[d.src]

LEMMA OutUnion ==
    ASSUME NEW a, NEW b
    PROVE  /\ CoversOut(a) /\ CoversOut(b) => CoversOut(a \cup b)
           /\ LeafOut(a) /\ LeafOut(b) => LeafOut(a \cup b)
           /\ CoversOut({}) /\ LeafOut({})
  BY DEF CoversOut, LeafOut

\* What a mote learns from one further away.
LEMMA LeafFarther ==
    ASSUME NEW n \in Nodes, NEW r \in Nodes, Rank[n] > Rank[r]
    PROVE  LeafRanks(n) \cup {Rank[n]} \subseteq LeafRanks(r)
<1>1. Farther(n) \subseteq Farther(r)
  <2> SUFFICES ASSUME NEW m \in Nodes, Rank[m] > Rank[n] PROVE Rank[m] > Rank[r]
    BY DEF Farther
  <2>1. Rank[m] \in Nat /\ Rank[n] \in Nat /\ Rank[r] \in Nat
    BY RankType DEF UInt16
  <2> QED
    BY <2>1
<1>2. n \in Farther(r)
  BY DEF Farther
<1> QED
  BY <1>1, <1>2 DEF LeafRanks

-----------------------------------------------------------------------------
(* What the functions of a relay leave alone. *)

\* Nothing learnt, and no first child seen.
Stays(s, t) ==
    t.max_leaf_rank = s.max_leaf_rank /\ (s.first_child => t.first_child)

LEMMA StaysTwice ==
    ASSUME NEW s, NEW t, NEW u, Stays(s, t), Stays(t, u)
    PROVE  Stays(s, u)
  BY DEF Stays

LEMMA BindStays ==
    ASSUME NEW s \in RelayStates
    PROVE  Stays(s, udp_new_bind(s))
<1>1. udp_new_bind(s) = [s EXCEPT !.conns = s.conns + 1]
      \/ udp_new_bind(s) = [s EXCEPT !.fault = s.fault \/ NullBindTraps]
  BY DEF udp_new_bind
<1>2. CASE udp_new_bind(s) = [s EXCEPT !.conns = s.conns + 1]
  BY <1>2 DEF RelayStates, Stays
<1>3. CASE udp_new_bind(s) = [s EXCEPT !.fault = s.fault \/ NullBindTraps]
  BY <1>3 DEF RelayStates, Stays
<1> QED
  BY <1>1, <1>2, <1>3

LEMMA ResetStays ==
    ASSUME NEW s \in RelayStates
    PROVE  Stays(s, reset_variable(s))
<1> DEFINE t == [s EXCEPT !.first_round_completed = TRUE,
                          !.max_index = Len(s.checksum_children),
                          !.checksum_children = <<>>, !.paths = <<>>, !.first_child = TRUE]
<1>1. t.max_leaf_rank = s.max_leaf_rank /\ t.first_child
      /\ [t EXCEPT !.received_pkt = {}].max_leaf_rank = t.max_leaf_rank
      /\ [t EXCEPT !.received_pkt = {}].first_child = t.first_child
  BY DEF RelayStates
<1>2. reset_variable(s) = [t EXCEPT !.received_pkt = {}]
  BY DEF reset_variable, rest_child_list
<1> HIDE DEF t
<1> QED
  BY <1>1, <1>2 DEF Stays

\* What a topology response reports: all that was added up, and the rank that
\* was learnt.
LEMMA SendTopologySums ==
    ASSUME NEW r \in Relays, NEW s \in RelayStates
    PROVE  LET t == send_topology_resp(r, s)
           IN  /\ Stays(s, t.st)
               /\ Summed(r, s) => CoversOut(t.out)
               /\ Learnt(r, s) => LeafOut(t.out)
<1> DEFINE a == attested(r, s)
           b == get_parent_conn(a)
           sum == get_combined_checksum(r, s)
           path == IF Len(s.paths) >= MAX_PATH_NODES - 1 THEN s.paths ELSE Append(s.paths, r)
           index == IF Len(s.paths) >= MAX_PATH_NODES - 1 THEN UNINIT ELSE Len(s.paths) + 1
           resp == TopologyResp(path, index, s.max_leaf_rank, sum)
           t == send_topology_resp(r, s)
<1>1. t.st = reset_variable(b) /\ t.out = send_to_parents(r, s, resp, FALSE)
  BY DEF send_topology_resp
<1>2. resp.checksum = sum /\ resp.max_leaf_rank = s.max_leaf_rank
  BY DEF TopologyResp
<1>3. Stays(s, t.st)
  <2>1. a \in RelayStates /\ Stays(s, a)
    BY ChecksumType DEF attested, RelayStates, Stays
  <2>2. b \in RelayStates /\ Stays(a, b)
    BY <2>1, BindType, BindStays DEF get_parent_conn
  <2>3. Stays(b, reset_variable(b))
    BY <2>2, ResetStays
  <2> HIDE DEF a, b
  <2> QED
    BY <1>1, <2>1, <2>2, <2>3, StaysTwice
<1> HIDE DEF resp
<1>4. CopiesOf(r, resp, t.out)
  BY <1>1, SentToParents
<1> HIDE DEF t
<1>5. r \in Nodes
  BY DEF Nodes
<1>6. ASSUME Summed(r, s) PROVE CoversOut(t.out)
  <2>1. sum \in Covers(r)
    BY <1>5, <1>6, CoversSelf DEF Summed, get_combined_checksum
  <2> QED
    BY <1>2, <1>4, <2>1 DEF CopiesOf, CoversOut
<1>7. ASSUME Learnt(r, s) PROVE LeafOut(t.out)
  BY <1>2, <1>4, <1>7 DEF CopiesOf, LeafOut, Learnt
<1> QED
  BY <1>3, <1>6, <1>7 DEF t

LEMMA FlushSums ==
    ASSUME NEW r \in Relays, NEW s \in RelayStates, Len(s.paths) <= PathRoom
    PROVE  LET t == flush(r, s)
           IN  /\ Stays(s, t.st)
               /\ Summed(r, s) => CoversOut(t.out)
               /\ Learnt(r, s) => LeafOut(t.out)
<1> DEFINE t == send_topology_resp(r, s)
<1>1. t.st \in RelayStates
  BY SendTopologyType
<1>2. /\ Stays(s, t.st)
      /\ Summed(r, s) => CoversOut(t.out)
      /\ Learnt(r, s) => LeafOut(t.out)
  BY SendTopologySums
<1>3. flush(r, s).st = reset_variable(t.st) /\ flush(r, s).out = t.out
  BY DEF flush
<1> HIDE DEF t
<1>4. Stays(t.st, reset_variable(t.st))
  BY <1>1, ResetStays
<1> QED
  BY <1>2, <1>3, <1>4, StaysTwice

LEMMA SetPathsStays ==
    ASSUME NEW s \in RelayStates, NEW q
    PROVE  Stays(s, [s EXCEPT !.paths = q])
  BY DEF RelayStates, Stays

\* The three outcomes of the copy loop: no flush, one, or two.
CopyOutcome(r, s, q, rest, c) ==
    LET fl1 == flush(r, [s EXCEPT !.paths = q])
        in2 == [fl1.st EXCEPT !.paths = rest]
        fl2 == flush(r, in2)
    IN  \/ c = [st |-> [s EXCEPT !.paths = q], out |-> {}]
        \/ c = [st |-> in2, out |-> fl1.out]
        \/ c = [st |-> fl2.st, out |-> fl1.out \cup fl2.out]

LEMMA CopyPathsOutcome ==
    ASSUME NEW r \in Relays, NEW s, RelayOK(s),
           NEW p \in Seq(Nodes \cup {0}), Len(p) <= PathRoom + 1
    PROVE  \E q, rest \in Seq(Nodes \cup {0}) :
              /\ Len(q) <= PathRoom /\ Len(rest) <= PathRoom
              /\ CopyOutcome(r, s, q, rest, copy_paths(r, s, p))
<1> DEFINE used == SlotsAfter(s, p, Len(p))
           at   == 1 + Cardinality({j \in 1..Len(p) : SlotsAfter(s, p, j) < PathRoom})
           rest == SubSeq(p, at + 1, Len(p))
           c    == copy_paths(r, s, p)
<1>1. s \in RelayStates /\ PathRoom \in Nat
  BY SizesAssumption DEF RelayOK, PathRoom
<1>2. Len(p) \in Nat /\ used \in Nat /\ at \in Nat /\ at >= 1
  <2>1. Len(p) \in Nat
    OBVIOUS
  <2>2. used \in Nat
    BY <1>1, <2>1, SlotsType
  <2>3. IsFiniteSet(1..Len(p))
    BY <2>1, FS_Interval
  <2>4. Cardinality({j \in 1..Len(p) : SlotsAfter(s, p, j) < PathRoom}) \in Nat
    BY <2>3, FS_Subset, FS_CardinalityType
  <2> QED
    BY <2>1, <2>2, <2>4
<1>3. rest \in Seq(Nodes \cup {0}) /\ Len(rest) \in Nat /\ Len(rest) <= PathRoom
  <2> HIDE DEF at
  <2> QED
    BY <1>1, <1>2
<1>4. ASSUME used < PathRoom
      PROVE  /\ Copied(s, p, used) \in Seq(Nodes \cup {0}) /\ Len(Copied(s, p, used)) <= PathRoom
             /\ CopyOutcome(r, s, Copied(s, p, used), rest, c)
  <2>1. Copied(s, p, used) \in Seq(Nodes \cup {0}) /\ Len(Copied(s, p, used)) = used
    BY <1>1, <1>2, CopiedType
  <2> DEFINE q == Copied(s, p, PathRoom)
             fl1 == flush(r, [s EXCEPT !.paths = q])
             in2 == [fl1.st EXCEPT !.paths = rest]
             fl2 == flush(r, in2)
             none == [st |-> [s EXCEPT !.paths = Copied(s, p, used)], out |-> {}]
  <2>2. c = CASE used < PathRoom -> none
              [] used >= PathRoom /\ Len(rest) < PathRoom -> [st |-> in2, out |-> fl1.out]
              [] used >= PathRoom /\ Len(rest) >= PathRoom ->
                   [st |-> fl2.st, out |-> fl1.out \cup fl2.out]
    BY DEF copy_paths
  <2>3. c = none
    <3> HIDE DEF used, rest, in2, fl1, fl2, none, c
    <3> QED
      BY <1>1, <1>2, <1>4, <2>2
  <2> QED
    BY <1>1, <1>2, <1>4, <2>1, <2>3 DEF CopyOutcome
<1>5. ASSUME used >= PathRoom
      PROVE  /\ Copied(s, p, PathRoom) \in Seq(Nodes \cup {0})
             /\ Len(Copied(s, p, PathRoom)) <= PathRoom
             /\ CopyOutcome(r, s, Copied(s, p, PathRoom), rest, c)
  <2> DEFINE q == Copied(s, p, PathRoom)
             fl1 == flush(r, [s EXCEPT !.paths = q])
             in2 == [fl1.st EXCEPT !.paths = rest]
             fl2 == flush(r, in2)
  <2>1. q \in Seq(Nodes \cup {0}) /\ Len(q) = PathRoom
    BY <1>1, CopiedType
  <2>2. c = CASE used < PathRoom ->
                   [st |-> [s EXCEPT !.paths = Copied(s, p, used)], out |-> {}]
              [] used >= PathRoom /\ Len(rest) < PathRoom -> [st |-> in2, out |-> fl1.out]
              [] used >= PathRoom /\ Len(rest) >= PathRoom ->
                   [st |-> fl2.st, out |-> fl1.out \cup fl2.out]
    BY DEF copy_paths
  <2>3. c = [st |-> in2, out |-> fl1.out] \/ c = [st |-> fl2.st, out |-> fl1.out \cup fl2.out]
    <3> HIDE DEF used, rest, fl1, in2, fl2, c
    <3> QED
      BY <1>1, <1>2, <1>3, <1>5, <2>2
  <2>4. CopyOutcome(r, s, q, rest, c)
    BY <2>3 DEF CopyOutcome
  <2> QED
    BY <1>1, <2>1, <2>4
<1> HIDE DEF used, rest, c
<1> QED
  BY <1>1, <1>2, <1>3, <1>4, <1>5 DEF c

LEMMA CopyPathsSums ==
    ASSUME NEW r \in Relays, NEW s, RelayOK(s),
           NEW p \in Seq(Nodes \cup {0}), Len(p) <= PathRoom + 1
    PROVE  LET c == copy_paths(r, s, p)
           IN  /\ Stays(s, c.st)
               /\ Summed(r, s) => Summed(r, c.st) /\ CoversOut(c.out)
               /\ Learnt(r, s) => LeafOut(c.out)
<1> DEFINE c == copy_paths(r, s, p)
<1>1. PICK q \in Seq(Nodes \cup {0}), rest \in Seq(Nodes \cup {0}) :
         /\ Len(q) <= PathRoom /\ Len(rest) <= PathRoom
         /\ CopyOutcome(r, s, q, rest, c)
  BY CopyPathsOutcome
<1> DEFINE in1 == [s EXCEPT !.paths = q]
           fl1 == flush(r, in1)
           in2 == [fl1.st EXCEPT !.paths = rest]
           fl2 == flush(r, in2)
<1>2. \/ c = [st |-> in1, out |-> {}]
      \/ c = [st |-> in2, out |-> fl1.out]
      \/ c = [st |-> fl2.st, out |-> fl1.out \cup fl2.out]
  BY <1>1 DEF CopyOutcome
<1>3. c.st.checksum_children \in {s.checksum_children, <<>>}
  BY CopyPathsKeeps
<1>4. s \in RelayStates
  BY DEF RelayOK
<1>5. /\ in1 \in RelayStates /\ in1.paths = q /\ Stays(s, in1)
      /\ in1.checksum_children = s.checksum_children
  BY <1>1, <1>4, SetPathsType, SetPathsStays, SetPathsKeeps
<1>6. Summed(r, s) <=> Summed(r, in1)
  BY <1>5 DEF Summed
<1> HIDE DEF c, in1
<1>7. /\ fl1.st \in RelayStates /\ Stays(in1, fl1.st)
      /\ Summed(r, in1) => CoversOut(fl1.out)
      /\ Learnt(r, in1) => LeafOut(fl1.out)
  BY <1>1, <1>5, FlushType, FlushSums
<1>8. fl1.st.checksum_children = <<>>
  BY <1>1, <1>5, FlushKeeps
<1> HIDE DEF fl1
<1>9. /\ in2 \in RelayStates /\ in2.paths = rest /\ Stays(fl1.st, in2)
      /\ in2.checksum_children = <<>>
  BY <1>1, <1>7, <1>8, SetPathsType, SetPathsStays, SetPathsKeeps
<1> HIDE DEF in2
<1>10. /\ Stays(in2, fl2.st)
       /\ Summed(r, in2) => CoversOut(fl2.out)
       /\ Learnt(r, in2) => LeafOut(fl2.out)
  BY <1>1, <1>9, FlushSums
<1> HIDE DEF fl2
<1>11. Summed(r, in2)
  BY <1>9, NoSum, XorAllNone DEF Summed
<1>12. c.out = {} \/ c.out = fl1.out \/ c.out = fl1.out \cup fl2.out
  BY <1>2
<1>13. Stays(s, c.st)
  <2>1. Stays(s, fl1.st)
    BY <1>5, <1>7, StaysTwice
  <2>2. Stays(s, in2)
    BY <1>9, <2>1, StaysTwice
  <2>3. Stays(s, fl2.st)
    BY <1>10, <2>2, StaysTwice
  <2> QED
    BY <1>2, <1>5, <2>2, <2>3
<1>14. Summed(r, s) => Summed(r, c.st) /\ CoversOut(c.out)
  <2> SUFFICES ASSUME Summed(r, s) PROVE Summed(r, c.st) /\ CoversOut(c.out)
    OBVIOUS
  <2>1. Summed(r, c.st)
    BY <1>3, NoSum, XorAllNone DEF Summed
  <2>2. CoversOut(fl1.out) /\ CoversOut(fl2.out)
    BY <1>6, <1>7, <1>10, <1>11
  <2>3. CoversOut(fl1.out \cup fl2.out) /\ CoversOut({})
    BY <2>2, OutUnion
  <2> QED
    BY <1>12, <2>1, <2>2, <2>3
<1>15. Learnt(r, s) => LeafOut(c.out)
  <2> SUFFICES ASSUME Learnt(r, s) PROVE LeafOut(c.out)
    OBVIOUS
  <2>1. Learnt(r, in1)
    BY <1>5 DEF Learnt, Stays
  <2>2. Learnt(r, in2)
    BY <1>7, <1>9, <2>1 DEF Learnt, Stays
  <2>3. LeafOut(fl1.out) /\ LeafOut(fl2.out)
    BY <1>7, <1>10, <2>1, <2>2
  <2>4. LeafOut(fl1.out \cup fl2.out) /\ LeafOut({})
    BY <2>3, OutUnion
  <2> QED
    BY <1>12, <2>3, <2>4
<1> QED
  BY <1>13, <1>14, <1>15 DEF c

LEMMA SmallStepsStay ==
    ASSUME NEW s \in RelayStates
    PROVE  /\ \A t, f : Stays(s, ctimer_set(s, t, f))
           /\ Stays(s, ctimer_reset(s)) /\ Stays(s, Disarmed(s))
           /\ \A c : Stays(s, store_checksum(s, c))
           /\ \A id : Stays(s, child_set_pkt_received(s, id))
<1>1. \A t, f : Stays(s, ctimer_set(s, t, f))
  BY DEF ctimer_set, RelayStates, Stays
<1>2. Stays(s, ctimer_reset(s)) /\ Stays(s, Disarmed(s))
  BY DEF ctimer_reset, Disarmed, RelayStates, Stays
<1>3. \A c : Stays(s, store_checksum(s, c))
  BY DEF store_checksum, RelayStates, Stays
<1>4. \A id : Stays(s, child_set_pkt_received(s, id))
  BY DEF child_set_pkt_received, RelayStates, Stays
<1> QED
  BY <1>1, <1>2, <1>3, <1>4

\* Storing what a mote further away covers.
LEMMA StoreSums ==
    ASSUME NEW r \in Relays, NEW s \in RelayStates, Summed(r, s),
           NEW w \in SUBSET Word, w \in SumsOf(Farther(r))
    PROVE  Summed(r, store_checksum(s, w))
<1>1. CASE Len(s.checksum_children) < MAX_CHILD
  <2>1. store_checksum(s, w).checksum_children = Append(s.checksum_children, w)
    BY <1>1, StoreKeeps
  <2>2. s.checksum_children \in Seq(SUBSET Word)
    BY DEF RelayStates
  <2>3. XorAll(Append(s.checksum_children, w)) = Xor(XorAll(s.checksum_children), w)
    BY <2>2, XorAllAppend
  <2>4. Farther(r) \in SUBSET Nodes
    BY DEF Farther
  <2> QED
    BY <2>1, <2>3, <2>4, SumsXor DEF Summed
<1>2. CASE ~(Len(s.checksum_children) < MAX_CHILD)
  <2>1. store_checksum(s, w) = [s EXCEPT !.fault = TRUE]
    BY <1>2 DEF store_checksum
  <2>2. store_checksum(s, w).checksum_children = s.checksum_children
    BY <2>1 DEF RelayStates
  <2> QED
    BY <2>2 DEF Summed
<1> QED
  BY <1>1, <1>2

-----------------------------------------------------------------------------
(* The two handlers of responses. *)

LEMMA ProcessTopologySums ==
    ASSUME NEW r \in Relays, NEW s, RelayOK(s), NEW resp \in TopologyPackets,
           Len(resp.path) <= PathRoom + 1, NEW id
    PROVE  LET t == process_topology_req(r, s, resp, id)
           IN  /\ s.first_child => t.st.first_child
               /\ Learnt(r, s) /\ (is_child(s, id) => resp.max_leaf_rank \in LeafRanks(r))
                    => Learnt(r, t.st) /\ LeafOut(t.out)
               /\ Summed(r, s) /\ (is_child(s, id) => resp.checksum \in SumsOf(Farther(r)))
                    => Summed(r, t.st) /\ CoversOut(t.out)
<1> DEFINE s0 == ctimer_reset(s)
           s1 == child_set_pkt_received(s0, id)
           s2 == store_checksum(s1, resp.checksum)
           cp == copy_paths(r, s2, resp.path)
           mx == IF cp.st.max_leaf_rank < resp.max_leaf_rank
                 THEN resp.max_leaf_rank ELSE cp.st.max_leaf_rank
           s3 == [cp.st EXCEPT !.max_leaf_rank = mx]
           fw == send_topology_resp(r, s3)
           s4 == ctimer_set(s3, get_topology_timeout(r) * CLOCK_SECOND, "send_topology_resp")
           t  == process_topology_req(r, s, resp, id)
           rank == resp.max_leaf_rank \in LeafRanks(r)
           sum == resp.checksum \in SumsOf(Farther(r))
<1>1. s \in RelayStates /\ Len(s.paths) < PathRoom /\ SinkIsLeaf(s)
  BY DEF RelayOK
<1>2. /\ resp.path \in Seq(Nodes \cup {0}) /\ resp.max_leaf_rank \in UInt16
      /\ resp.checksum \in SUBSET Word
  BY DEF TopologyPackets
<1>3. /\ s0 \in RelayStates /\ s0.paths = s.paths /\ SameTable(s, s0) /\ Stays(s, s0)
      /\ s0.checksum_children = s.checksum_children
  BY <1>1, SmallStepsType, RearmKeeps, SmallStepsStay
<1> HIDE DEF s0
<1>4. /\ s1 \in RelayStates /\ s1.paths = s0.paths /\ SameTable(s0, s1) /\ Stays(s0, s1)
      /\ s1.checksum_children = s0.checksum_children
  BY <1>3, SmallStepsType, MarkKeeps, SmallStepsStay
<1> HIDE DEF s1
<1>5. /\ s2 \in RelayStates /\ s2.paths = s1.paths /\ SameTable(s1, s2) /\ Stays(s1, s2)
  BY <1>2, <1>4, SmallStepsType, SmallStepsStay
<1>6. Summed(r, s) /\ sum => Summed(r, s2)
  BY <1>2, <1>3, <1>4, StoreSums DEF Summed
<1> HIDE DEF s2
<1>7. RelayOK(s2)
  BY <1>1, <1>3, <1>4, <1>5 DEF RelayOK, SameTable, SinkIsLeaf
<1>8. Stays(s, s2)
  BY <1>3, <1>4, <1>5 DEF Stays
<1>9. /\ RelayOK(cp.st) /\ Stays(s2, cp.st)
      /\ Summed(r, s2) => Summed(r, cp.st) /\ CoversOut(cp.out)
      /\ Learnt(r, s2) => LeafOut(cp.out)
  BY <1>2, <1>7, CopyPathsType, CopyPathsSums
<1> HIDE DEF cp
<1>10. cp.st \in RelayStates /\ mx \in UInt16
  BY <1>2, <1>9 DEF RelayOK, RelayStates
<1>11. Learnt(r, s) /\ rank => mx \in LeafRanks(r)
  BY <1>8, <1>9 DEF Learnt, Stays
<1> HIDE DEF mx, rank, sum
<1>12. /\ s3 \in RelayStates /\ s3.max_leaf_rank = mx /\ s3.paths = cp.st.paths
       /\ s3.checksum_children = cp.st.checksum_children
       /\ s3.first_child = cp.st.first_child
  BY <1>10 DEF RelayStates
<1> HIDE DEF s3
<1>13. /\ Stays(s3, fw.st)
       /\ Summed(r, s3) => CoversOut(fw.out)
       /\ Learnt(r, s3) => LeafOut(fw.out)
       /\ fw.st.checksum_children = <<>>
  BY <1>12, SendTopologySums, SendTopologyKeeps
<1> HIDE DEF fw
<1>14. Stays(s3, s4) /\ s4.checksum_children = s3.checksum_children
  <2>1. Stays(s3, s4)
    BY <1>12, SmallStepsStay
  <2>2. \A u, f : ctimer_set(s3, u, f).checksum_children = s3.checksum_children
    BY <1>12 DEF ctimer_set, RelayStates
  <2> QED
    BY <2>1, <2>2
<1> HIDE DEF s4
<1>15. Learnt(r, s) /\ rank =>
          Learnt(r, s2) /\ Learnt(r, s3) /\ Learnt(r, fw.st) /\ Learnt(r, s4)
  BY <1>8, <1>11, <1>12, <1>13, <1>14 DEF Learnt, Stays
<1>16. Summed(r, s) /\ sum => Summed(r, s3) /\ Summed(r, fw.st) /\ Summed(r, s4)
  BY <1>6, <1>9, <1>12, <1>13, <1>14, NoSum, XorAllNone DEF Summed
<1>17. s.first_child => s2.first_child /\ fw.st.first_child /\ s4.first_child
  BY <1>8, <1>9, <1>12, <1>13, <1>14 DEF Stays
<1>18. \/ ~is_child(s, id) /\ t.st = s /\ t.out = {}
       \/ is_child(s, id) /\ t.st = s2 /\ t.out = {}
       \/ is_child(s, id) /\ t.st = fw.st /\ t.out = cp.out \cup fw.out
       \/ is_child(s, id) /\ t.st = s4 /\ t.out = cp.out
  <2>1. \/ ~is_child(s, id) /\ t = [st |-> s, out |-> {}]
        \/ is_child(s, id) /\ s2.fault /\ t = [st |-> s2, out |-> {}]
        \/ is_child(s, id) /\ t = [st |-> fw.st, out |-> cp.out \cup fw.out]
        \/ is_child(s, id) /\ t = [st |-> s4, out |-> cp.out]
    BY DEF process_topology_req, s0, s1, s2, cp, mx, s3, fw, s4
  <2> HIDE DEF t
  <2> QED
    BY <2>1
<1> HIDE DEF t
<1>19. ASSUME Learnt(r, s), is_child(s, id) => rank
       PROVE  Learnt(r, t.st) /\ LeafOut(t.out)
  <2>1. LeafOut({})
    BY OutUnion
  <2>2. is_child(s, id) => LeafOut(cp.out) /\ LeafOut(cp.out \cup fw.out)
    BY <1>9, <1>13, <1>15, <1>19, OutUnion
  <2> QED
    BY <1>15, <1>18, <1>19, <2>1, <2>2
<1>20. ASSUME Summed(r, s), is_child(s, id) => sum
       PROVE  Summed(r, t.st) /\ CoversOut(t.out)
  <2>1. CoversOut({})
    BY OutUnion
  <2>2. is_child(s, id) => CoversOut(cp.out) /\ CoversOut(cp.out \cup fw.out)
    BY <1>6, <1>9, <1>13, <1>16, <1>20, OutUnion
  <2> QED
    BY <1>6, <1>16, <1>18, <1>20, <2>1, <2>2
<1> QED
  BY <1>17, <1>18, <1>19, <1>20 DEF t, rank, sum

\* An attestation stores the checksum of whoever is heard and learns nothing.
LEMMA ProcessAttestationSums ==
    ASSUME NEW r \in Relays, NEW s, RelayOK(s), NEW resp \in AttPackets, NEW id
    PROVE  LET t == process_attestation_req(r, s, resp, id)
           IN  /\ t.max_leaf_rank = s.max_leaf_rank
               /\ Summed(r, s) /\ resp.checksum \in SumsOf(Farther(r)) => Summed(r, t)
               /\ s.first_child /\ ~t.first_child =>
                    t.periodic_timer = [armed |-> TRUE, f |-> "send_attestation_resp",
                                        timeout |-> get_attestation_timeout(r, s) * FrameTicks]
<1> DEFINE s1 == store_checksum(s, resp.checksum)
           s2 == ctimer_set(s1, get_attestation_timeout(r, s) * FrameTicks, "send_attestation_resp")
           s3 == [s2 EXCEPT !.first_child = FALSE]
           t == process_attestation_req(r, s, resp, id)
<1>1. s \in RelayStates /\ resp.checksum \in SUBSET Word
  BY DEF RelayOK, AttPackets
<1>2. s1 \in RelayStates /\ Stays(s, s1)
  BY <1>1, SmallStepsType, SmallStepsStay
<1>3. Summed(r, s) /\ resp.checksum \in SumsOf(Farther(r)) => Summed(r, s1)
  BY <1>1, StoreSums
<1> HIDE DEF s1
<1>4. /\ s2 \in RelayStates /\ Stays(s1, s2) /\ s2.checksum_children = s1.checksum_children
      /\ s2.periodic_timer = [armed |-> TRUE, f |-> "send_attestation_resp",
                              timeout |-> get_attestation_timeout(r, s) * FrameTicks]
  <2>1. s2 \in RelayStates
    BY <1>1, <1>2, TimeoutType, SmallStepsType DEF Callbacks
  <2>2. Stays(s1, s2)
    BY <1>2, SmallStepsStay
  <2>3. /\ s2.checksum_children = s1.checksum_children
        /\ s2.periodic_timer = [armed |-> TRUE, f |-> "send_attestation_resp",
                                timeout |-> get_attestation_timeout(r, s) * FrameTicks]
    BY <1>2, SetKeeps
  <2> QED
    BY <2>1, <2>2, <2>3
<1> HIDE DEF s2
<1>5. /\ s3.max_leaf_rank = s2.max_leaf_rank /\ s3.checksum_children = s2.checksum_children
      /\ s3.periodic_timer = s2.periodic_timer
  BY <1>4 DEF RelayStates
<1>6. t \in {s1, s3}
  BY DEF process_attestation_req, s1, s2
<1> HIDE DEF s3, t
<1>7. t.max_leaf_rank = s.max_leaf_rank
  BY <1>2, <1>4, <1>5, <1>6 DEF Stays
<1>8. Summed(r, s1) => Summed(r, t)
  BY <1>4, <1>5, <1>6 DEF Summed
<1>9. s.first_child /\ ~t.first_child => t = s3
  BY <1>2, <1>6 DEF Stays
<1> QED
  BY <1>3, <1>4, <1>5, <1>7, <1>8, <1>9 DEF t

-----------------------------------------------------------------------------
(* What motes answer, and the other events. *)

LEMMA AnswerSums ==
    ASSUME NEW n \in Nodes, NEW mpkt
    PROVE  /\ create_response(n, mpkt).checksum \in Covers(n)
           /\ mpkt.pkt_type = TOPOLOGY => create_response(n, mpkt).max_leaf_rank = Rank[n]
<1>1. attest_memory(n) \in Covers(n)
  BY CoversOne
<1>2. create_response(n, mpkt).checksum = attest_memory(n)
  BY DEF create_response, TopologyResp, AttResp
<1>3. mpkt.pkt_type = TOPOLOGY => create_response(n, mpkt).max_leaf_rank = Rank[n]
  BY DEF create_response, TopologyResp
<1> QED
  BY <1>1, <1>2, <1>3

LEMMA UnicastSums ==
    ASSUME NEW n, NEW s, NEW pkt, NEW is_client
    PROVE  LET out == send_to_parents(n, s, pkt, is_client)
           IN  /\ pkt.checksum \in Covers(n) => CoversOut(out)
               /\ pkt.max_leaf_rank \in LeafRanks(n) \cup {Rank[n]} => LeafOut(out)
<1>1. CopiesOf(n, pkt, send_to_parents(n, s, pkt, is_client))
  BY SentToParents
<1> QED
  BY <1>1 DEF CopiesOf, CoversOut, LeafOut

LEMMA BroadcastSums ==
    ASSUME NEW n \in Relays \cup Clients, NEW pkt
    PROVE  LET out == broadcast_to_parents(n, pkt)
           IN  /\ pkt.checksum \in Covers(n) => CoversOut(out)
               /\ LeafOut(out) /\ HeardOut(out)
  BY DEF broadcast_to_parents, Datagram, CoversOut, LeafOut, HeardOut, CHECKSUM_PORT,
         PARENT_UDP_CHECKSUM_PORT

LEMMA ToParentsHeard ==
    ASSUME NEW out, ToParents(out)
    PROVE  HeardOut(out)
  BY DEF ToParents, HeardOut, CHECKSUM_PORT, PARENT_UDP_CHECKSUM_PORT

\* A leaf relay, or one that has not settled, answers.
LEMMA McastHandlerSums ==
    ASSUME NEW r \in Relays, NEW s, RelayOK(s), NEW pkt
    PROVE  LET t == mcast_tcpip_handler(r, s, pkt)
           IN  /\ Stays(s, t.st)
               /\ CoversOut(t.out) /\ LeafOut(t.out) /\ HeardOut(t.out)
               /\ Summed(r, s) => Summed(r, t.st)
               /\ Ready(r, s) => Ready(r, t.st)
<1> DEFINE t == mcast_tcpip_handler(r, s, pkt)
           resp == create_response(r, pkt)
           u == get_parent_conn(s)
           s1 == [s EXCEPT !.ctimer_resp = resp]
<1>1. s \in RelayStates /\ r \in Nodes /\ r \in Relays \cup Clients
  BY DEF RelayOK, Nodes
<1>2. resp.checksum \in Covers(r)
  BY <1>1, AnswerSums
<1>3. CASE pkt.pkt_type = TOPOLOGY
  <2>1. t.st = u /\ t.out = send_to_parents(r, s, resp, TRUE)
    BY <1>3 DEF mcast_tcpip_handler
  <2>2. resp.max_leaf_rank = Rank[r]
    BY <1>1, <1>3, AnswerSums
  <2>3. /\ SameTimers(s, u) /\ Stays(s, u) /\ u.checksum_children = s.checksum_children
    BY <1>1, BindKeeps, BindStays DEF get_parent_conn
  <2>4. ToParents(t.out)
    BY <2>1, SendToParentsPort
  <2> HIDE DEF t, resp, u
  <2>5. CoversOut(t.out) /\ LeafOut(t.out)
    BY <1>2, <2>1, <2>2, UnicastSums
  <2>6. HeardOut(t.out)
    BY <2>4, ToParentsHeard
  <2>7. (Summed(r, s) => Summed(r, u)) /\ (Ready(r, s) => Ready(r, u))
    BY <2>3 DEF Summed, Ready, SameTimers, SameResp
  <2> QED
    BY <2>1, <2>3, <2>5, <2>6, <2>7 DEF t
<1>4. CASE pkt.pkt_type # TOPOLOGY
  <2>1. t.st = s1 /\ t.out = broadcast_to_parents(r, resp)
    BY <1>4 DEF mcast_tcpip_handler
  <2> HIDE DEF t, resp
  <2>2. /\ Stays(s, s1) /\ s1.checksum_children = s.checksum_children
        /\ s1.ctimer_resp = resp
    BY <1>1 DEF RelayStates, Stays
  <2> HIDE DEF s1
  <2>3. CoversOut(t.out) /\ LeafOut(t.out) /\ HeardOut(t.out)
    BY <1>1, <1>2, <2>1, BroadcastSums
  <2>4. (Summed(r, s) => Summed(r, s1)) /\ Ready(r, s1)
    BY <1>2, <2>2 DEF Summed, Ready
  <2> QED
    BY <2>1, <2>2, <2>3, <2>4 DEF t
<1> QED
  BY <1>3, <1>4

\* send_attestation_resp leaves an aggregate of all that was added up.
LEMMA SendAttestationSums ==
    ASSUME NEW r \in Relays, NEW s, RelayOK(s)
    PROVE  LET t == send_attestation_resp(r, s)
           IN  /\ Stays(s, t)
               /\ Summed(r, s) => Summed(r, t) /\ (Ready(r, s) => Ready(r, t))
<1> DEFINE a == attested(r, s)
           c == get_combined_checksum(r, s)
           u == [a EXCEPT !.ctimer_resp = AttResp(c), !.p_timer = TRUE]
           t == send_attestation_resp(r, s)
<1>1. s \in RelayStates /\ r \in Nodes
  BY DEF RelayOK, Nodes
<1>2. /\ a \in RelayStates /\ SameResp(s, a) /\ Stays(s, a)
      /\ a.checksum_children = s.checksum_children
  BY <1>1, ChecksumType DEF attested, RelayStates, SameResp, Stays
<1>3. AttResp(c) \in AttPackets /\ AttResp(c).checksum = c
  BY ChecksumType DEF get_combined_checksum, AttResp, AttPackets
<1>4. Summed(r, s) => c \in Covers(r)
  BY <1>1, CoversSelf DEF Summed, get_combined_checksum
<1>5. t = IF c = {} THEN a ELSE reset_variable(u)
  BY DEF send_attestation_resp
<1> HIDE DEF a, c, t
<1>6. u \in RelayStates /\ u.ctimer_resp = AttResp(c) /\ Stays(a, u)
  BY <1>2, <1>3 DEF RelayStates, Stays
<1> HIDE DEF u
<1>7. /\ SameTimers(u, reset_variable(u)) /\ Stays(u, reset_variable(u))
      /\ reset_variable(u).checksum_children = <<>>
  BY <1>6, ResetKeeps, ResetStays
<1>8. Stays(s, t)
  BY <1>2, <1>5, <1>6, <1>7 DEF Stays
<1>9. Summed(r, s) => Summed(r, t)
  BY <1>2, <1>5, <1>7, NoSum, XorAllNone DEF Summed
<1>10. Summed(r, s) /\ Ready(r, s) => Ready(r, t)
  BY <1>2, <1>3, <1>4, <1>5, <1>6, <1>7 DEF Ready, SameTimers, SameResp
<1> QED
  BY <1>8, <1>9, <1>10 DEF t

LEMMA SettledStays ==
    ASSUME NEW r \in Relays, NEW s \in RelayStates
    PROVE  Stays(s, network_settled(r, s))
<1> DEFINE children == {p \in Nbr[r] : Rank[p] > Rank[r]}
           a == [s EXCEPT !.child_list = children, !.received_pkt = {}]
           b == [s EXCEPT !.fault = TRUE]
           f == fill_child_entries(r, s)
           t == [f EXCEPT !.settled = TRUE]
           u == udp_new_bind(t)
           v == [u EXCEPT !.sink = ConnFree(t)]
<1>1. children \in SUBSET Nodes
  BY NbrType DEF Nodes
<1>2. f = a \/ f = b
  BY DEF fill_child_entries
<1>3. network_settled(r, s) = v \/ network_settled(r, s) = t
  BY DEF network_settled
<1> HIDE DEF children
<1>4. a \in RelayStates /\ Stays(s, a)
  BY <1>1 DEF RelayStates, Stays
<1>5. b \in RelayStates /\ Stays(s, b)
  BY DEF RelayStates, Stays
<1> HIDE DEF a, b, f
<1>6. t \in RelayStates /\ Stays(s, t)
  BY <1>2, <1>4, <1>5 DEF RelayStates, Stays
<1> HIDE DEF t
<1>7. u \in RelayStates /\ Stays(t, u)
  BY <1>6, BindType, BindStays
<1> HIDE DEF u
<1>8. Stays(u, v)
  BY <1>7 DEF RelayStates, Stays
<1> HIDE DEF v
<1> QED
  BY <1>3, <1>6, <1>7, <1>8, StaysTwice

\* The response of a child whose timer is started.
ArmedBy(r, s, t) ==
    s.first_child /\ ~t.first_child =>
        t.periodic_timer = [armed |-> TRUE, f |-> "send_attestation_resp",
                            timeout |-> get_attestation_timeout(r, s) * FrameTicks]

LEMMA StaysArmed ==
    ASSUME NEW r, NEW s, NEW t, Stays(s, t)
    PROVE  ArmedBy(r, s, t) /\ (Learnt(r, s) => Learnt(r, t))
  BY DEF Stays, ArmedBy, Learnt

LEMMA RelayReceiveSums ==
    ASSUME NEW r \in Relays, NEW s, RelayOK(s), ChildrenBelow(r, s),
           NEW d \in Datagrams, OutOK({d}), LeafOut({d}), Learnt(r, s)
    PROVE  LET t == RelayReceive(r, s, d)
           IN  /\ Learnt(r, t.st) /\ LeafOut(t.out) /\ HeardOut(t.out) /\ ArmedBy(r, s, t.st)
               /\ /\ Summed(r, s) /\ Ready(r, s) /\ CoversOut({d})
                  /\ d.port = CHECKSUM_PORT => Rank[d.src] > Rank[r]
                  => Summed(r, t.st) /\ Ready(r, t.st) /\ CoversOut(t.out)
<1> DEFINE t == RelayReceive(r, s, d)
           m == mcast_tcpip_handler(r, s, d.pkt)
           Sums == /\ Summed(r, s) /\ Ready(r, s) /\ CoversOut({d})
                   /\ d.port = CHECKSUM_PORT => Rank[d.src] > Rank[r]
           Ok(x) == /\ Learnt(r, x.st) /\ LeafOut(x.out) /\ HeardOut(x.out)
                    /\ ArmedBy(r, s, x.st)
                    /\ Sums => Summed(r, x.st) /\ Ready(r, x.st) /\ CoversOut(x.out)
<1>1. d.port \in {MCAST_SINK_UDP_PORT, PARENT_UDP_CHECKSUM_PORT, CHECKSUM_PORT}
      /\ d.src \in Nodes /\ r \in Nodes
  BY DEF Datagrams, Nodes
<1>2. ASSUME NEW x, x = [st |-> s, out |-> {}] PROVE Ok(x)
  BY <1>2 DEF LeafOut, HeardOut, CoversOut, ArmedBy
<1>3. Ok(m)
  <2>1. /\ Stays(s, m.st)
        /\ CoversOut(m.out) /\ LeafOut(m.out) /\ HeardOut(m.out)
        /\ Summed(r, s) => Summed(r, m.st)
        /\ Ready(r, s) => Ready(r, m.st)
    BY McastHandlerSums
  <2> HIDE DEF m
  <2> QED
    BY <2>1, StaysArmed
<1>4. CASE d.port = MCAST_SINK_UDP_PORT /\ ~s.sink
  <2>1. t = [st |-> s, out |-> {}]
    BY <1>4 DEF RelayReceive, CHECKSUM_PORT, MCAST_SINK_UDP_PORT
  <2> HIDE DEF t
  <2>2. Ok(t)
    BY <1>2, <2>1
  <2> QED
    BY <2>2 DEF t
<1>5. CASE d.port = MCAST_SINK_UDP_PORT /\ s.sink
  <2>1. is_leaf(s)
    BY <1>5, FS_EmptySet DEF RelayOK, SinkIsLeaf, is_leaf, get_child_count
  <2>2. t = m
    BY <1>5, <2>1 DEF RelayReceive, CHECKSUM_PORT, MCAST_SINK_UDP_PORT
  <2> HIDE DEF t, m
  <2> QED
    BY <1>3, <2>2 DEF t
<1>6. CASE d.port = CHECKSUM_PORT
  <2>1. d.pkt \in AttPackets
    BY <1>6 DEF Datagrams, MCAST_SINK_UDP_PORT, PARENT_UDP_CHECKSUM_PORT, CHECKSUM_PORT
  <2>2. d.pkt.pkt_type # TOPOLOGY
    BY <2>1 DEF AttPackets, TOPOLOGY, ATTESTATION
  <2> DEFINE u == process_attestation_req(r, s, d.pkt, d.src)
  <2>3. t = [st |-> u, out |-> {}] \/ t = [st |-> s, out |-> {}]
    BY <1>6, <2>2 DEF RelayReceive, checksum_receiver, tcpip_handler
  <2>4. Sums => d.pkt.checksum \in SumsOf(Farther(r))
    <3> SUFFICES ASSUME Sums PROVE d.pkt.checksum \in SumsOf(Farther(r))
      OBVIOUS
    <3>1. d.pkt.checksum \in Covers(d.src)
      BY <1>6 DEF CoversOut, CHECKSUM_PORT, MCAST_SINK_UDP_PORT
    <3> QED
      BY <1>1, <1>6, <3>1, CoversFarther
  <2>5. /\ u.max_leaf_rank = s.max_leaf_rank
        /\ Summed(r, s) /\ d.pkt.checksum \in SumsOf(Farther(r)) => Summed(r, u)
        /\ ArmedBy(r, s, u)
    BY <2>1, ProcessAttestationSums DEF ArmedBy
  <2>6. SameResp(s, u)
    BY <2>1, ProcessAttestationKeeps
  <2> HIDE DEF t, u
  <2>7. Learnt(r, u) /\ (Ready(r, s) => Ready(r, u))
    BY <2>5, <2>6 DEF Learnt, Ready, SameResp
  <2>8. t = [st |-> u, out |-> {}] => Ok(t)
    BY <2>4, <2>5, <2>7 DEF LeafOut, HeardOut, CoversOut
  <2>9. Ok(t)
    BY <1>2, <2>3, <2>8
  <2> QED
    BY <2>9 DEF t
<1>7. CASE d.port = PARENT_UDP_CHECKSUM_PORT
  <2>1. d.pkt \in TopologyPackets /\ Len(d.pkt.path) <= PathRoom + 1
    BY <1>7 DEF OutOK, Datagrams, MCAST_SINK_UDP_PORT, PARENT_UDP_CHECKSUM_PORT, CHECKSUM_PORT
  <2>2. d.pkt.pkt_type = TOPOLOGY
    BY <2>1 DEF TopologyPackets
  <2> DEFINE u == process_topology_req(r, s, d.pkt, d.src)
  <2>3. t = m \/ t = u
    <3>1. \/ t = mcast_tcpip_handler(r, s, d.pkt)
          \/ t = tcpip_handler(r, s, d.pkt, d.src)
      BY <1>7 DEF RelayReceive, CHECKSUM_PORT, MCAST_SINK_UDP_PORT, PARENT_UDP_CHECKSUM_PORT
    <3>2. tcpip_handler(r, s, d.pkt, d.src) = process_topology_req(r, s, d.pkt, d.src)
      BY <2>2 DEF tcpip_handler, TOPOLOGY, ATTESTATION
    <3> QED
      BY <3>1, <3>2
  <2>4. is_child(s, d.src) => d.pkt.max_leaf_rank \in LeafRanks(r)
    <3>1. d.pkt.max_leaf_rank \in LeafRanks(d.src) \cup {Rank[d.src]}
      BY <1>7 DEF LeafOut
    <3> QED
      BY <1>1, <3>1, LeafFarther DEF is_child, ChildrenBelow
  <2>5. CoversOut({d}) /\ is_child(s, d.src) => d.pkt.checksum \in SumsOf(Farther(r))
    <3> SUFFICES ASSUME CoversOut({d}), is_child(s, d.src)
                 PROVE  d.pkt.checksum \in SumsOf(Farther(r))
      OBVIOUS
    <3>1. d.pkt.checksum \in Covers(d.src)
      BY <1>7 DEF CoversOut, PARENT_UDP_CHECKSUM_PORT, MCAST_SINK_UDP_PORT
    <3>2. Rank[d.src] > Rank[r]
      BY DEF is_child, ChildrenBelow
    <3> QED
      BY <1>1, <3>1, <3>2, CoversFarther
  <2>6. /\ s.first_child => u.st.first_child
        /\ Learnt(r, u.st) /\ LeafOut(u.out)
        /\ Summed(r, s) /\ CoversOut({d}) => Summed(r, u.st) /\ CoversOut(u.out)
    BY <2>1, <2>4, <2>5, ProcessTopologySums
  <2>7. SameResp(s, u.st) /\ ToParents(u.out)
    BY <2>1, ProcessTopologyKeeps
  <2> HIDE DEF t, u, m
  <2>8. HeardOut(u.out) /\ (Ready(r, s) => Ready(r, u.st))
    BY <2>7, ToParentsHeard DEF Ready, SameResp
  <2>9. Ok(u)
    BY <2>6, <2>8 DEF ArmedBy
  <2> QED
    BY <1>3, <2>3, <2>9 DEF t
<1> QED
  BY <1>1, <1>4, <1>5, <1>6, <1>7

LEMMA ClientReceiveSums ==
    ASSUME NEW c \in Clients, NEW s, NEW d
    PROVE  LET out == ClientReceive(c, s, d).out
           IN  CoversOut(out) /\ LeafOut(out) /\ HeardOut(out)
<1> DEFINE resp == create_response(c, d.pkt)
           s1 == [s EXCEPT !.checksum = attest_memory(c)]
           out == ClientReceive(c, s, d).out
<1>1. c \in Nodes /\ c \in Relays \cup Clients
  BY DEF Nodes
<1>2. resp.checksum \in Covers(c)
  BY <1>1, AnswerSums
<1>3. CASE ~ClientAccepts(c, s, d)
  BY <1>3 DEF ClientReceive, CoversOut, LeafOut, HeardOut
<1>4. CASE ClientAccepts(c, s, d) /\ d.pkt.pkt_type = TOPOLOGY
  <2>1. out = send_to_parents(c, s1, resp, TRUE)
    BY <1>4 DEF ClientReceive, client_tcpip_handler
  <2>2. resp.max_leaf_rank = Rank[c]
    BY <1>1, <1>4, AnswerSums
  <2>3. ToParents(out)
    BY <2>1, SendToParentsPort
  <2> HIDE DEF resp, s1, out
  <2>4. CoversOut(out) /\ LeafOut(out) /\ HeardOut(out)
    BY <1>2, <2>1, <2>2, <2>3, UnicastSums, ToParentsHeard
  <2> QED
    BY <2>4 DEF out
<1>5. CASE ClientAccepts(c, s, d) /\ d.pkt.pkt_type # TOPOLOGY
  <2>1. out = broadcast_to_parents(c, resp)
    BY <1>5 DEF ClientReceive, client_tcpip_handler
  <2> HIDE DEF resp, out
  <2>2. CoversOut(out) /\ LeafOut(out) /\ HeardOut(out)
    BY <1>1, <1>2, <2>1, BroadcastSums
  <2> QED
    BY <2>2 DEF out
<1> QED
  BY <1>3, <1>4, <1>5

-----------------------------------------------------------------------------
(* The invariant. *)

\* Where nothing is added up but what comes from below.
SumsAdd == RelaysHearBelow \/ Requests \subseteq {TOPOLOGY}

\* HoldInv, where it is claimed: it keeps broadcasts out.
HoldIf == Requests \subseteq {TOPOLOGY} => HoldInv

\* Whatever the verifier asks, ranks learnt are ranks of motes further away
\* and broadcasts are heard by neighbours; and where SumsAdd, checksums stored,
\* waiting and in flight are sums over motes further away.
SumsInv ==
    /\ LeafOut(net) /\ HeardOut(net)
    /\ \A r \in Relays : Learnt(r, relay[r])
    /\ SumsAdd => /\ CoversOut(net)
                  /\ \A r \in Relays : Summed(r, relay[r]) /\ Ready(r, relay[r])

LEMMA HoldIfInvariant == Spec => []HoldIf
<1>1. CASE Requests \subseteq {TOPOLOGY}
  <2>1. HoldInv => HoldIf
    BY DEF HoldIf
  <2>2. Spec => []HoldInv
    BY <1>1, HoldInvariant
  <2> QED
    BY <2>1, <2>2, PTL
<1>2. CASE ~(Requests \subseteq {TOPOLOGY})
  <2>1. HoldIf
    BY <1>2 DEF HoldIf
  <2> QED
    BY <2>1, PTL
<1> QED
  BY <1>1, <1>2

LEMMA InitSumsInv == Init => SumsInv
<1> SUFFICES ASSUME Init PROVE SumsInv
  OBVIOUS
<1>1. net = {}
  BY DEF Init
<1>2. ASSUME NEW r \in Relays
      PROVE  Learnt(r, relay[r]) /\ Summed(r, relay[r]) /\ Ready(r, relay[r])
  <2>1. RelayBoot \in RelayStates
    BY BootType
  <2>2. /\ RelayBoot.max_leaf_rank = 0 /\ RelayBoot.checksum_children = <<>>
        /\ ~RelayBoot.p_timer
    BY DEF RelayBoot
  <2>3. relay[r] = network_settled(r, RelayBoot) \/ relay[r] = RelayBoot
    BY DEF Init
  <2>4. /\ relay[r].max_leaf_rank = 0 /\ relay[r].checksum_children = <<>>
        /\ ~relay[r].p_timer
    BY <2>1, <2>2, <2>3, SettledKeeps, SettledStays DEF Stays
  <2> QED
    BY <2>4, XorAllNone, NoSum DEF Learnt, LeafRanks, Summed, Ready
<1> QED
  BY <1>1, <1>2 DEF SumsInv, LeafOut, HeardOut, CoversOut

\* A datagram that is added up by the relay it reaches comes from below.
LEMMA HeardFromBelow ==
    ASSUME SumsAdd, HoldIf, HeardOut(net), NEW d \in net, d.dst \in Relays,
           d.port = CHECKSUM_PORT
    PROVE  Rank[d.src] > Rank[d.dst]
<1>1. ~(Requests \subseteq {TOPOLOGY})
  BY DEF HoldIf, HoldInv, HoldNow, TopologyOnly
<1>2. d.src \in Relays \cup Clients /\ d.dst \in Nbr[d.src]
  BY DEF HeardOut
<1> QED
  BY <1>1, <1>2 DEF SumsAdd, RelaysHearBelow

LEMMA NextSumsInv == PathInv /\ PathsInv /\ HoldIf /\ SumsInv /\ [Next]_vars => SumsInv'
<1> SUFFICES ASSUME PathInv, PathsInv, HoldIf, SumsInv, [Next]_vars PROVE SumsInv'
  OBVIOUS
<1> DEFINE Added(r, s) == SumsAdd => Summed(r, s) /\ Ready(r, s)
           NetOK(out) == /\ LeafOut(out) /\ HeardOut(out)
                         /\ SumsAdd => CoversOut(out)
<1>1. /\ relay \in [Relays -> RelayStates] /\ net \subseteq Datagrams /\ OutOK(net)
      /\ NetOK(net)
  BY DEF PathInv, TypeOK, SumsInv
<1>2. \A r \in Relays : /\ RelayOK(relay[r]) /\ relay[r] \in RelayStates
                        /\ ChildrenBelow(r, relay[r]) /\ r \in Nodes
                        /\ Learnt(r, relay[r]) /\ Added(r, relay[r])
  BY DEF PathInv, RelayOK, PathsInv, SumsInv, Nodes
<1>3. ASSUME NEW r \in Relays, NEW s, relay' = [relay EXCEPT ![r] = s], Learnt(r, s),
             Added(r, s), NetOK(net')
      PROVE  SumsInv'
  <2>1. \A q \in Relays : Learnt(q, relay'[q]) /\ Added(q, relay'[q])
    BY <1>1, <1>2, <1>3
  <2> QED
    BY <1>3, <2>1 DEF SumsInv, Learnt, Summed, Ready, LeafOut, HeardOut, CoversOut
<1>4. ASSUME relay' = relay, NetOK(net') PROVE SumsInv'
  BY <1>2, <1>4 DEF SumsInv, LeafOut, HeardOut, CoversOut
<1>5. ASSUME NEW d, NEW out, NetOK(out)
      PROVE  NetOK((net \ {d}) \cup out) /\ NetOK(net \cup out) /\ NetOK(net \ {d})
  BY <1>1, <1>5 DEF LeafOut, HeardOut, CoversOut
<1> HIDE DEF Added, NetOK
<1>6. ASSUME NEW type \in Requests, VerifierRequest(type) PROVE SumsInv'
  <2>1. NetOK(multicast_send(type))
    BY DEF multicast_send, Datagram, NetOK, LeafOut, HeardOut, CoversOut,
           MCAST_SINK_UDP_PORT, PARENT_UDP_CHECKSUM_PORT, CHECKSUM_PORT
  <2>2. NetOK(net \cup multicast_send(type))
    BY <1>5, <2>1
  <2> QED
    BY <1>4, <1>6, <2>2 DEF VerifierRequest
<1>7. ASSUME NEW r \in Relays, Settle(r) PROVE SumsInv'
  <2> DEFINE s == network_settled(r, relay[r])
  <2>1. /\ Stays(relay[r], s) /\ s.checksum_children = relay[r].checksum_children
        /\ s.p_timer = relay[r].p_timer /\ s.ctimer_resp = relay[r].ctimer_resp
    BY <1>2, SettledStays, SettledKeeps
  <2>2. relay' = [relay EXCEPT ![r] = s] /\ net' = net
    BY <1>7 DEF Settle
  <2> HIDE DEF s
  <2>3. Learnt(r, s) /\ Added(r, s)
    BY <1>2, <2>1 DEF Stays, Learnt, Added, Summed, Ready
  <2> QED
    BY <1>1, <1>3, <2>2, <2>3
<1>8. ASSUME NEW d \in net, DeliverRelay(d) PROVE SumsInv'
  <2> DEFINE rx == RelayReceive(d.dst, relay[d.dst], d)
  <2>1. /\ d.dst \in Relays /\ d \in Datagrams /\ OutOK({d}) /\ LeafOut({d})
        /\ SumsAdd => CoversOut({d})
    BY <1>1, <1>8 DEF DeliverRelay, OutOK, NetOK, LeafOut, CoversOut
  <2>2. SumsAdd /\ d.port = CHECKSUM_PORT => Rank[d.src] > Rank[d.dst]
    BY <1>1, <2>1, HeardFromBelow DEF NetOK
  <2>3. /\ Learnt(d.dst, rx.st) /\ LeafOut(rx.out) /\ HeardOut(rx.out)
        /\ /\ Summed(d.dst, relay[d.dst]) /\ Ready(d.dst, relay[d.dst]) /\ CoversOut({d})
           /\ d.port = CHECKSUM_PORT => Rank[d.src] > Rank[d.dst]
           => Summed(d.dst, rx.st) /\ Ready(d.dst, rx.st) /\ CoversOut(rx.out)
    BY <1>2, <2>1, RelayReceiveSums
  <2>4. relay' = [relay EXCEPT ![d.dst] = rx.st] /\ net' = (net \ {d}) \cup rx.out
    BY <1>8 DEF DeliverRelay
  <2> HIDE DEF rx
  <2>5. Added(d.dst, rx.st) /\ NetOK(rx.out)
    BY <1>2, <2>1, <2>2, <2>3 DEF Added, NetOK
  <2> QED
    BY <1>3, <1>5, <2>1, <2>3, <2>4, <2>5
<1>9. ASSUME NEW d \in net, DeliverClient(d) PROVE SumsInv'
  <2>1. NetOK(ClientReceive(d.dst, client[d.dst], d).out)
    BY <1>9, ClientReceiveSums DEF DeliverClient, NetOK
  <2>2. /\ relay' = relay
        /\ net' = (net \ {d}) \cup ClientReceive(d.dst, client[d.dst], d).out
    BY <1>9 DEF DeliverClient
  <2> QED
    BY <1>4, <1>5, <2>1, <2>2
<1>10. ASSUME NEW d \in net, DeliverRoot(d) \/ Lose(d) PROVE SumsInv'
  <2>1. relay' = relay /\ net' = net \ {d}
    BY <1>10 DEF DeliverRoot, Lose
  <2>2. NetOK(net \ {d})
    BY <1>1, <1>5
  <2> QED
    BY <1>4, <2>1, <2>2
<1>11. ASSUME NEW r \in Relays, PeriodicTimer(r) PROVE SumsInv'
  <2> DEFINE s == Disarmed(relay[r])
             topo == send_topology_resp(r, s)
             att == send_attestation_resp(r, s)
  <2>1. /\ s \in RelayStates /\ s.max_leaf_rank = relay[r].max_leaf_rank
        /\ s.checksum_children = relay[r].checksum_children
        /\ SameResp(relay[r], s) /\ RelayOK(s)
    <3>1. /\ s \in RelayStates /\ s.checksum_children = relay[r].checksum_children
          /\ SameResp(relay[r], s) /\ s.paths = relay[r].paths
          /\ SameTable(relay[r], s)
      BY <1>2, DisarmKeeps
    <3>2. s.max_leaf_rank = relay[r].max_leaf_rank
      BY <1>2 DEF Disarmed, RelayStates
    <3>3. RelayOK(s)
      BY <1>2, <3>1 DEF RelayOK, SameTable, SinkIsLeaf
    <3> QED
      BY <3>1, <3>2, <3>3
  <2>2. Learnt(r, s) /\ Added(r, s)
    BY <1>2, <2>1 DEF Learnt, Added, Summed, Ready, SameResp
  <2>3. \/ relay' = [relay EXCEPT ![r] = topo.st] /\ net' = net \cup topo.out
        \/ relay' = [relay EXCEPT ![r] = att] /\ net' = net
        \/ relay' = [relay EXCEPT ![r] = s] /\ net' = net
    BY <1>11 DEF PeriodicTimer, Disarmed
  <2> HIDE DEF s
  <2>4. CASE relay' = [relay EXCEPT ![r] = topo.st] /\ net' = net \cup topo.out
    <3>1. /\ Stays(s, topo.st) /\ (Summed(r, s) => CoversOut(topo.out))
          /\ LeafOut(topo.out)
      BY <2>1, <2>2, SendTopologySums
    <3>2. /\ SameResp(s, topo.st) /\ topo.st.checksum_children = <<>>
          /\ HeardOut(topo.out)
      BY <2>1, SendTopologyKeeps, ToParentsHeard DEF SameTimers
    <3> HIDE DEF topo
    <3>3. Learnt(r, topo.st)
      BY <2>2, <3>1 DEF Stays, Learnt
    <3>4. Added(r, topo.st)
      BY <2>2, <3>2, XorAllNone, NoSum DEF Added, Summed, Ready, SameResp
    <3>5. NetOK(topo.out)
      BY <2>2, <3>1, <3>2 DEF Added, NetOK
    <3> QED
      BY <1>3, <1>5, <2>4, <3>3, <3>4, <3>5
  <2>5. CASE relay' = [relay EXCEPT ![r] = att] /\ net' = net
    <3>1. /\ Stays(s, att)
          /\ Summed(r, s) => Summed(r, att) /\ (Ready(r, s) => Ready(r, att))
      BY <2>1, SendAttestationSums
    <3> HIDE DEF att
    <3>2. Learnt(r, att) /\ Added(r, att)
      BY <2>2, <3>1 DEF Stays, Learnt, Added
    <3> QED
      BY <1>1, <1>3, <2>5, <3>2
  <2>6. CASE relay' = [relay EXCEPT ![r] = s] /\ net' = net
    BY <1>1, <1>3, <2>2, <2>6
  <2> QED
    BY <2>3, <2>4, <2>5, <2>6
<1>12. ASSUME NEW r \in Relays, PTimer(r) PROVE SumsInv'
  <2> DEFINE s == [relay[r] EXCEPT !.p_timer = FALSE]
             out == broadcast_to_parents(r, relay[r].ctimer_resp)
  <2>1. /\ s.max_leaf_rank = relay[r].max_leaf_rank /\ ~s.p_timer
        /\ s.checksum_children = relay[r].checksum_children
    BY <1>2 DEF RelayStates
  <2>2. relay' = [relay EXCEPT ![r] = s] /\ net' = net \cup out /\ relay[r].p_timer
    BY <1>12 DEF PTimer
  <2>3. /\ relay[r].ctimer_resp.checksum \in Covers(r) => CoversOut(out)
        /\ LeafOut(out) /\ HeardOut(out)
    BY BroadcastSums
  <2> HIDE DEF s, out
  <2>4. Learnt(r, s) /\ Added(r, s)
    BY <1>2, <2>1 DEF Learnt, Added, Summed, Ready
  <2>5. NetOK(out)
    BY <1>2, <2>2, <2>3 DEF Added, Ready, NetOK
  <2> QED
    BY <1>3, <1>5, <2>2, <2>4, <2>5
<1>13. CASE UNCHANGED vars
  BY <1>1, <1>4, <1>13 DEF vars
<1> QED
  BY <1>6, <1>7, <1>8, <1>9, <1>10, <1>11, <1>12, <1>13 DEF Next, Deliver

LEMMA SumsInvariant == Spec => []SumsInv
  BY InitSumsInv, NextSumsInv, PathInvariant, PathsInvariant, HoldIfInvariant, PTL DEF Spec

\* In every swarm whose relays hear nobody but motes further from the root,
\* and in every swarm while only topologies are requested, a response that
\* get_combined_checksum or create_response made covers its sender and, each at
\* most once, motes further from the root - over any number of requests, and
\* whatever is lost or reordered.
THEOREM AggregatesFromBelow ==
    (RelaysHearBelow \/ Requests \subseteq {TOPOLOGY}) /\ Spec => []AggregateFromBelow
<1> SUFFICES ASSUME SumsAdd PROVE Spec => []AggregateFromBelow
  BY DEF SumsAdd
<1>1. SumsInv => AggregateFromBelow
  <2> SUFFICES ASSUME SumsInv, NEW d \in net, d.port # MCAST_SINK_UDP_PORT
               PROVE  \E S \in SUBSET {n \in Nodes : Rank[n] > Rank[d.src]} :
                         d.pkt.checksum = XorOf(S \cup {d.src})
    BY DEF AggregateFromBelow
  <2>1. d.pkt.checksum \in Covers(d.src)
    BY DEF SumsInv, CoversOut
  <2> QED
    BY <2>1 DEF Covers, Farther
<1> QED
  BY <1>1, SumsInvariant, PTL

-----------------------------------------------------------------------------
(* The timeout of a relay whose first child answers. *)

\* With OF0's ranks, get_attestation_timeout is the number of hops to the mote
\* whose rank was learnt.
LEMMA TimeoutHops ==
    ASSUME RanksCountHops, NEW r \in Nodes, NEW n \in Nodes, Rank[n] > Rank[r],
           NEW s, s.max_leaf_rank = Rank[n]
    PROVE  get_attestation_timeout(r, s) = (Rank[n] - Rank[r]) \div 768
<1> DEFINE a == Rank[n] \div 768
           b == Rank[r] \div 768
<1>1. /\ Rank[n] \in Nat /\ Rank[n] < 65536 /\ Rank[n] % 768 = 256
      /\ Rank[r] \in Nat /\ Rank[r] < 65536 /\ Rank[r] % 768 = 256
  BY RankType DEF RanksCountHops, UInt16
<1>2. /\ a \in Nat /\ Rank[n] = 768 * a + 256 /\ a < 256
      /\ b \in Nat /\ Rank[r] = 768 * b + 256
  BY <1>1
<1> HIDE DEF a, b
<1>3. a - b \in 1..255
  BY <1>1, <1>2
<1>4. Rank[n] \div 256 = 3 * a + 1 /\ Rank[r] \div 256 = 3 * b + 1
  BY <1>2
<1>5. CDiv((Rank[n] \div 256) - (Rank[r] \div 256), 3) = a - b
  <2>1. (Rank[n] \div 256) - (Rank[r] \div 256) = 3 * (a - b)
    BY <1>2, <1>4
  <2>2. 3 * (a - b) >= 0 /\ (3 * (a - b)) \div 3 = a - b
    BY <1>3
  <2> QED
    BY <2>1, <2>2 DEF CDiv
<1>6. (a - b) % 256 = a - b
  BY <1>3
<1>7. (Rank[n] - Rank[r]) \div 768 = a - b
  <2>1. Rank[n] - Rank[r] = 768 * (a - b)
    BY <1>2
  <2>2. (768 * (a - b)) \div 768 = a - b
    BY <1>3
  <2> QED
    BY <2>1, <2>2
<1> QED
  BY <1>5, <1>6, <1>7 DEF get_attestation_timeout, RPL_MIN_HOPRANKINC

\* Without a learnt rank the uint8_t wraps: 256 minus the relay's own hops.
LEMMA TimeoutWraps ==
    ASSUME RanksCountHops, NEW r \in Nodes, NEW s, s.max_leaf_rank = 0
    PROVE  get_attestation_timeout(r, s) = (256 - OwnHops(r)) % 256
<1> DEFINE b == Rank[r] \div 768
<1>1. Rank[r] \in Nat /\ Rank[r] % 768 = 256
  BY RankType DEF RanksCountHops, UInt16
<1>2. b \in Nat /\ Rank[r] = 768 * b + 256
  BY <1>1
<1> HIDE DEF b
<1>3. OwnHops(r) = b
  <2>1. Rank[r] - 256 = 768 * b /\ (768 * b) \div 768 = b
    BY <1>2
  <2> QED
    BY <2>1 DEF OwnHops
<1>4. Rank[r] \div 256 = 3 * b + 1
  BY <1>2
<1>5. CDiv((0 \div 256) - (Rank[r] \div 256), 3) = -b
  <2>1. (0 \div 256) - (Rank[r] \div 256) = -(3 * b + 1)
    BY <1>2, <1>4
  <2>2. CDiv(-(3 * b + 1), 3) = -((3 * b + 1) \div 3)
    <3>1. ~(-(3 * b + 1) >= 0) /\ -(-(3 * b + 1)) = 3 * b + 1
      BY <1>2
    <3> QED
      BY <3>1 DEF CDiv
  <2>3. (3 * b + 1) \div 3 = b
    BY <1>2
  <2> QED
    BY <2>1, <2>2, <2>3
<1>6. (-b) % 256 = (256 - b) % 256
  BY <1>2
<1> QED
  BY <1>3, <1>5, <1>6 DEF get_attestation_timeout, RPL_MIN_HOPRANKINC

\* Only a child's response starts the timer of a relay that waits for one.
LEMMA NextArmed ==
    ASSUME PathInv, PathsInv, SumsInv, Next, NEW r \in Relays
    PROVE  ArmedBy(r, relay[r], relay'[r])
<1>1. /\ relay \in [Relays -> RelayStates] /\ net \subseteq Datagrams /\ OutOK(net)
      /\ LeafOut(net)
  BY DEF PathInv, TypeOK, SumsInv
<1>2. \A q \in Relays : /\ RelayOK(relay[q]) /\ relay[q] \in RelayStates
                        /\ ChildrenBelow(q, relay[q]) /\ Learnt(q, relay[q])
  BY DEF PathInv, RelayOK, PathsInv, SumsInv
<1>3. ASSUME NEW q \in Relays, NEW s, relay' = [relay EXCEPT ![q] = s],
             ArmedBy(q, relay[q], s)
      PROVE  ArmedBy(r, relay[r], relay'[r])
  <2>1. relay'[r] = relay[r] \/ (q = r /\ relay'[r] = s)
    BY <1>1, <1>3
  <2> QED
    BY <1>3, <2>1 DEF ArmedBy
<1>4. ASSUME relay' = relay PROVE ArmedBy(r, relay[r], relay'[r])
  BY <1>4 DEF ArmedBy
<1>5. ASSUME NEW type \in Requests, VerifierRequest(type)
      PROVE  ArmedBy(r, relay[r], relay'[r])
  BY <1>4, <1>5 DEF VerifierRequest
<1>6. ASSUME NEW q \in Relays, Settle(q) PROVE ArmedBy(r, relay[r], relay'[r])
  <2>1. ArmedBy(q, relay[q], network_settled(q, relay[q]))
    BY <1>2, SettledStays, StaysArmed
  <2> QED
    BY <1>3, <1>6, <2>1 DEF Settle
<1>7. ASSUME NEW d \in net, DeliverRelay(d) PROVE ArmedBy(r, relay[r], relay'[r])
  <2>1. d.dst \in Relays /\ d \in Datagrams /\ OutOK({d}) /\ LeafOut({d})
    BY <1>1, <1>7 DEF DeliverRelay, OutOK, LeafOut
  <2>2. ArmedBy(d.dst, relay[d.dst], RelayReceive(d.dst, relay[d.dst], d).st)
    BY <1>2, <2>1, RelayReceiveSums
  <2> QED
    BY <1>3, <1>7, <2>1, <2>2 DEF DeliverRelay
<1>8. ASSUME NEW d \in net, DeliverClient(d) \/ DeliverRoot(d) \/ Lose(d)
      PROVE  ArmedBy(r, relay[r], relay'[r])
  BY <1>4, <1>8 DEF DeliverClient, DeliverRoot, Lose
<1>9. ASSUME NEW q \in Relays, PeriodicTimer(q) PROVE ArmedBy(r, relay[r], relay'[r])
  <2> DEFINE s == Disarmed(relay[q])
             topo == send_topology_resp(q, s).st
             att == send_attestation_resp(q, s)
  <2>1. s \in RelayStates /\ RelayOK(s) /\ Stays(relay[q], s)
    <3>1. /\ s \in RelayStates /\ s.paths = relay[q].paths /\ SameTable(relay[q], s)
      BY <1>2, DisarmKeeps
    <3>2. Stays(relay[q], s)
      BY <1>2 DEF Disarmed, RelayStates, Stays
    <3>3. RelayOK(s)
      BY <1>2, <3>1 DEF RelayOK, SameTable, SinkIsLeaf
    <3> QED
      BY <3>1, <3>2, <3>3
  <2>2. \/ relay' = [relay EXCEPT ![q] = topo]
        \/ relay' = [relay EXCEPT ![q] = att]
        \/ relay' = [relay EXCEPT ![q] = s]
    BY <1>9 DEF PeriodicTimer, Disarmed
  <2> HIDE DEF s
  <2>3. Stays(s, topo) /\ Stays(s, att)
    BY <2>1, SendTopologySums, SendAttestationSums
  <2> HIDE DEF topo, att
  <2>4. Stays(relay[q], topo) /\ Stays(relay[q], att)
    BY <2>1, <2>3, StaysTwice
  <2>5. /\ ArmedBy(q, relay[q], topo) /\ ArmedBy(q, relay[q], att)
        /\ ArmedBy(q, relay[q], s)
    BY <2>1, <2>4, StaysArmed
  <2> QED
    BY <1>3, <2>2, <2>5
<1>10. ASSUME NEW q \in Relays, PTimer(q) PROVE ArmedBy(r, relay[r], relay'[r])
  <2> DEFINE s == [relay[q] EXCEPT !.p_timer = FALSE]
  <2>1. Stays(relay[q], s)
    BY <1>2 DEF RelayStates, Stays
  <2>2. relay' = [relay EXCEPT ![q] = s]
    BY <1>10 DEF PTimer
  <2> HIDE DEF s
  <2> QED
    BY <1>3, <2>1, <2>2, StaysArmed
<1> QED
  BY <1>5, <1>6, <1>7, <1>8, <1>9, <1>10 DEF Next, Deliver

\* How long a relay waits after its first child's answer (udp-relay.c:269): with
\* OF0's ranks, in every swarm, for any mix of requests and any clock, FrameTicks
\* for each hop that some mote below it is away, or, if it has learnt no leaf's
\* rank, for each of the 256 minus its own hops that the uint8_t wraps to.
THEOREM TimeoutsCountHops == RanksCountHops /\ Spec => TimeoutCountsHops
<1> SUFFICES ASSUME RanksCountHops PROVE Spec => TimeoutCountsHops
  OBVIOUS
<1> DEFINE SetFor(r, hops) ==
             /\ HopsBelow(r, hops)
             /\ relay'[r].periodic_timer =
                  [armed |-> TRUE, f |-> "send_attestation_resp",
                   timeout |-> hops * FrameTicks]
           Counts == \A r \in Relays :
                        relay[r].first_child /\ ~relay'[r].first_child
                        => \E hops \in 0..255 : SetFor(r, hops)
<1>1. PathInv /\ PathsInv /\ SumsInv /\ [Next]_vars => [Counts]_vars
  <2> SUFFICES ASSUME PathInv, PathsInv, SumsInv, Next, NEW r \in Relays,
                      relay[r].first_child, ~relay'[r].first_child
               PROVE  \E hops \in 0..255 : SetFor(r, hops)
    OBVIOUS
  <2> DEFINE own == get_attestation_timeout(r, relay[r])
  <2>1. r \in Nodes /\ relay[r] \in RelayStates
    BY DEF Nodes, PathInv, RelayOK
  <2>2. own \in 0..255
    BY <2>1, TimeoutType
  <2>3. relay'[r].periodic_timer = [armed |-> TRUE, f |-> "send_attestation_resp",
                                    timeout |-> own * FrameTicks]
    BY NextArmed DEF ArmedBy
  <2>4. HopsBelow(r, own)
    <3>1. CASE relay[r].max_leaf_rank = 0
      BY <2>1, <3>1, TimeoutWraps DEF HopsBelow
    <3>2. CASE relay[r].max_leaf_rank > 0
      <4>1. PICK n \in Nodes : Rank[n] > Rank[r] /\ relay[r].max_leaf_rank = Rank[n]
        BY <3>2 DEF SumsInv, Learnt, LeafRanks, Farther
      <4>2. own = (Rank[n] - Rank[r]) \div 768
        BY <2>1, <4>1, TimeoutHops
      <4> HIDE DEF own
      <4> QED
        BY <3>2, <4>1, <4>2 DEF HopsBelow
    <3>3. relay[r].max_leaf_rank = 0 \/ relay[r].max_leaf_rank > 0
      BY <2>1 DEF RelayStates, UInt16
    <3> QED
      BY <3>1, <3>2, <3>3
  <2> HIDE DEF own
  <2>5. SetFor(r, own)
    BY <2>3, <2>4
  <2> HIDE DEF SetFor
  <2> QED
    BY <2>2, <2>5
<1>2. [Counts]_vars <=> [\A r \in Relays :
          relay[r].first_child /\ ~relay'[r].first_child
          => \E hops \in 0..255 :
                /\ HopsBelow(r, hops)
                /\ relay'[r].periodic_timer =
                     [armed |-> TRUE, f |-> "send_attestation_resp",
                      timeout |-> hops * FrameTicks]]_vars
  OBVIOUS
<1> QED
  BY <1>1, <1>2, SumsInvariant, PathInvariant, PathsInvariant, PTL DEF Spec, TimeoutCountsHops

-----------------------------------------------------------------------------
(* One request, one layer of settled relays. *)

LEMMA PathIdsAppend ==
    ASSUME NEW q \in Seq(Ids), NEW n \in Ids
    PROVE  PathIds(Append(q, n)) = PathIds(q) \cup {n}
<1> DEFINE p == Append(q, n)
<1>1. /\ Len(q) \in Nat /\ Len(p) = Len(q) + 1 /\ p[Len(q) + 1] = n
      /\ \A i \in 1..Len(q) : p[i] = q[i]
  OBVIOUS
<1> HIDE DEF p
<1>2. 1..Len(p) = (1..Len(q)) \cup {Len(q) + 1}
  BY <1>1
<1>3. PathIds(p) = PathIds(q) \cup {n}
  BY <1>1, <1>2 DEF PathIds
<1> QED
  BY <1>3 DEF p

LEMMA PathIdsFew == PathIds(<<>>) = {} /\ \A n : PathIds(<<n>>) = {n}
<1>1. PathIds(<<>>) = {}
  BY DEF PathIds
<1>2. ASSUME NEW n PROVE PathIds(<<n>>) = {n}
  <2>1. Len(<<n>>) = 1 /\ <<n>>[1] = n /\ 1..1 = {1}
    OBVIOUS
  <2> QED
    BY <2>1 DEF PathIds
<1> QED
  BY <1>1, <1>2

\* A packet with one new id: it is appended, and the path goes out if that
\* fills it.
LEMMA CopyOne ==
    ASSUME NEW r \in Relays, NEW s, RelayOK(s), NEW c \in Ids, c \notin PathIds(s.paths)
    PROVE  LET in == [s EXCEPT !.paths = Append(s.paths, c)]
               fl == flush(r, in)
               cp == copy_paths(r, s, <<c>>)
           IN  \/ cp = [st |-> in, out |-> {}] /\ Len(Append(s.paths, c)) < PathRoom
               \/ cp = [st |-> [fl.st EXCEPT !.paths = <<>>], out |-> fl.out]
<1> DEFINE p == <<c>>
           n == Len(s.paths) + 1
           below == {j \in 1..Len(p) : SlotsAfter(s, p, j) < PathRoom}
<1>1. /\ s \in RelayStates /\ s.paths \in Seq(Ids) /\ PathRoom \in Nat
      /\ Len(s.paths) < PathRoom
  <2>1. s \in RelayStates /\ Len(s.paths) < PathRoom
    BY DEF RelayOK
  <2>2. s.paths \in Seq(Ids)
    BY <2>1 DEF RelayStates, Ids
  <2>3. PathRoom \in Nat
    BY SizesAssumption DEF PathRoom
  <2> QED
    BY <2>1, <2>2, <2>3
<1>2. Len(s.paths) \in Nat /\ n \in Nat /\ n <= PathRoom
  BY <1>1
<1>3. p \in Seq(Ids) /\ Len(p) = 1 /\ p[1] = c /\ 1..Len(p) = {1}
  OBVIOUS
<1>4. ~is_present_paths(s, c)
  BY DEF is_present_paths, PathIds
<1>5. SlotsAfter(s, p, 1) = n
  <2>1. SlotsAfter(s, p, 0 + 1) =
           IF is_present_paths(s, p[0 + 1]) THEN SlotsAfter(s, p, 0)
                                            ELSE SlotsAfter(s, p, 0) + 1
    BY <1>1, SlotsStep
  <2>2. SlotsAfter(s, p, 0) = Len(s.paths)
    BY <1>1, SlotsBefore
  <2> HIDE DEF p
  <2> QED
    BY <1>3, <1>4, <2>1, <2>2
<1> HIDE DEF p
<1>6. Copied(s, p, n) = Append(s.paths, c)
  <2> DEFINE q == Copied(s, p, n)
  <2>1. q \in Seq(Ids) /\ Len(q) = n
    BY <1>1, <1>2, <1>3, CopiedType DEF Ids
  <2>5. Len(s.paths) <= n /\ n <= SlotsAfter(s, p, Len(p))
    BY <1>2, <1>3, <1>5
  <2>2. ASSUME NEW k \in 1..n
        PROVE  /\ k <= Len(s.paths) => q[k] = s.paths[k]
               /\ ~(k <= Len(s.paths)) => q[k] = c
    <3>0. s \in RelayStates /\ p \in Seq(Ids) /\ n \in Nat
      BY <1>1, <1>2, <1>3
    <3> HIDE DEF n
    <3>1. /\ k <= Len(s.paths) => q[k] = s.paths[k]
          /\ ~(k <= Len(s.paths)) =>
               \E j \in 1..Len(p) : /\ ~is_present_paths(s, p[j])
                                    /\ SlotsAfter(s, p, j) = k
                                    /\ q[k] = p[j]
      BY <2>5, <3>0, CopiedCell
    <3> QED
      BY <1>3, <3>1
  <2> HIDE DEF q
  <2>3. \A k \in 1..n : q[k] = Append(s.paths, c)[k]
    BY <1>1, <1>2, <2>2
  <2>4. q = Append(s.paths, c)
    BY <1>1, <1>2, <2>1, <2>3
  <2> QED
    BY <2>4 DEF q
<1>7. CASE n < PathRoom
  <2>1. SlotsAfter(s, p, Len(p)) = n /\ SlotsAfter(s, p, Len(p)) < PathRoom
    BY <1>3, <1>5, <1>7
  <2>2. copy_paths(r, s, p) = [st |-> [s EXCEPT !.paths = Copied(s, p, n)], out |-> {}]
    <3>1. ~(n >= PathRoom)
      BY <1>1, <1>2, <1>7
    <3> QED
      BY <1>7, <2>1, <3>1 DEF copy_paths
  <2>3. Len(Append(s.paths, c)) < PathRoom
    BY <1>1, <1>7
  <2> QED
    BY <1>6, <2>2, <2>3 DEF p
<1>8. CASE ~(n < PathRoom)
  <2>1. n = PathRoom /\ SlotsAfter(s, p, Len(p)) = n
    BY <1>1, <1>2, <1>3, <1>5, <1>8
  <2>2. below = {}
    BY <1>3, <1>5, <1>8
  <2> DEFINE at == 1 + Cardinality(below)
             rest == SubSeq(p, at + 1, Len(p))
             q == Copied(s, p, PathRoom)
             fl1 == flush(r, [s EXCEPT !.paths = q])
             in2 == [fl1.st EXCEPT !.paths = rest]
             fl2 == flush(r, in2)
  <2>3. at = 1
    <3>1. Cardinality({}) = 0
      BY FS_EmptySet
    <3> HIDE DEF below
    <3> QED
      BY <2>2, <3>1
  <2>4. rest = <<>>
    <3> HIDE DEF at
    <3>1. Len(p) = 1 /\ p \in Seq(Ids)
      BY <1>3
    <3>2. SubSeq(p, 1 + 1, 1) = <<>>
      BY <3>1
    <3> QED
      BY <2>3, <3>1, <3>2
  <2>5. copy_paths(r, s, p) =
           CASE n < PathRoom -> [st |-> [s EXCEPT !.paths = Copied(s, p, n)], out |-> {}]
             [] n >= PathRoom /\ Len(rest) < PathRoom -> [st |-> in2, out |-> fl1.out]
             [] n >= PathRoom /\ Len(rest) >= PathRoom ->
                  [st |-> fl2.st, out |-> fl1.out \cup fl2.out]
    BY <2>1 DEF copy_paths
  <2>6. Len(rest) < PathRoom /\ ~(Len(rest) >= PathRoom) /\ n >= PathRoom
    <3>1. Len(<<>>) = 0
      OBVIOUS
    <3>2. Len(rest) = 0
      BY <2>4, <3>1
    <3> HIDE DEF rest
    <3> QED
      BY <1>1, <1>2, <2>1, <3>2
  <2>7. copy_paths(r, s, p) = [st |-> in2, out |-> fl1.out]
    <3> HIDE DEF in2, fl1, fl2, rest, below
    <3> QED
      BY <1>8, <2>5, <2>6
  <2>8. q = Append(s.paths, c)
    BY <1>6, <2>1
  <2> QED
    BY <2>4, <2>7, <2>8 DEF p
<1> QED
  BY <1>7, <1>8

\* What relay s has added up is what its path names: clients, each once.
Matched(s) ==
    /\ XorAll(s.checksum_children) = XorOf(PathIds(s.paths))
    /\ PathIds(s.paths) \subseteq Clients

\* Responses to the border router whose checksum is that of their path.
ToRoot(out) ==
    \A d \in out : /\ d.port = PARENT_UDP_CHECKSUM_PORT /\ d.dst = Root
                   /\ d.pkt.checksum = XorOf(PathIds(d.pkt.path))

LEMMA EmptyMatched ==
    ASSUME NEW s, s.checksum_children = <<>>, s.paths = <<>>
    PROVE  Matched(s)
<1>1. PathIds(<<>>) = {}
  BY PathIdsFew
<1> QED
  BY <1>1, XorAllNone, XorOfNone DEF Matched

\* With one layer, a relay's parents, and a leaf relay's neighbours, are the
\* border router.
LEMMA SentToRoot ==
    ASSUME OneLayer, NEW r \in Relays, NEW s, NEW pkt, NEW is_client,
           is_client => \A m \in Nbr[r] : ~(Rank[m] > Rank[r]),
           pkt.checksum = XorOf(PathIds(pkt.path))
    PROVE  ToRoot(send_to_parents(r, s, pkt, is_client))
<1> DEFINE out == send_to_parents(r, s, pkt, is_client)
<1> SUFFICES ASSUME NEW d \in out
             PROVE  /\ d.port = PARENT_UDP_CHECKSUM_PORT /\ d.dst = Root
                    /\ d.pkt.checksum = XorOf(PathIds(d.pkt.path))
  BY DEF ToRoot
<1>1. PICK p \in Nbr[r] : /\ is_client \/ Rank[p] < Rank[r]
                          /\ d = Datagram(r, p, PARENT_UDP_CHECKSUM_PORT, pkt)
  BY DEF send_to_parents, rpl_neighbor_is_parent
<1>2. d.port = PARENT_UDP_CHECKSUM_PORT /\ d.dst = p /\ d.pkt = pkt
  BY <1>1 DEF Datagram
<1>3. p = Root
  <2> SUFFICES ASSUME p # Root PROVE FALSE
    OBVIOUS
  <2>1. r \in Relays \cup Clients /\ r \notin Clients
    BY NodesAssumption
  <2>2. Rank[r] < Rank[p] /\ p \in Nodes /\ r \in Nodes
    BY <1>1, <2>1, NbrType DEF OneLayer, Nodes
  <2>3. Rank[r] \in Nat /\ Rank[p] \in Nat
    BY <2>2, RankType DEF UInt16
  <2> QED
    BY <1>1, <2>2, <2>3
<1> QED
  BY <1>2, <1>3

LEMMA SendTopologyMatch ==
    ASSUME OneLayer, NEW r \in Relays, NEW s \in RelayStates, Len(s.paths) <= PathRoom,
           Matched(s)
    PROVE  LET t == send_topology_resp(r, s)
           IN  /\ ToRoot(t.out) /\ Matched(t.st)
               /\ t.st.paths = <<>> /\ t.st.checksum_children = <<>>
<1> DEFINE path == Append(s.paths, r)
           sum == get_combined_checksum(r, s)
           resp == TopologyResp(path, Len(s.paths) + 1, s.max_leaf_rank, sum)
           t == send_topology_resp(r, s)
<1>1. /\ s.paths \in Seq(Ids) /\ PathRoom = MAX_PATH_NODES - 2 /\ PathRoom \in Nat
      /\ MAX_PATH_NODES \in Nat /\ r \in Ids /\ r \in Nodes
  <2>1. s.paths \in Seq(Ids)
    BY DEF RelayStates, Ids
  <2>2. r \in Ids /\ r \in Nodes
    BY DEF Ids, Nodes
  <2>3. PathRoom = MAX_PATH_NODES - 2 /\ PathRoom \in Nat /\ MAX_PATH_NODES \in Nat
    BY SizesAssumption DEF PathRoom
  <2> QED
    BY <2>1, <2>2, <2>3
<1>2. ~(Len(s.paths) >= MAX_PATH_NODES - 1)
  BY <1>1
<1>3. t.out = send_to_parents(r, s, resp, FALSE)
  BY <1>2 DEF send_topology_resp
<1>4. PathIds(path) = PathIds(s.paths) \cup {r}
  BY <1>1, PathIdsAppend
<1>5. sum = XorOf(PathIds(s.paths) \cup {r})
  <2>1. r \notin PathIds(s.paths) /\ PathIds(s.paths) \in SUBSET Nodes
    BY NodesAssumption DEF Matched, Nodes
  <2> QED
    BY <1>1, <2>1, XorOfAdd DEF Matched, get_combined_checksum
<1>6. resp.checksum = sum /\ resp.path = path
  BY DEF TopologyResp
<1> HIDE DEF path, sum, resp
<1>7. resp.checksum = XorOf(PathIds(resp.path))
  BY <1>4, <1>5, <1>6
<1>8. ToRoot(t.out)
  BY <1>3, <1>7, SentToRoot
<1>9. t.st.paths = <<>> /\ t.st.checksum_children = <<>>
  BY SendTopologyType, SendTopologyKeeps
<1> HIDE DEF t
<1>10. Matched(t.st)
  BY <1>9, EmptyMatched
<1> QED
  BY <1>8, <1>9, <1>10 DEF t

LEMMA FlushMatch ==
    ASSUME OneLayer, NEW r \in Relays, NEW s \in RelayStates, Len(s.paths) <= PathRoom,
           Matched(s)
    PROVE  LET t == flush(r, s)
           IN  /\ ToRoot(t.out)
               /\ t.st \in RelayStates /\ t.st.checksum_children = <<>>
<1> DEFINE t == send_topology_resp(r, s)
<1>1. flush(r, s).out = t.out
  BY DEF flush
<1>2. ToRoot(t.out)
  BY SendTopologyMatch
<1>3. flush(r, s).st \in RelayStates
  BY FlushType
<1>4. flush(r, s).st.checksum_children = <<>>
  BY FlushKeeps
<1> QED
  BY <1>1, <1>2, <1>3, <1>4

\* The response of client c.
Answer(c) == TopologyResp(<<c>>, 1, Rank[c], attest_memory(c))

LEMMA AnswerMatches ==
    ASSUME NEW n \in Nodes
    PROVE  /\ \A mpkt : mpkt.pkt_type = TOPOLOGY => create_response(n, mpkt) = Answer(n)
           /\ Answer(n).path = <<n>> /\ Answer(n).checksum = attest_memory(n)
           /\ Answer(n).checksum = XorOf(PathIds(Answer(n).path))
<1>1. \A mpkt : mpkt.pkt_type = TOPOLOGY => create_response(n, mpkt) = Answer(n)
  BY DEF create_response, Answer
<1>2. Answer(n).path = <<n>> /\ Answer(n).checksum = attest_memory(n)
  BY DEF Answer, TopologyResp
<1>3. XorOf(PathIds(<<n>>)) = attest_memory(n)
  BY PathIdsFew, XorOfOne
<1> QED
  BY <1>1, <1>2, <1>3

\* The copy loop with the response of a client that is not held yet, whose
\* checksum has been stored: ws are the checksums before.
LEMMA CopyMatch ==
    ASSUME OneLayer, NEW r \in Relays, NEW s, RelayOK(s), NEW c \in Clients,
           c \notin PathIds(s.paths), PathIds(s.paths) \subseteq Clients,
           XorAll(s.checksum_children) = XorOf(PathIds(s.paths) \cup {c})
    PROVE  LET cp == copy_paths(r, s, <<c>>)
           IN  /\ ToRoot(cp.out) /\ Matched(cp.st)
               /\ PathIds(cp.st.paths) \subseteq PathIds(s.paths) \cup {c}
<1> DEFINE q == Append(s.paths, c)
           in == [s EXCEPT !.paths = q]
           fl == flush(r, in)
           cp == copy_paths(r, s, <<c>>)
<1>1. s \in RelayStates /\ c \in Ids /\ s.paths \in Seq(Ids)
  BY DEF RelayOK, RelayStates, Ids, Nodes
<1>2. q \in Seq(Nodes \cup {0}) /\ Len(q) <= PathRoom
  <2>1. q \in Seq(Ids) /\ Len(q) = Len(s.paths) + 1 /\ Len(s.paths) \in Nat
    BY <1>1
  <2>2. Len(s.paths) < PathRoom
    BY DEF RelayOK
  <2>3. PathRoom \in Nat
    BY SizesAssumption DEF PathRoom
  <2> HIDE DEF q
  <2> QED
    BY <2>1, <2>2, <2>3 DEF Ids
<1>3. PathIds(q) = PathIds(s.paths) \cup {c}
  BY <1>1, PathIdsAppend
<1> HIDE DEF q
<1>4. /\ in \in RelayStates /\ in.paths = q
      /\ in.checksum_children = s.checksum_children
  BY <1>1, <1>2, SetPathsType, SetPathsKeeps
<1>5. \/ cp = [st |-> in, out |-> {}]
      \/ cp = [st |-> [fl.st EXCEPT !.paths = <<>>], out |-> fl.out]
  BY <1>1, CopyOne DEF q
<1> HIDE DEF in, cp
<1>6. Matched(in)
  BY <1>3, <1>4 DEF Matched
<1>7. ToRoot(fl.out) /\ fl.st \in RelayStates /\ fl.st.checksum_children = <<>>
  BY <1>2, <1>4, <1>6, FlushMatch
<1> HIDE DEF fl
<1>8. CASE cp = [st |-> in, out |-> {}]
  <2>1. cp.st = in /\ cp.out = {}
    BY <1>8
  <2> QED
    BY <1>3, <1>4, <1>6, <2>1 DEF cp, ToRoot
<1>9. CASE cp = [st |-> [fl.st EXCEPT !.paths = <<>>], out |-> fl.out]
  <2>1. cp.st.paths = <<>> /\ cp.st.checksum_children = <<>> /\ cp.out = fl.out
    BY <1>7, <1>9 DEF RelayStates
  <2>2. Matched(cp.st) /\ PathIds(cp.st.paths) = {}
    BY <2>1, EmptyMatched, PathIdsFew
  <2> QED
    BY <1>7, <2>1, <2>2 DEF cp
<1> QED
  BY <1>5, <1>8, <1>9

\* Storing the checksum of a client that is not held yet.
LEMMA StoreMatch ==
    ASSUME NEW s \in RelayStates, NEW c \in Clients, c \notin PathIds(s.paths), Matched(s),
           Len(s.checksum_children) < MAX_CHILD
    PROVE  XorAll(store_checksum(s, attest_memory(c)).checksum_children)
              = XorOf(PathIds(s.paths) \cup {c})
<1>1. store_checksum(s, attest_memory(c)).checksum_children
         = Append(s.checksum_children, attest_memory(c))
  BY StoreKeeps
<1>2. XorAll(Append(s.checksum_children, attest_memory(c)))
         = Xor(XorAll(s.checksum_children), attest_memory(c))
  <2>1. s.checksum_children \in Seq(SUBSET Word) /\ attest_memory(c) \in SUBSET Word
    BY ChecksumType DEF RelayStates
  <2> QED
    BY <2>1, XorAllAppend
<1>3. XorOf(PathIds(s.paths) \cup {c}) = Xor(XorOf(PathIds(s.paths)), attest_memory(c))
  <2>1. PathIds(s.paths) \in SUBSET Nodes /\ c \in Nodes
    BY DEF Matched, Nodes
  <2> QED
    BY <2>1, XorOfAdd
<1> QED
  BY <1>1, <1>2, <1>3 DEF Matched

LEMMA ProcessTopologyMatch ==
    ASSUME OneLayer, NEW r \in Relays, NEW s, RelayOK(s), HoldOK(s), ~s.fault, Matched(s),
           NEW c \in Clients, c \notin PathIds(s.paths)
    PROVE  LET t == process_topology_req(r, s, Answer(c), c)
           IN  /\ ToRoot(t.out) /\ Matched(t.st)
               /\ PathIds(t.st.paths) \subseteq PathIds(s.paths) \cup {c}
<1> DEFINE resp == Answer(c)
           s0 == ctimer_reset(s)
           s1 == child_set_pkt_received(s0, c)
           s2 == store_checksum(s1, resp.checksum)
           cp == copy_paths(r, s2, resp.path)
           mx == IF cp.st.max_leaf_rank < resp.max_leaf_rank
                 THEN resp.max_leaf_rank ELSE cp.st.max_leaf_rank
           s3 == [cp.st EXCEPT !.max_leaf_rank = mx]
           fw == send_topology_resp(r, s3)
           s4 == ctimer_set(s3, get_topology_timeout(r) * CLOCK_SECOND, "send_topology_resp")
           t  == process_topology_req(r, s, resp, c)
           given == PathIds(s.paths) \cup {c}
           Ok(x) == ToRoot(x.out) /\ Matched(x.st) /\ PathIds(x.st.paths) \subseteq given
<1>1. s \in RelayStates /\ c \in Nodes /\ c \in Ids
  BY DEF RelayOK, Nodes, Ids
<1>2. /\ resp.path = <<c>> /\ resp.checksum = attest_memory(c)
      /\ resp.max_leaf_rank \in UInt16
  BY <1>1, AnswerMatches, RankType DEF Answer, TopologyResp
<1>3. CASE ~is_child(s, c)
  <2>1. t = [st |-> s, out |-> {}]
    BY <1>3 DEF process_topology_req
  <2> HIDE DEF t, resp
  <2>2. t.st = s /\ t.out = {}
    BY <2>1
  <2> QED
    BY <2>2 DEF ToRoot, t, resp
<1>4. CASE is_child(s, c)
  <2>1. Len(s.checksum_children) < MAX_CHILD
    <3>1. get_child_count(s) \in Nat /\ get_child_count(s) >= 1
      BY <1>1, <1>4, ChildCount
    <3>2. MAX_CHILD \in Nat /\ MAX_CHILD >= 1
      BY SizesAssumption
    <3>3. s.checksum_children \in Seq(SUBSET Word)
      BY <1>1 DEF RelayStates
    <3>4. Len(s.checksum_children) \in Nat
      BY <3>3
    <3>5. s.checksum_children = <<>> => Len(s.checksum_children) = 0
      OBVIOUS
    <3>6. /\ get_child_count(s) <= MAX_CHILD
          /\ s.checksum_children = <<>> \/ Len(s.checksum_children) < get_child_count(s)
      BY DEF HoldOK
    <3> QED
      BY <3>1, <3>2, <3>4, <3>5, <3>6
  <2>2. /\ s0 \in RelayStates /\ s0.paths = s.paths /\ SameTable(s, s0)
        /\ s0.checksum_children = s.checksum_children /\ s0.fault = s.fault
    BY <1>1, SmallStepsType, RearmKeeps
  <2> HIDE DEF s0
  <2>3. /\ s1 \in RelayStates /\ s1.paths = s0.paths /\ SameTable(s0, s1)
        /\ s1.checksum_children = s0.checksum_children /\ s1.fault = s0.fault
    BY <2>2, SmallStepsType, MarkKeeps
  <2> HIDE DEF s1
  <2>4. Matched(s1) /\ c \notin PathIds(s1.paths) /\ Len(s1.checksum_children) < MAX_CHILD
    BY <2>1, <2>2, <2>3 DEF Matched
  <2>5. XorAll(s2.checksum_children) = XorOf(PathIds(s1.paths) \cup {c})
    BY <1>2, <2>3, <2>4, StoreMatch
  <2>6. /\ s2 \in RelayStates /\ s2.paths = s1.paths /\ SameTable(s1, s2)
        /\ s2.fault = s1.fault
    <3>1. resp.checksum \in SUBSET Word
      BY <1>2, ChecksumType
    <3> HIDE DEF resp
    <3>2. /\ s2 \in RelayStates /\ s2.paths = s1.paths /\ SameTable(s1, s2)
      BY <2>3, <3>1, SmallStepsType
    <3>3. s2.fault = s1.fault
      BY <2>3, <2>4, StoreKeeps
    <3> QED
      BY <3>2, <3>3
  <2> HIDE DEF s2
  <2>7. RelayOK(s2)
    BY <2>2, <2>3, <2>6 DEF RelayOK, SameTable, SinkIsLeaf
  <2>8. /\ ToRoot(cp.out) /\ Matched(cp.st) /\ PathIds(cp.st.paths) \subseteq given
    BY <1>2, <2>2, <2>3, <2>4, <2>5, <2>6, <2>7, CopyMatch DEF Matched
  <2>9. RelayOK(cp.st)
    <3>1. <<c>> \in Seq(Nodes \cup {0}) /\ Len(<<c>>) = 1
      BY <1>1
    <3>2. PathRoom \in Nat
      BY SizesAssumption DEF PathRoom
    <3>3. resp.path \in Seq(Nodes \cup {0}) /\ Len(resp.path) <= PathRoom + 1
      <4> HIDE DEF resp
      <4> QED
        BY <1>2, <3>1, <3>2
    <3> HIDE DEF resp
    <3> QED
      BY <2>7, <3>3, CopyPathsType DEF cp
  <2> HIDE DEF cp
  <2>10. mx \in UInt16 /\ cp.st \in RelayStates
    BY <1>2, <2>9 DEF RelayOK, RelayStates
  <2> HIDE DEF mx
  <2>11. /\ s3 \in RelayStates /\ s3.paths = cp.st.paths
         /\ s3.checksum_children = cp.st.checksum_children
    BY <2>10 DEF RelayStates
  <2>12. Matched(s3) /\ Len(s3.paths) <= PathRoom
    <3>1. PathRoom \in Nat
      BY SizesAssumption DEF PathRoom
    <3>2. s3.paths \in Seq(Nodes \cup {0}) /\ Len(s3.paths) < PathRoom
      BY <2>9, <2>11 DEF RelayOK, RelayStates
    <3>3. Len(s3.paths) <= PathRoom
      BY <3>1, <3>2
    <3> QED
      BY <2>8, <2>11, <3>3 DEF Matched
  <2> HIDE DEF s3
  <2>13. ToRoot(fw.out) /\ Matched(fw.st) /\ fw.st.paths = <<>>
    BY <2>11, <2>12, SendTopologyMatch
  <2> HIDE DEF fw
  <2>14. s4.paths = s3.paths /\ s4.checksum_children = s3.checksum_children
    BY <2>11 DEF ctimer_set, RelayStates
  <2> HIDE DEF s4
  <2>15. Matched(s4) /\ PathIds(s4.paths) \subseteq given
    BY <2>8, <2>11, <2>12, <2>14 DEF Matched
  <2>16. ~s2.fault
    BY <2>2, <2>3, <2>6
  <2>17. \/ t = [st |-> fw.st, out |-> cp.out \cup fw.out]
         \/ t = [st |-> s4, out |-> cp.out]
    BY <1>4, <2>16 DEF process_topology_req, s0, s1, s2, cp, mx, s3, fw, s4
  <2> HIDE DEF t, resp, given
  <2>18. \/ t.st = fw.st /\ t.out = cp.out \cup fw.out
         \/ t.st = s4 /\ t.out = cp.out
    BY <2>17
  <2>19. ToRoot(cp.out \cup fw.out) /\ PathIds(fw.st.paths) \subseteq given
    BY <2>8, <2>13, PathIdsFew DEF ToRoot
  <2> QED
    BY <2>8, <2>13, <2>15, <2>18, <2>19 DEF t, resp, given
<1> QED
  BY <1>3, <1>4

\* The table of a relay that settled, unless it ran out of memory for it.
TableOf(r, s) ==
    /\ s.settled
    /\ ~s.fault => s.child_list = {p \in Nbr[r] : Rank[p] > Rank[r]}

\* Requests of the one round, clients' responses to relays, and responses to
\* the border router whose checksum is that of their path.
OnceOut(out) ==
    \A d \in out :
        /\ d.port = MCAST_SINK_UDP_PORT =>
             d = Datagram(Root, d.dst, MCAST_SINK_UDP_PORT, Request(TOPOLOGY))
        /\ d.port = PARENT_UDP_CHECKSUM_PORT =>
             /\ d.pkt.checksum = XorOf(PathIds(d.pkt.path))
             /\ \/ d.dst = Root
                \/ /\ d.dst \in Relays /\ d.src \in Clients
                   /\ d = Datagram(d.src, d.dst, PARENT_UDP_CHECKSUM_PORT, Answer(d.src))

\* A leaf relay answers the border router, which is all it has in range.
LEMMA McastHandlerOnce ==
    ASSUME OneLayer, NEW r \in Relays, NEW s \in RelayStates, TableOf(r, s), ~s.fault,
           is_leaf(s), NEW pkt, pkt.pkt_type = TOPOLOGY
    PROVE  LET t == mcast_tcpip_handler(r, s, pkt)
           IN  /\ ToRoot(t.out) /\ SameResp(s, t.st)
               /\ t.st.paths = s.paths /\ t.st.checksum_children = s.checksum_children
<1> DEFINE t == mcast_tcpip_handler(r, s, pkt)
           resp == create_response(r, pkt)
<1>1. t.st = udp_new_bind(s) /\ t.out = send_to_parents(r, s, resp, TRUE)
  BY DEF mcast_tcpip_handler, get_parent_conn
<1>2. r \in Nodes
  BY DEF Nodes
<1>3. resp.checksum = XorOf(PathIds(resp.path))
  BY <1>2, AnswerMatches
<1>4. \A m \in Nbr[r] : ~(Rank[m] > Rank[r])
  <2>1. IsFiniteSet(s.child_list)
    BY NodesFinite, FS_Subset DEF RelayStates
  <2>2. s.child_list = {}
    BY <2>1, FS_EmptySet DEF is_leaf, get_child_count
  <2> QED
    BY <2>2 DEF TableOf
<1> HIDE DEF t, resp
<1>5. ToRoot(t.out)
  BY <1>1, <1>3, <1>4, SentToRoot
<1>6. /\ SameTimers(s, t.st) /\ t.st.checksum_children = s.checksum_children
      /\ t.st.paths = s.paths
  BY <1>1, BindKeeps, BindType
<1> QED
  BY <1>5, <1>6 DEF t, SameTimers

LEMMA RelayReceiveOnce ==
    ASSUME OneLayer, NEW r \in Relays, NEW s, RelayOK(s), HoldOK(s), ~s.fault,
           TableOf(r, s), Matched(s), NEW d \in Datagrams, TopologyOnly({d}), OnceOut({d}),
           d.dst = r, d.port = PARENT_UDP_CHECKSUM_PORT => d.src \notin PathIds(s.paths)
    PROVE  LET t == RelayReceive(r, s, d)
           IN  /\ ToRoot(t.out) /\ Matched(t.st) /\ TableOf(r, t.st)
               /\ \/ PathIds(t.st.paths) \subseteq PathIds(s.paths)
                  \/ /\ d.port = PARENT_UDP_CHECKSUM_PORT
                     /\ PathIds(t.st.paths) \subseteq PathIds(s.paths) \cup {d.src}
<1> DEFINE t == RelayReceive(r, s, d)
           m == mcast_tcpip_handler(r, s, d.pkt)
           Ok(x) == /\ ToRoot(x.out) /\ Matched(x.st) /\ TableOf(r, x.st)
                    /\ \/ PathIds(x.st.paths) \subseteq PathIds(s.paths)
                       \/ /\ d.port = PARENT_UDP_CHECKSUM_PORT
                          /\ PathIds(x.st.paths) \subseteq PathIds(s.paths) \cup {d.src}
<1>1. /\ d.port = MCAST_SINK_UDP_PORT \/ d.port = PARENT_UDP_CHECKSUM_PORT
      /\ s \in RelayStates /\ r # Root
  <2>1. d.port \in {MCAST_SINK_UDP_PORT, PARENT_UDP_CHECKSUM_PORT, CHECKSUM_PORT}
    BY DEF Datagrams
  <2>2. r # Root
    BY NodesAssumption
  <2> QED
    BY <2>1, <2>2 DEF TopologyOnly, RelayOK
<1>2. d.pkt.pkt_type = TOPOLOGY
  BY <1>1 DEF TopologyOnly, Datagrams, TopologyPackets, MCAST_SINK_UDP_PORT,
              PARENT_UDP_CHECKSUM_PORT, CHECKSUM_PORT
<1>3. ASSUME is_leaf(s) PROVE Ok(m)
  <2>1. /\ ToRoot(m.out) /\ SameResp(s, m.st)
        /\ m.st.paths = s.paths /\ m.st.checksum_children = s.checksum_children
    BY <1>1, <1>2, <1>3, McastHandlerOnce
  <2> HIDE DEF m
  <2>2. Matched(m.st) /\ TableOf(r, m.st)
    BY <2>1 DEF Matched, TableOf, SameResp
  <2> QED
    BY <2>1, <2>2
<1>4. CASE d.port = MCAST_SINK_UDP_PORT
  <2>1. CASE ~s.sink
    <3>1. t = [st |-> s, out |-> {}]
      BY <1>4, <2>1 DEF RelayReceive, CHECKSUM_PORT, MCAST_SINK_UDP_PORT
    <3> HIDE DEF t
    <3>2. t.st = s /\ t.out = {}
      BY <3>1
    <3>3. ToRoot(t.out)
      BY <3>2 DEF ToRoot
    <3> QED
      BY <3>2, <3>3 DEF t
  <2>2. CASE s.sink
    <3>1. is_leaf(s)
      BY <2>2, FS_EmptySet DEF RelayOK, SinkIsLeaf, is_leaf, get_child_count
    <3>2. t = m
      BY <1>4, <2>2, <3>1 DEF RelayReceive, CHECKSUM_PORT, MCAST_SINK_UDP_PORT
    <3> HIDE DEF t, m
    <3> QED
      BY <1>3, <3>1, <3>2 DEF t
  <2> QED
    BY <2>1, <2>2
<1>5. CASE d.port = PARENT_UDP_CHECKSUM_PORT
  <2> DEFINE c == d.src
             u == process_topology_req(r, s, Answer(c), c)
  <2>1. c \in Clients /\ d = Datagram(c, d.dst, PARENT_UDP_CHECKSUM_PORT, Answer(c))
    BY <1>1, <1>5 DEF OnceOut
  <2>2. d.pkt = Answer(c)
    BY <2>1 DEF Datagram
  <2>3. \/ is_leaf(s) /\ t = m
        \/ t = tcpip_handler(r, s, d.pkt, c)
    BY <1>5 DEF RelayReceive, CHECKSUM_PORT, MCAST_SINK_UDP_PORT, PARENT_UDP_CHECKSUM_PORT
  <2>4. tcpip_handler(r, s, d.pkt, c) = u
    BY <1>2, <2>2 DEF tcpip_handler, TOPOLOGY, ATTESTATION
  <2>5. /\ ToRoot(u.out) /\ Matched(u.st)
        /\ PathIds(u.st.paths) \subseteq PathIds(s.paths) \cup {c}
    BY <1>5, <2>1, ProcessTopologyMatch
  <2>6. SameResp(s, u.st)
    <3>1. /\ d.pkt \in TopologyPackets
      BY <1>5 DEF Datagrams, MCAST_SINK_UDP_PORT, PARENT_UDP_CHECKSUM_PORT, CHECKSUM_PORT
    <3>2. Answer(c) \in TopologyPackets /\ Len(Answer(c).path) = 1
      BY <2>2, <3>1 DEF Answer, TopologyResp
    <3>3. PathRoom \in Nat
      BY SizesAssumption DEF PathRoom
    <3>4. Len(Answer(c).path) <= PathRoom + 1
      BY <3>2, <3>3
    <3> QED
      BY <3>2, <3>4, ProcessTopologyKeeps
  <2> HIDE DEF t, m, u
  <2>7. TableOf(r, u.st)
    BY <2>6 DEF TableOf, SameResp
  <2>8. Ok(u)
    BY <1>5, <2>5, <2>7
  <2> QED
    BY <1>3, <2>3, <2>4, <2>8 DEF t
<1> QED
  BY <1>1, <1>4, <1>5

\* A client answers its relays, and the border router if that is in range.
LEMMA ClientReceiveOnce ==
    ASSUME OneLayer, NEW c \in Clients, NEW s, NEW d, d.port = MCAST_SINK_UDP_PORT,
           d.pkt.pkt_type = TOPOLOGY
    PROVE  LET out == ClientReceive(c, s, d).out
           IN  OnceOut(out) /\ ToParents(out) /\ SentBy(c, out)
<1> DEFINE s1 == [s EXCEPT !.checksum = attest_memory(c)]
           out == ClientReceive(c, s, d).out
<1>1. c \in Nodes /\ c \in Relays \cup Clients /\ c \notin Relays
  BY NodesAssumption DEF Nodes
<1>2. create_response(c, d.pkt) = Answer(c) /\ Answer(c).checksum = XorOf(PathIds(Answer(c).path))
  BY <1>1, AnswerMatches
<1>3. out = send_to_parents(c, s1, Answer(c), TRUE) \/ out = {}
  BY <1>2 DEF ClientReceive, ClientAccepts, client_tcpip_handler
<1>4. ASSUME NEW e \in out
      PROVE  \E p \in Nbr[c] : e = Datagram(c, p, PARENT_UDP_CHECKSUM_PORT, Answer(c))
  BY <1>3 DEF send_to_parents
<1> HIDE DEF out
<1>5. ASSUME NEW e \in out
      PROVE  /\ e.port = PARENT_UDP_CHECKSUM_PORT /\ e.src = c
             /\ e.pkt.checksum = XorOf(PathIds(e.pkt.path))
             /\ \/ e.dst = Root
                \/ /\ e.dst \in Relays
                   /\ e = Datagram(e.src, e.dst, PARENT_UDP_CHECKSUM_PORT, Answer(e.src))
  <2>1. PICK p \in Nbr[c] : e = Datagram(c, p, PARENT_UDP_CHECKSUM_PORT, Answer(c))
    BY <1>4
  <2>2. e.port = PARENT_UDP_CHECKSUM_PORT /\ e.src = c /\ e.dst = p /\ e.pkt = Answer(c)
    BY <2>1 DEF Datagram
  <2>3. p = Root \/ p \in Relays
    BY <1>1 DEF OneLayer
  <2> QED
    BY <1>2, <2>1, <2>2, <2>3
<1>6. OnceOut(out)
  <2>1. PARENT_UDP_CHECKSUM_PORT # MCAST_SINK_UDP_PORT
    BY DEF PARENT_UDP_CHECKSUM_PORT, MCAST_SINK_UDP_PORT
  <2> QED
    BY <1>5, <2>1 DEF OnceOut
<1>7. ToParents(out) /\ SentBy(c, out)
  BY <1>5 DEF ToParents, SentBy
<1> QED
  BY <1>6, <1>7 DEF out

\* Where the answer of client c to relay r is: not asked for yet, on its way,
\* or held; at most one of the three, so that nothing is added up twice.
Asked(c) == \E d \in net : d.port = MCAST_SINK_UDP_PORT /\ d.dst = c

Answering(c, r) ==
    \E d \in net : d.port = PARENT_UDP_CHECKSUM_PORT /\ d.src = c /\ d.dst = r

Held(c, r) == c \in PathIds(relay[r].paths)

Apart(c, r) ==
    /\ ~(Asked(c) /\ Answering(c, r))
    /\ ~(Asked(c) /\ Held(c, r))
    /\ ~(Answering(c, r) /\ Held(c, r))

OnceInv ==
    /\ OnceOut(net)
    /\ \A r \in Relays : TableOf(r, relay[r]) /\ Matched(relay[r])
    /\ \A r \in Relays, c \in Clients : Apart(c, r)
    /\ reqs = 0 => /\ net = {}
                   /\ \A r \in Relays : /\ relay[r].paths = <<>>
                                        /\ ~relay[r].periodic_timer.armed
                                        /\ relay[r].periodic_timer.f = "none"

LEMMA SettledTable ==
    ASSUME NEW r \in Relays
    PROVE  ~network_settled(r, RelayBoot).fault =>
             network_settled(r, RelayBoot).child_list = {p \in Nbr[r] : Rank[p] > Rank[r]}
<1> DEFINE children == {p \in Nbr[r] : Rank[p] > Rank[r]}
           f == fill_child_entries(r, RelayBoot)
           a == [RelayBoot EXCEPT !.child_list = children, !.received_pkt = {}]
           b == [RelayBoot EXCEPT !.fault = TRUE]
           t == [f EXCEPT !.settled = TRUE]
           u == udp_new_bind(t)
           v == [u EXCEPT !.sink = ConnFree(t)]
           s == network_settled(r, RelayBoot)
<1>1. f = a \/ f = b
  BY DEF fill_child_entries
<1>2. s = v \/ s = t
  BY DEF network_settled
<1>3. RelayBoot \in RelayStates /\ children \in SUBSET Nodes
  BY BootType, NbrType DEF Nodes
<1> HIDE DEF children, s
<1>4. a \in RelayStates /\ a.child_list = children /\ b \in RelayStates /\ b.fault
  BY <1>3 DEF RelayStates
<1> HIDE DEF a, b
<1>5. f \in RelayStates /\ (f.child_list = children \/ f.fault)
  BY <1>1, <1>4
<1> HIDE DEF f
<1>6. t \in RelayStates /\ t.child_list = f.child_list /\ t.fault = f.fault
  BY <1>5 DEF RelayStates
<1> HIDE DEF t
<1>7. u \in RelayStates /\ u.child_list = t.child_list /\ (t.fault => u.fault)
  <2>1. u \in RelayStates /\ u.child_list = t.child_list
    BY <1>6, BindType DEF SameTable
  <2>2. u = [t EXCEPT !.conns = t.conns + 1] \/ u = [t EXCEPT !.fault = t.fault \/ NullBindTraps]
    BY DEF udp_new_bind
  <2>3. t.fault => u.fault
    BY <1>6, <2>2 DEF RelayStates
  <2> QED
    BY <2>1, <2>3
<1> HIDE DEF u
<1>8. v.child_list = u.child_list /\ v.fault = u.fault
  BY <1>7 DEF RelayStates
<1> HIDE DEF v
<1> QED
  BY <1>2, <1>5, <1>6, <1>7, <1>8 DEF s, children

LEMMA InitOnceInv == SettledFirst = Relays /\ Init => OnceInv
<1> SUFFICES ASSUME SettledFirst = Relays, Init PROVE OnceInv
  OBVIOUS
<1>1. net = {}
  BY DEF Init
<1>2. ASSUME NEW r \in Relays
      PROVE  /\ TableOf(r, relay[r]) /\ Matched(relay[r]) /\ relay[r].paths = <<>>
             /\ ~relay[r].periodic_timer.armed /\ relay[r].periodic_timer.f = "none"
  <2> DEFINE f == fill_child_entries(r, RelayBoot)
             t == [f EXCEPT !.settled = TRUE]
             s == network_settled(r, RelayBoot)
  <2>1. relay[r] = s /\ RelayBoot \in RelayStates
    BY BootType DEF Init
  <2>2. /\ RelayBoot.paths = <<>> /\ RelayBoot.checksum_children = <<>>
        /\ ~RelayBoot.periodic_timer.armed /\ RelayBoot.periodic_timer.f = "none"
    BY DEF RelayBoot
  <2>3. /\ s.paths = <<>> /\ s.checksum_children = <<>> /\ s.settled
        /\ s.periodic_timer = RelayBoot.periodic_timer
    BY <2>1, <2>2, SettledKeeps
  <2>4. ~s.fault => s.child_list = {p \in Nbr[r] : Rank[p] > Rank[r]}
    BY SettledTable
  <2> HIDE DEF s
  <2>5. TableOf(r, s) /\ Matched(s)
    BY <2>3, <2>4, EmptyMatched DEF TableOf
  <2> QED
    BY <2>1, <2>2, <2>3, <2>5
<1>3. \A c, r : ~Asked(c) /\ ~Answering(c, r)
  BY <1>1 DEF Asked, Answering
<1>4. OnceOut(net)
  BY <1>1 DEF OnceOut
<1> QED
  BY <1>1, <1>2, <1>3, <1>4 DEF OnceInv, Apart

LEMMA NextOnceInv ==
    ASSUME OneLayer, MaxReq <= 1, PathInv, HoldNow, OnceInv, AsksTopology, Next
    PROVE  OnceInv'
<1>1. /\ relay \in [Relays -> RelayStates] /\ net \subseteq Datagrams /\ OnceOut(net)
      /\ TopologyOnly(net) /\ reqs \in 0..MaxReq /\ MaxReq \in Nat
  BY SwarmAssumption DEF PathInv, TypeOK, HoldNow, OnceInv
<1>2. /\ \A r \in Relays : /\ RelayOK(relay[r]) /\ relay[r] \in RelayStates
                           /\ HoldOK(relay[r]) /\ TableOf(r, relay[r]) /\ Matched(relay[r])
      /\ \A r \in Relays, c \in Clients : Apart(c, r)
  BY DEF PathInv, RelayOK, HoldNow, OnceInv
<1>3. ASSUME NEW r \in Relays, NEW s, relay' = [relay EXCEPT ![r] = s], reqs' = reqs, reqs # 0,
             TableOf(r, s), Matched(s), NEW out, ToRoot(out), net' \subseteq net \cup out,
             \A c \in Clients : c \in PathIds(s.paths) =>
                Held(c, r) \/ (~Asked(c) /\ ~Answering(c, r)')
      PROVE  OnceInv'
  <2>1. \A q \in Relays : q # r => relay'[q] = relay[q]
    BY <1>1, <1>3
  <2>2. relay'[r] = s
    BY <1>1, <1>3
  <2>3. OnceOut(net')
    BY <1>1, <1>3 DEF OnceOut, ToRoot, MCAST_SINK_UDP_PORT, PARENT_UDP_CHECKSUM_PORT
  <2>4. \A c \in Clients : Asked(c)' => Asked(c)
    BY <1>3 DEF Asked, ToRoot, MCAST_SINK_UDP_PORT, PARENT_UDP_CHECKSUM_PORT
  <2>5. \A c \in Clients, q \in Relays : Answering(c, q)' => Answering(c, q)
    BY <1>3, NodesAssumption DEF Answering, ToRoot
  <2>6. \A c \in Clients, q \in Relays : q # r => (Held(c, q)' => Held(c, q))
    BY <2>1 DEF Held
  <2>7. \A c \in Clients : Held(c, r)' => Held(c, r) \/ (~Asked(c) /\ ~Answering(c, r)')
    BY <1>3, <2>2 DEF Held
  <2>8. \A q \in Relays, c \in Clients : Apart(c, q)'
    BY <1>2, <2>4, <2>5, <2>6, <2>7 DEF Apart
  <2>9. \A q \in Relays : TableOf(q, relay'[q]) /\ Matched(relay'[q])
    BY <1>2, <1>3, <2>1, <2>2
  <2> QED
    BY <1>3, <2>3, <2>8, <2>9 DEF OnceInv, OnceOut, TableOf, Matched
<1>4. ASSUME relay' = relay, reqs' = reqs, reqs # 0, NEW c \in Nodes, NEW out, OnceOut(out),
             ToParents(out), SentBy(c, out), net' \subseteq net \cup out,
             out # {} => c \in Clients /\ Asked(c) /\ ~Asked(c)'
      PROVE  OnceInv'
  <2>1. OnceOut(net')
    BY <1>1, <1>4 DEF OnceOut
  <2>2. \A a \in Clients : Asked(a)' => Asked(a)
    BY <1>4 DEF Asked, ToParents, MCAST_SINK_UDP_PORT, PARENT_UDP_CHECKSUM_PORT
  <2>3. \A a \in Clients, q \in Relays : Answering(a, q)' => Answering(a, q) \/ (a = c /\ out # {})
    BY <1>4 DEF Answering, SentBy
  <2>4. \A a \in Clients, q \in Relays : Held(a, q)' <=> Held(a, q)
    BY <1>4 DEF Held
  <2>5. \A q \in Relays, a \in Clients : Apart(a, q)'
    BY <1>2, <1>4, <2>2, <2>3, <2>4 DEF Apart
  <2> QED
    BY <1>2, <1>4, <2>1, <2>5 DEF OnceInv, OnceOut, TableOf, Matched
<1>5. ASSUME NEW type \in Requests, VerifierRequest(type) PROVE OnceInv'
  <2>1. type = TOPOLOGY /\ reqs = 0 /\ reqs' = 1 /\ relay' = relay
        /\ net' = net \cup multicast_send(type)
    BY <1>1, <1>5 DEF AsksTopology, VerifierRequest
  <2>2. net' = multicast_send(TOPOLOGY)
    BY <2>1 DEF OnceInv
  <2>3. \A d \in net' : /\ d.port = MCAST_SINK_UDP_PORT
                        /\ d = Datagram(Root, d.dst, MCAST_SINK_UDP_PORT, Request(TOPOLOGY))
    BY <2>2 DEF multicast_send, Datagram
  <2>4. OnceOut(net')
    BY <2>3 DEF OnceOut, MCAST_SINK_UDP_PORT, PARENT_UDP_CHECKSUM_PORT
  <2>5. \A r \in Relays, c \in Clients : ~Answering(c, r)'
    BY <2>3 DEF Answering, MCAST_SINK_UDP_PORT, PARENT_UDP_CHECKSUM_PORT
  <2>6. \A r \in Relays, c \in Clients : ~Held(c, r)'
    BY <2>1, PathIdsFew DEF OnceInv, Held
  <2>7. \A r \in Relays, c \in Clients : Apart(c, r)'
    BY <2>5, <2>6 DEF Apart
  <2> QED
    BY <1>2, <2>1, <2>4, <2>7 DEF OnceInv, OnceOut, TableOf, Matched
<1>6. ASSUME NEW d \in net PROVE reqs # 0 /\ d \in Datagrams /\ TopologyOnly({d}) /\ OnceOut({d})
  BY <1>1 DEF OnceInv, OnceOut, TopologyOnly
<1>7. ASSUME NEW r \in Relays, Settle(r) PROVE OnceInv'
  BY <1>2, <1>7 DEF Settle, TableOf
<1>8. ASSUME NEW d \in net, DeliverRelay(d) PROVE OnceInv'
  <2> DEFINE r == d.dst
             rx == RelayReceive(r, relay[r], d)
  <2>1. /\ r \in Relays /\ ~relay[r].fault /\ relay' = [relay EXCEPT ![r] = rx.st]
        /\ net' = (net \ {d}) \cup rx.out /\ reqs' = reqs
    BY <1>8 DEF DeliverRelay
  <2>2. d.port = PARENT_UDP_CHECKSUM_PORT =>
           /\ d.src \in Clients
           /\ d = Datagram(d.src, r, PARENT_UDP_CHECKSUM_PORT, Answer(d.src))
           /\ Answering(d.src, r)
    BY <1>1, <2>1, NodesAssumption DEF OnceOut, Answering
  <2>3. d.port = PARENT_UDP_CHECKSUM_PORT => ~Asked(d.src) /\ ~Held(d.src, r)
    BY <1>2, <2>1, <2>2 DEF Apart
  <2>4. d.port = PARENT_UDP_CHECKSUM_PORT => d.src \notin PathIds(relay[r].paths)
    BY <2>3 DEF Held
  <2>5. /\ ToRoot(rx.out) /\ Matched(rx.st) /\ TableOf(r, rx.st)
        /\ \/ PathIds(rx.st.paths) \subseteq PathIds(relay[r].paths)
           \/ /\ d.port = PARENT_UDP_CHECKSUM_PORT
              /\ PathIds(rx.st.paths) \subseteq PathIds(relay[r].paths) \cup {d.src}
    BY <1>2, <1>6, <2>1, <2>4, RelayReceiveOnce
  <2> HIDE DEF rx
  <2>6. d.port = PARENT_UDP_CHECKSUM_PORT => ~Answering(d.src, r)'
    <3> SUFFICES ASSUME d.port = PARENT_UDP_CHECKSUM_PORT, NEW e \in net',
                        e.port = PARENT_UDP_CHECKSUM_PORT, e.src = d.src, e.dst = r
                 PROVE  FALSE
      BY DEF Answering
    <3>1. e \in net \ {d}
      BY <2>1, <2>5, NodesAssumption DEF ToRoot
    <3>2. e = Datagram(e.src, e.dst, PARENT_UDP_CHECKSUM_PORT, Answer(e.src))
      BY <1>1, <2>1, <3>1, NodesAssumption DEF OnceOut
    <3> QED
      BY <2>2, <3>1, <3>2
  <2>7. \A c \in Clients : c \in PathIds(rx.st.paths) =>
           Held(c, r) \/ (~Asked(c) /\ ~Answering(c, r)')
    BY <2>3, <2>5, <2>6 DEF Held
  <2>8. net' \subseteq net \cup rx.out
    BY <2>1
  <2> QED
    BY <1>3, <1>6, <2>1, <2>5, <2>7, <2>8
<1>9. ASSUME NEW d \in net, DeliverClient(d) PROVE OnceInv'
  <2> DEFINE c == d.dst
             out == ClientReceive(c, client[c], d).out
  <2>1. /\ c \in Clients /\ relay' = relay /\ net' = (net \ {d}) \cup out /\ reqs' = reqs
    BY <1>9 DEF DeliverClient
  <2>2. d.port = MCAST_SINK_UDP_PORT
    <3>1. d.port \in {MCAST_SINK_UDP_PORT, PARENT_UDP_CHECKSUM_PORT, CHECKSUM_PORT}
      BY <1>6 DEF Datagrams
    <3>2. d.port # CHECKSUM_PORT
      BY <1>1 DEF TopologyOnly
    <3>3. d.port # PARENT_UDP_CHECKSUM_PORT
      BY <1>1, <2>1, NodesAssumption DEF OnceOut
    <3> QED
      BY <3>1, <3>2, <3>3
  <2>3. d.pkt.pkt_type = TOPOLOGY /\ Asked(c)
    BY <1>1, <2>2 DEF TopologyOnly, Asked
  <2>4. OnceOut(out) /\ ToParents(out) /\ SentBy(c, out)
    BY <2>1, <2>2, <2>3, ClientReceiveOnce
  <2> HIDE DEF out
  <2>5. ~Asked(c)'
    <3> SUFFICES ASSUME NEW e \in net', e.port = MCAST_SINK_UDP_PORT, e.dst = c PROVE FALSE
      BY DEF Asked
    <3>1. e \in net \ {d}
      BY <2>1, <2>4 DEF ToParents, MCAST_SINK_UDP_PORT, PARENT_UDP_CHECKSUM_PORT
    <3>2. e = Datagram(Root, e.dst, MCAST_SINK_UDP_PORT, Request(TOPOLOGY))
          /\ d = Datagram(Root, d.dst, MCAST_SINK_UDP_PORT, Request(TOPOLOGY))
      BY <1>1, <2>2, <3>1 DEF OnceOut
    <3> QED
      BY <3>1, <3>2
  <2>6. c \in Nodes /\ net' \subseteq net \cup out
    BY <2>1 DEF Nodes
  <2> QED
    BY <1>4, <1>6, <2>1, <2>3, <2>4, <2>5, <2>6
<1>10. ASSUME NEW d \in net, DeliverRoot(d) \/ Lose(d) PROVE OnceInv'
  <2>1. relay' = relay /\ net' = net \ {d} /\ reqs' = reqs
    BY <1>10 DEF DeliverRoot, Lose
  <2>2. OnceOut({}) /\ ToParents({}) /\ SentBy(Root, {}) /\ Root \in Nodes
    BY DEF OnceOut, ToParents, SentBy, Nodes
  <2>3. net' \subseteq net \cup {}
    BY <2>1
  <2> QED
    BY <1>4, <1>6, <2>1, <2>2, <2>3
<1>11. ASSUME NEW r \in Relays, PeriodicTimer(r) PROVE OnceInv'
  <2> DEFINE s == Disarmed(relay[r])
             topo == send_topology_resp(r, s)
  <2>1. relay[r].periodic_timer.armed /\ reqs' = reqs
    BY <1>11 DEF PeriodicTimer
  <2>2. reqs # 0
    BY <2>1 DEF OnceInv
  <2>3. /\ s \in RelayStates /\ SameResp(relay[r], s)
        /\ s.periodic_timer.f = relay[r].periodic_timer.f
        /\ s.checksum_children = relay[r].checksum_children
        /\ s.paths = relay[r].paths /\ s.fault = relay[r].fault
    BY <1>2, DisarmKeeps
  <2>4. TableOf(r, s) /\ Matched(s)
    BY <1>2, <2>3 DEF TableOf, Matched, SameResp
  <2>5. Len(s.paths) <= PathRoom
    <3>1. PathRoom \in Nat
      BY SizesAssumption DEF PathRoom
    <3>2. s.paths \in Seq(Nodes \cup {0}) /\ Len(s.paths) < PathRoom
      BY <1>2, <2>3 DEF RelayOK, RelayStates
    <3> QED
      BY <3>1, <3>2
  <2>6. s.periodic_timer.f # "send_attestation_resp"
    BY <1>2, <2>3 DEF HoldOK
  <2>7. \/ relay' = [relay EXCEPT ![r] = topo.st] /\ net' = net \cup topo.out
        \/ relay' = [relay EXCEPT ![r] = s] /\ net' = net
    BY <1>11, <2>6 DEF PeriodicTimer, Disarmed
  <2>8. ~relay[r].fault
    BY <1>11 DEF PeriodicTimer
  <2> HIDE DEF s
  <2>9. CASE relay' = [relay EXCEPT ![r] = topo.st] /\ net' = net \cup topo.out
    <3>1. ToRoot(topo.out) /\ Matched(topo.st) /\ topo.st.paths = <<>>
      BY <2>3, <2>4, <2>5, SendTopologyMatch
    <3>2. SameResp(s, topo.st)
      BY <2>3, SendTopologyKeeps DEF SameTimers
    <3> HIDE DEF topo
    <3>3. TableOf(r, topo.st)
      BY <2>3, <2>4, <2>8, <3>2 DEF TableOf, SameResp
    <3>4. \A c \in Clients : c \notin PathIds(topo.st.paths)
      BY <3>1, PathIdsFew
    <3>5. net' \subseteq net \cup topo.out
      BY <2>9
    <3> QED
      BY <1>3, <2>1, <2>2, <2>9, <3>1, <3>3, <3>4, <3>5
  <2>10. CASE relay' = [relay EXCEPT ![r] = s] /\ net' = net
    <3>1. \A c \in Clients : c \in PathIds(s.paths) => Held(c, r)
      BY <2>3 DEF Held
    <3>2. ToRoot({}) /\ net' \subseteq net \cup {}
      BY <2>10 DEF ToRoot
    <3> QED
      BY <1>3, <2>1, <2>2, <2>4, <2>10, <3>1, <3>2
  <2> QED
    BY <2>7, <2>9, <2>10
<1>12. ASSUME NEW r \in Relays, PTimer(r) PROVE OnceInv'
  BY <1>2, <1>12 DEF PTimer, HoldOK
<1> QED
  BY <1>5, <1>7, <1>8, <1>9, <1>10, <1>11, <1>12 DEF Next, Deliver

\* Once the one request has been for attestations, nobody reports a topology.
NoTopology(out) == \A d \in out : d.pkt.pkt_type # TOPOLOGY

Silent(s) == s.periodic_timer.f # "send_topology_resp"

Quiet == NoTopology(net) /\ \A r \in Relays : Silent(relay[r])

LEMMA ResponseQuiet ==
    ASSUME NEW n \in Relays \cup Clients, NEW pkt, pkt.pkt_type # TOPOLOGY
    PROVE  NoTopology(broadcast_to_parents(n, create_response(n, pkt)))
<1>1. create_response(n, pkt).pkt_type = ATTESTATION
  BY DEF create_response, AttResp
<1> QED
  BY <1>1 DEF NoTopology, broadcast_to_parents, Datagram, TOPOLOGY, ATTESTATION

LEMMA ProcessAttestationQuiet ==
    ASSUME NEW r \in Relays, NEW s \in RelayStates, Silent(s), NEW resp, NEW id
    PROVE  Silent(process_attestation_req(r, s, resp, id))
<1> DEFINE s1 == store_checksum(s, resp.checksum)
           tm == get_attestation_timeout(r, s) * FrameTicks
           s2 == ctimer_set(s1, tm, "send_attestation_resp")
           s3 == [s2 EXCEPT !.first_child = FALSE]
<1>1. s1.periodic_timer = s.periodic_timer
  BY DEF store_checksum, RelayStates
<1>2. process_attestation_req(r, s, resp, id) \in {s1, s3}
  BY DEF process_attestation_req
<1>3. \E t : s3.periodic_timer = [armed |-> TRUE, f |-> "send_attestation_resp", timeout |-> t]
  <2>1. \/ s1 = [s EXCEPT !.checksum_children = Append(s.checksum_children, resp.checksum)]
        \/ s1 = [s EXCEPT !.fault = TRUE]
    BY DEF store_checksum
  <2> HIDE DEF s1, tm
  <2>2. s3.periodic_timer = [armed |-> TRUE, f |-> "send_attestation_resp", timeout |-> tm]
    BY <2>1 DEF ctimer_set, RelayStates
  <2> QED
    BY <2>2
<1> HIDE DEF s1, s3
<1> QED
  BY <1>1, <1>2, <1>3 DEF Silent

LEMMA SendAttestationQuiet ==
    ASSUME NEW r \in Relays, NEW s \in RelayStates, Silent(s)
    PROVE  Silent(send_attestation_resp(r, s))
<1> DEFINE a == attested(r, s)
           c == get_combined_checksum(r, s)
           t == [a EXCEPT !.ctimer_resp = AttResp(c), !.p_timer = TRUE]
<1>1. a.periodic_timer = s.periodic_timer /\ t.periodic_timer = s.periodic_timer
  BY DEF attested, RelayStates
<1>2. reset_variable(t).periodic_timer = t.periodic_timer
  BY DEF reset_variable, rest_child_list
<1>3. send_attestation_resp(r, s) \in {a, reset_variable(t)}
  BY DEF send_attestation_resp
<1> HIDE DEF a, t
<1> QED
  BY <1>1, <1>2, <1>3 DEF Silent

LEMMA RelayReceiveQuiet ==
    ASSUME NEW r \in Relays, NEW s \in RelayStates, Silent(s), NEW d,
           d.pkt.pkt_type # TOPOLOGY
    PROVE  LET rx == RelayReceive(r, s, d)
           IN  Silent(rx.st) /\ NoTopology(rx.out)
<1>1. ASSUME NEW src PROVE LET tx == tcpip_handler(r, s, d.pkt, src)
                           IN  Silent(tx.st) /\ NoTopology(tx.out)
  <2> DEFINE tx == tcpip_handler(r, s, d.pkt, src)
  <2>1. tx.st \in {s, process_attestation_req(r, s, d.pkt, src)} /\ tx.out = {}
    BY DEF tcpip_handler
  <2> HIDE DEF tx
  <2> QED
    BY <2>1, ProcessAttestationQuiet DEF NoTopology, tx
<1>2. LET tx == mcast_tcpip_handler(r, s, d.pkt) IN Silent(tx.st) /\ NoTopology(tx.out)
  <2> DEFINE tx == mcast_tcpip_handler(r, s, d.pkt)
             resp == create_response(r, d.pkt)
  <2>1. tx.st = [s EXCEPT !.ctimer_resp = resp] /\ tx.out = broadcast_to_parents(r, resp)
    BY DEF mcast_tcpip_handler
  <2>2. NoTopology(broadcast_to_parents(r, resp))
    BY ResponseQuiet
  <2> HIDE DEF tx, resp
  <2>3. tx.st.periodic_timer = s.periodic_timer
    BY <2>1 DEF RelayStates
  <2> QED
    BY <2>1, <2>2, <2>3 DEF Silent, tx
<1>3. NoTopology({})
  BY DEF NoTopology
<1> QED
  BY <1>1, <1>2, <1>3 DEF RelayReceive, checksum_receiver

\* No request is left to the verifier, so quiet it stays.
LEMMA NextQuiet ==
    ASSUME MaxReq <= 1, PathInv, reqs # 0, Quiet, [Next]_vars
    PROVE  reqs' # 0 /\ Quiet'
<1>1. /\ relay \in [Relays -> RelayStates] /\ reqs \in 0..MaxReq /\ MaxReq \in Nat
      /\ NoTopology(net) /\ net \subseteq Datagrams
  BY SwarmAssumption DEF PathInv, TypeOK, Quiet
<1>2. \A r \in Relays : relay[r] \in RelayStates /\ Silent(relay[r])
  BY <1>1 DEF Quiet
<1>3. ASSUME NEW r \in Relays, NEW s, relay' = [relay EXCEPT ![r] = s], Silent(s),
             NEW out, NoTopology(out), net' \subseteq net \cup out
      PROVE  Quiet'
  BY <1>1, <1>2, <1>3 DEF Quiet, NoTopology
<1>4. ASSUME relay' = relay, NEW out, NoTopology(out), net' \subseteq net \cup out
      PROVE  Quiet'
  BY <1>1, <1>2, <1>4 DEF Quiet, NoTopology
<1>5. NoTopology({})
  BY DEF NoTopology
<1>6. \A type \in Requests : ~VerifierRequest(type)
  BY <1>1 DEF VerifierRequest
<1>7. ASSUME NEW r \in Relays, Settle(r) PROVE Quiet' /\ reqs' = reqs
  <2>1. /\ relay' = [relay EXCEPT ![r] = network_settled(r, relay[r])]
        /\ net' = net /\ reqs' = reqs
    BY <1>7 DEF Settle
  <2>2. Silent(network_settled(r, relay[r]))
    BY <1>2, SettledKeeps DEF Silent
  <2>3. net' \subseteq net \cup {}
    BY <2>1
  <2> QED
    BY <1>3, <1>5, <2>1, <2>2, <2>3
<1>8. ASSUME NEW d \in net, DeliverRelay(d) PROVE Quiet' /\ reqs' = reqs
  <2> DEFINE rx == RelayReceive(d.dst, relay[d.dst], d)
  <2>1. /\ d.dst \in Relays /\ relay' = [relay EXCEPT ![d.dst] = rx.st]
        /\ net' = (net \ {d}) \cup rx.out /\ reqs' = reqs
    BY <1>8 DEF DeliverRelay
  <2>2. Silent(rx.st) /\ NoTopology(rx.out)
    BY <1>1, <1>2, <2>1, RelayReceiveQuiet DEF NoTopology
  <2> HIDE DEF rx
  <2>3. net' \subseteq net \cup rx.out
    BY <2>1
  <2> QED
    BY <1>3, <2>1, <2>2, <2>3
<1>9. ASSUME NEW d \in net, DeliverClient(d) PROVE Quiet' /\ reqs' = reqs
  <2> DEFINE c == d.dst
             out == ClientReceive(c, client[c], d).out
  <2>1. /\ c \in Clients /\ relay' = relay
        /\ net' = (net \ {d}) \cup out /\ reqs' = reqs
    BY <1>9 DEF DeliverClient
  <2>2. out = {} \/ out = broadcast_to_parents(c, create_response(c, d.pkt))
    BY <1>1 DEF ClientReceive, client_tcpip_handler, NoTopology
  <2>3. NoTopology(broadcast_to_parents(c, create_response(c, d.pkt)))
    BY <1>1, <2>1, ResponseQuiet DEF NoTopology
  <2> HIDE DEF out
  <2>4. NoTopology(out) /\ net' \subseteq net \cup out
    BY <1>5, <2>1, <2>2, <2>3
  <2> QED
    BY <1>4, <2>1, <2>4
<1>10. ASSUME NEW d \in net, DeliverRoot(d) \/ Lose(d) PROVE Quiet' /\ reqs' = reqs
  <2>1. relay' = relay /\ net' \subseteq net \cup {} /\ reqs' = reqs
    BY <1>10 DEF DeliverRoot, Lose
  <2> QED
    BY <1>4, <1>5, <2>1
<1>11. ASSUME NEW r \in Relays, PeriodicTimer(r) PROVE Quiet' /\ reqs' = reqs
  <2> DEFINE s == Disarmed(relay[r])
             a == send_attestation_resp(r, s)
  <2>1. s \in RelayStates /\ Silent(s) /\ s.periodic_timer.f = relay[r].periodic_timer.f
    BY <1>2, DisarmKeeps DEF Silent
  <2>2. /\ relay' = [relay EXCEPT ![r] = a] \/ relay' = [relay EXCEPT ![r] = s]
        /\ net' = net /\ reqs' = reqs
    BY <1>11, <2>1 DEF PeriodicTimer, Disarmed, Silent
  <2>3. Silent(a)
    BY <2>1, SendAttestationQuiet
  <2> HIDE DEF s, a
  <2>4. net' \subseteq net \cup {}
    BY <2>2
  <2> QED
    BY <1>3, <1>5, <2>1, <2>2, <2>3, <2>4
<1>12. ASSUME NEW r \in Relays, PTimer(r) PROVE Quiet' /\ reqs' = reqs
  <2> DEFINE s == [relay[r] EXCEPT !.p_timer = FALSE]
             out == broadcast_to_parents(r, relay[r].ctimer_resp)
  <2>1. /\ relay[r].p_timer /\ relay' = [relay EXCEPT ![r] = s]
        /\ net' = net \cup out /\ reqs' = reqs
    BY <1>1, <1>12 DEF PTimer
  <2>2. Silent(s)
    BY <1>2 DEF Silent, RelayStates
  <2>3. relay[r].ctimer_resp.pkt_type # TOPOLOGY
    BY <1>2 DEF RelayStates, AttPackets, TOPOLOGY, ATTESTATION
  <2>4. NoTopology(out)
    BY <2>3 DEF NoTopology, broadcast_to_parents, Datagram
  <2> HIDE DEF s, out
  <2>5. net' \subseteq net \cup out
    BY <2>1
  <2> QED
    BY <1>3, <2>1, <2>2, <2>4, <2>5
<1>13. CASE UNCHANGED vars
  BY <1>1, <1>13 DEF vars, Quiet, NoTopology
<1> QED
  BY <1>6, <1>7, <1>8, <1>9, <1>10, <1>11, <1>12, <1>13 DEF Next, Deliver

\* The one request is for a topology, or leaves the swarm quiet.
OneInv == (HoldNow /\ OnceInv) \/ (reqs # 0 /\ Quiet)

LEMMA InitOneInv == SettledFirst = Relays /\ Init => OneInv
  BY InitHoldNow, InitOnceInv DEF OneInv

LEMMA NextOneInv ==
    OneLayer /\ MaxReq <= 1 /\ PathInv /\ OneInv /\ [Next]_vars => OneInv'
<1> SUFFICES ASSUME OneLayer, MaxReq <= 1, PathInv, OneInv, [Next]_vars PROVE OneInv'
  OBVIOUS
<1>1. CASE reqs # 0 /\ Quiet
  BY <1>1, NextQuiet DEF OneInv
<1>2. CASE HoldNow /\ OnceInv /\ AsksTopology
  <2>1. HoldNow'
    BY <1>2, NextHoldNow
  <2>2. CASE Next
    BY <1>2, <2>1, <2>2, NextOnceInv DEF OneInv
  <2>3. CASE UNCHANGED vars
    BY <1>2, <2>1, <2>3 DEF vars, OneInv, OnceInv, OnceOut, TableOf, Matched, Apart, Asked,
                            Answering, Held
  <2> QED
    BY <2>2, <2>3
<1>3. CASE HoldNow /\ OnceInv /\ ~AsksTopology
  <2>1. PICK type \in Requests : VerifierRequest(type) /\ type # TOPOLOGY
    BY <1>3 DEF AsksTopology
  <2>2. /\ reqs = 0 /\ reqs' = 1 /\ relay' = relay
        /\ net' = net \cup multicast_send(type)
    BY <2>1, SwarmAssumption DEF VerifierRequest, PathInv, TypeOK
  <2>3. net = {} /\ \A r \in Relays : relay[r].periodic_timer.f = "none"
    BY <1>3, <2>2 DEF OnceInv
  <2>4. NoTopology(net')
    BY <2>1, <2>2, <2>3 DEF multicast_send, Datagram, Request, NoTopology
  <2> QED
    BY <2>2, <2>3, <2>4 DEF OneInv, Quiet, Silent
<1> QED
  BY <1>1, <1>2, <1>3 DEF OneInv

\* With one layer of settled relays and one request, of either kind, the
\* checksum of every topology response that create_response or
\* get_combined_checksum made is the XOR of the checksums of exactly the motes
\* its path names, however process_topology_req filtered and split the paths
\* and whatever the radio lost.
THEOREM ChecksumsMatchPaths ==
    OneLayer /\ MaxReq <= 1 /\ SettledFirst = Relays /\ Spec => []ChecksumMatchesPath
<1> SUFFICES ASSUME OneLayer, MaxReq <= 1, SettledFirst = Relays
             PROVE  Spec => []ChecksumMatchesPath
  OBVIOUS
<1>1. Init => OneInv
  BY InitOneInv
<1>2. PathInv /\ OneInv /\ [Next]_vars => OneInv'
  BY NextOneInv
<1>3. PathInv /\ OneInv => ChecksumMatchesPath
  <2> SUFFICES ASSUME PathInv, OneInv, NEW d \in TopologyInFlight
               PROVE  d.pkt.checksum = XorOf(PathIds(d.pkt.path))
    BY DEF ChecksumMatchesPath
  <2>1. OnceOut(net)
    BY DEF OneInv, OnceInv, Quiet, NoTopology, TopologyInFlight
  <2> QED
    BY <2>1 DEF OnceOut, TopologyInFlight
<1> QED
  BY <1>1, <1>2, <1>3, PathInvariant, PTL DEF Spec
=============================================================================
