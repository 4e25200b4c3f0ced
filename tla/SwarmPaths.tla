----------------------------- MODULE SwarmPaths -----------------------------
(***************************************************************************)
(* What TLAPS proves of the paths of topology responses, for every swarm:  *)
(* each names its motes once, sender last, and, while only topologies are  *)
(* requested, no id that a relay was given is ever dropped by it.          *)
(***************************************************************************)
EXTENDS SwarmTimers, WellFoundedInduction

-----------------------------------------------------------------------------
(* Numbers *)

LessThan == {ss \in Nat \X Nat : ss[1] < ss[2]}

LEMMA LessThanWellFounded == IsWellFoundedOn(LessThan, Nat)
  BY NatLessThanWellFounded DEF OpToRel, LessThan

LEMMA Least ==
    ASSUME NEW S \in SUBSET Nat, S # {}
    PROVE  \E x \in S : \A y \in S : x <= y
<1>1. PICK x \in S : \A y \in S : ~(<<y, x>> \in LessThan)
  BY LessThanWellFounded, WFMin
<1>2. ASSUME NEW y \in S PROVE x <= y
  <2>1. ~(<<y, x>> \in LessThan) /\ x \in Nat /\ y \in Nat
    BY <1>1
  <2>2. ~(y < x)
    BY <2>1 DEF LessThan
  <2> QED
    BY <2>1, <2>2
<1> QED
  BY <1>2

-----------------------------------------------------------------------------
(* The slots that the copy loop fills. *)

Ids == Nodes \cup {0}

\* The ids of p up to the j-th that are not in paths yet.
NewUpTo(s, p, j) == {m \in 1..j : ~is_present_paths(s, p[m])}

LEMMA NewUpToFinite ==
    ASSUME NEW s, NEW p, NEW j \in Nat
    PROVE  IsFiniteSet(NewUpTo(s, p, j)) /\ Cardinality(NewUpTo(s, p, j)) \in Nat
<1>1. IsFiniteSet(1..j)
  BY FS_Interval
<1>2. IsFiniteSet(NewUpTo(s, p, j))
  BY <1>1, FS_Subset DEF NewUpTo
<1> QED
  BY <1>2, FS_CardinalityType

LEMMA SlotsCount ==
    ASSUME NEW s \in RelayStates, NEW p, NEW j \in Nat
    PROVE  /\ SlotsAfter(s, p, j) = Len(s.paths) + Cardinality(NewUpTo(s, p, j))
           /\ SlotsAfter(s, p, j) \in Nat /\ Len(s.paths) \in Nat
           /\ Len(s.paths) <= SlotsAfter(s, p, j)
<1>1. Len(s.paths) \in Nat
  BY DEF RelayStates
<1>2. SlotsAfter(s, p, j) = Len(s.paths) + Cardinality(NewUpTo(s, p, j))
  BY DEF SlotsAfter, NewUpTo
<1> QED
  BY <1>1, <1>2, NewUpToFinite

\* Before the loop the slots in use are those of paths.
LEMMA SlotsBefore ==
    ASSUME NEW s \in RelayStates, NEW p
    PROVE  SlotsAfter(s, p, 0) = Len(s.paths)
<1>1. NewUpTo(s, p, 0) = {}
  BY DEF NewUpTo
<1>2. Cardinality(NewUpTo(s, p, 0)) = 0
  BY <1>1, FS_EmptySet
<1>3. 0 \in Nat
  OBVIOUS
<1>4. /\ SlotsAfter(s, p, 0) = Len(s.paths) + Cardinality(NewUpTo(s, p, 0))
      /\ Len(s.paths) \in Nat
  BY <1>3, SlotsCount
<1> QED
  BY <1>2, <1>4

\* A round of the loop takes a slot for a new id, and none for a known one.
LEMMA SlotsStep ==
    ASSUME NEW s \in RelayStates, NEW p, NEW j \in Nat
    PROVE  SlotsAfter(s, p, j + 1) =
              IF is_present_paths(s, p[j + 1]) THEN SlotsAfter(s, p, j)
                                               ELSE SlotsAfter(s, p, j) + 1
<1> DEFINE N == NewUpTo(s, p, j)
<1>1. IsFiniteSet(N) /\ Cardinality(N) \in Nat /\ Len(s.paths) \in Nat
  BY NewUpToFinite, SlotsCount
<1>2. SlotsAfter(s, p, j) = Len(s.paths) + Cardinality(N)
  BY SlotsCount
<1>3. SlotsAfter(s, p, j + 1) = Len(s.paths) + Cardinality(NewUpTo(s, p, j + 1))
  <2>1. j + 1 \in Nat
    OBVIOUS
  <2> QED
    BY <2>1, SlotsCount
<1>4. 1..(j + 1) = (1..j) \cup {j + 1}
  OBVIOUS
<1>5. CASE is_present_paths(s, p[j + 1])
  <2>1. NewUpTo(s, p, j + 1) = N
    BY <1>4, <1>5 DEF NewUpTo
  <2> HIDE DEF N
  <2> QED
    BY <1>2, <1>3, <1>5, <2>1
<1>6. CASE ~is_present_paths(s, p[j + 1])
  <2>1. NewUpTo(s, p, j + 1) = N \cup {j + 1} /\ j + 1 \notin N
    BY <1>4, <1>6 DEF NewUpTo
  <2> HIDE DEF N
  <2>2. Cardinality(N \cup {j + 1}) = Cardinality(N) + 1
    BY <1>1, <2>1, FS_AddElement
  <2>3. SlotsAfter(s, p, j + 1) = Len(s.paths) + (Cardinality(N) + 1)
    BY <1>3, <2>1, <2>2
  <2>4. SlotsAfter(s, p, j + 1) = SlotsAfter(s, p, j) + 1
    BY <1>1, <1>2, <2>3
  <2> QED
    BY <1>6, <2>4
<1> QED
  BY <1>5, <1>6

LEMMA SlotsMono ==
    ASSUME NEW s \in RelayStates, NEW p, NEW i \in Nat, NEW j \in Nat, i <= j
    PROVE  SlotsAfter(s, p, i) <= SlotsAfter(s, p, j)
<1>1. NewUpTo(s, p, i) \subseteq NewUpTo(s, p, j)
  BY DEF NewUpTo
<1>2. Cardinality(NewUpTo(s, p, i)) <= Cardinality(NewUpTo(s, p, j))
  BY <1>1, NewUpToFinite, FS_Subset
<1> QED
  BY <1>2, SlotsCount, NewUpToFinite

\* Two new ids get different slots.
LEMMA SlotsDiffer ==
    ASSUME NEW s \in RelayStates, NEW p, NEW i \in Nat, NEW j \in Nat, i < j,
           ~is_present_paths(s, p[j])
    PROVE  SlotsAfter(s, p, i) < SlotsAfter(s, p, j)
<1>1. j - 1 \in Nat /\ i <= j - 1 /\ (j - 1) + 1 = j
  OBVIOUS
<1>2. SlotsAfter(s, p, (j - 1) + 1) = SlotsAfter(s, p, j - 1) + 1
  BY <1>1, SlotsStep
<1>3. SlotsAfter(s, p, i) <= SlotsAfter(s, p, j - 1)
  BY <1>1, SlotsMono
<1>4. SlotsAfter(s, p, i) \in Nat /\ SlotsAfter(s, p, j - 1) \in Nat
  BY <1>1, SlotsCount
<1> QED
  BY <1>1, <1>2, <1>3, <1>4

\* Every slot between is filled: slots are taken one by one.
LEMMA SlotTaken ==
    ASSUME NEW s \in RelayStates, NEW p, NEW n \in Nat, NEW k \in Nat,
           Len(s.paths) < k, k <= SlotsAfter(s, p, n)
    PROVE  \E j \in 1..n : ~is_present_paths(s, p[j]) /\ SlotsAfter(s, p, j) = k
<1> DEFINE S == {j \in 0..n : SlotsAfter(s, p, j) >= k}
<1>1. n \in S /\ S \in SUBSET Nat
  <2>1. SlotsAfter(s, p, n) \in Nat
    BY SlotsCount
  <2> QED
    BY <2>1
<1>2. PICK j \in S : \A i \in S : j <= i
  BY <1>1, Least
<1>3. j \in 0..n /\ SlotsAfter(s, p, j) >= k /\ Len(s.paths) \in Nat
  BY <1>2, SlotsCount
<1>4. j # 0
  BY <1>3, SlotsBefore
<1>5. j - 1 \in Nat /\ j \in 1..n /\ j - 1 \in 0..n /\ (j - 1) + 1 = j
  BY <1>3, <1>4
<1>6. j - 1 \notin S
  BY <1>2, <1>5
<1>7. SlotsAfter(s, p, j - 1) \in Nat /\ SlotsAfter(s, p, j) \in Nat
  BY <1>5, SlotsCount
<1>8. SlotsAfter(s, p, j - 1) < k
  BY <1>5, <1>6, <1>7
<1>9. SlotsAfter(s, p, (j - 1) + 1) =
         IF is_present_paths(s, p[(j - 1) + 1]) THEN SlotsAfter(s, p, j - 1)
                                                ELSE SlotsAfter(s, p, j - 1) + 1
  BY <1>5, SlotsStep
<1>10. SlotsAfter(s, p, j) =
         IF is_present_paths(s, p[j]) THEN SlotsAfter(s, p, j - 1)
                                      ELSE SlotsAfter(s, p, j - 1) + 1
  BY <1>5, <1>9
<1>11. ~is_present_paths(s, p[j])
  BY <1>3, <1>7, <1>8, <1>10
<1>12. SlotsAfter(s, p, j) = k
  BY <1>3, <1>7, <1>8, <1>10, <1>11
<1> QED
  BY <1>5, <1>11, <1>12

-----------------------------------------------------------------------------
(* What the copy loop leaves in paths. *)

\* A slot holds what it held, or the id that took it.
LEMMA CopiedCell ==
    ASSUME NEW s \in RelayStates, NEW p \in Seq(Ids), NEW n \in Nat,
           Len(s.paths) <= n, n <= SlotsAfter(s, p, Len(p)), NEW k \in 1..n
    PROVE  /\ k <= Len(s.paths) => Copied(s, p, n)[k] = s.paths[k]
           /\ ~(k <= Len(s.paths)) =>
                \E j \in 1..Len(p) : /\ ~is_present_paths(s, p[j])
                                     /\ SlotsAfter(s, p, j) = k
                                     /\ Copied(s, p, n)[k] = p[j]
<1> DEFINE Goes(j, i) == ~is_present_paths(s, p[j]) /\ SlotsAfter(s, p, j) = i
           at(i) == CHOOSE j \in 1..Len(p) : Goes(j, i)
<1>1. Copied(s, p, n)[k] = IF k <= Len(s.paths) THEN s.paths[k]
                           ELSE IF \E j \in 1..Len(p) : Goes(j, k) THEN p[at(k)] ELSE 0
  BY DEF Copied
<1>2. Len(s.paths) \in Nat /\ Len(p) \in Nat
  BY DEF RelayStates
<1>3. ~(k <= Len(s.paths)) => \E j \in 1..Len(p) : Goes(j, k)
  <2> HAVE ~(k <= Len(s.paths))
  <2>1. SlotsAfter(s, p, Len(p)) \in Nat
    BY <1>2, SlotsCount
  <2>2. k \in Nat /\ Len(s.paths) < k /\ k <= SlotsAfter(s, p, Len(p))
    BY <1>2, <2>1
  <2> QED
    BY <1>2, <2>2, SlotTaken
<1>4. (\E j \in 1..Len(p) : Goes(j, k)) => at(k) \in 1..Len(p) /\ Goes(at(k), k)
  <2> HIDE DEF Goes
  <2> QED
    OBVIOUS
<1> HIDE DEF at
<1> QED
  BY <1>1, <1>3, <1>4

\* Every new id that took a slot is in it.
LEMMA CopiedId ==
    ASSUME NEW s \in RelayStates, NEW p \in Seq(Ids), NEW n \in Nat,
           Len(s.paths) <= n, n <= SlotsAfter(s, p, Len(p)),
           NEW j \in 1..Len(p), ~is_present_paths(s, p[j]), SlotsAfter(s, p, j) <= n
    PROVE  /\ SlotsAfter(s, p, j) \in 1..n
           /\ Copied(s, p, n)[SlotsAfter(s, p, j)] = p[j]
<1> DEFINE k == SlotsAfter(s, p, j)
<1>1. Len(s.paths) \in Nat /\ k \in Nat /\ Len(s.paths) < k
  <2>1. 0 \in Nat /\ j \in Nat /\ 0 < j
    OBVIOUS
  <2>2. SlotsAfter(s, p, 0) < k
    BY <2>1, SlotsDiffer
  <2>3. SlotsAfter(s, p, 0) = Len(s.paths)
    BY SlotsBefore
  <2>4. Len(s.paths) \in Nat /\ k \in Nat
    BY <2>1, SlotsCount
  <2> QED
    BY <2>2, <2>3, <2>4
<1> HIDE DEF k
<1>2. k \in 1..n /\ ~(k <= Len(s.paths))
  BY <1>1 DEF k
<1>3. PICK i \in 1..Len(p) : /\ ~is_present_paths(s, p[i]) /\ SlotsAfter(s, p, i) = k
                             /\ Copied(s, p, n)[k] = p[i]
  BY <1>2, CopiedCell
<1>4. i = j
  <2>1. i \in Nat /\ j \in Nat
    OBVIOUS
  <2>2. ~(i < j) /\ ~(j < i)
    <3>1. i < j => SlotsAfter(s, p, i) < SlotsAfter(s, p, j)
      BY <2>1, SlotsDiffer
    <3>2. j < i => SlotsAfter(s, p, j) < SlotsAfter(s, p, i)
      BY <1>3, <2>1, SlotsDiffer
    <3> QED
      BY <1>1, <1>3, <3>1, <3>2 DEF k
  <2> QED
    BY <2>1, <2>2
<1> QED
  BY <1>2, <1>3, <1>4 DEF k

\* No mote twice, and all of them motes further from the root than r.
Distinct(q) == \A i, j \in 1..Len(q) : i # j => q[i] # q[j]

Below(r, q) == \A i \in 1..Len(q) : q[i] # 0 /\ Rank[q[i]] > Rank[r]

LEMMA CopiedDistinct ==
    ASSUME NEW s \in RelayStates, NEW p \in Seq(Ids), NEW n \in Nat, NEW r,
           Len(s.paths) <= n, n <= SlotsAfter(s, p, Len(p)),
           Distinct(s.paths), Below(r, s.paths), Distinct(p), Below(r, p)
    PROVE  Distinct(Copied(s, p, n)) /\ Below(r, Copied(s, p, n))
<1> DEFINE q == Copied(s, p, n)
           old(k) == k \in 1..Len(s.paths) /\ q[k] = s.paths[k]
           new(k, j) == /\ j \in 1..Len(p) /\ q[k] = p[j]
                        /\ ~is_present_paths(s, p[j]) /\ SlotsAfter(s, p, j) = k
<1>1. Len(q) = n
  BY CopiedType DEF Ids
<1>2. ASSUME NEW k \in 1..n PROVE old(k) \/ \E j : new(k, j)
  <2>1. Len(s.paths) \in Nat
    BY DEF RelayStates
  <2> QED
    BY <2>1, CopiedCell
<1> HIDE DEF q
<1>3. ASSUME NEW k \in 1..n, NEW i \in 1..n, k # i PROVE q[k] # q[i]
  <2>1. CASE old(k) /\ old(i)
    BY <1>3, <2>1 DEF Distinct
  <2>2. ASSUME NEW j, old(k), new(i, j) PROVE q[k] # q[i]
    BY <2>2 DEF is_present_paths
  <2>3. ASSUME NEW j, new(k, j), old(i) PROVE q[k] # q[i]
    BY <2>3 DEF is_present_paths
  <2>4. ASSUME NEW j1, NEW j2, new(k, j1), new(i, j2) PROVE q[k] # q[i]
    <3>1. j1 # j2
      BY <1>3, <2>4
    <3> QED
      BY <2>4, <3>1 DEF Distinct
  <2> QED
    BY <1>2, <2>1, <2>2, <2>3, <2>4
<1>4. ASSUME NEW k \in 1..n PROVE q[k] # 0 /\ Rank[q[k]] > Rank[r]
  <2>1. CASE old(k)
    BY <2>1 DEF Below
  <2>2. ASSUME NEW j, new(k, j) PROVE q[k] # 0 /\ Rank[q[k]] > Rank[r]
    BY <2>2 DEF Below
  <2> QED
    BY <1>2, <2>1, <2>2
<1> QED
  BY <1>1, <1>3, <1>4 DEF q, Distinct, Below

LEMMA CopiedIds ==
    ASSUME NEW s \in RelayStates, NEW p \in Seq(Ids), NEW n \in Nat,
           Len(s.paths) <= n, n <= SlotsAfter(s, p, Len(p))
    PROVE  /\ PathIds(s.paths) \subseteq PathIds(Copied(s, p, n))
           /\ \A j \in 1..Len(p) :
                 SlotsAfter(s, p, j) <= n => p[j] \in PathIds(Copied(s, p, n))
<1> DEFINE q == Copied(s, p, n)
<1>1. Len(q) = n
  BY CopiedType DEF Ids
<1>2. PathIds(s.paths) \subseteq PathIds(q)
  <2>1. Len(s.paths) \in Nat
    BY DEF RelayStates
  <2>2. ASSUME NEW k \in 1..Len(s.paths) PROVE s.paths[k] \in PathIds(q)
    <3>1. k \in 1..n /\ k <= Len(s.paths)
      BY <2>1
    <3>2. q[k] = s.paths[k]
      BY <3>1, CopiedCell
    <3> HIDE DEF q
    <3> QED
      BY <1>1, <3>1, <3>2 DEF PathIds
  <2> QED
    BY <2>2 DEF PathIds
<1>3. ASSUME NEW j \in 1..Len(p), SlotsAfter(s, p, j) <= n PROVE p[j] \in PathIds(q)
  <2>1. CASE is_present_paths(s, p[j])
    <3>1. p[j] \in PathIds(s.paths)
      BY <2>1 DEF is_present_paths, PathIds
    <3> QED
      BY <1>2, <3>1
  <2>2. CASE ~is_present_paths(s, p[j])
    <3>1. SlotsAfter(s, p, j) \in 1..n /\ q[SlotsAfter(s, p, j)] = p[j]
      BY <1>3, <2>2, CopiedId
    <3> HIDE DEF q
    <3> QED
      BY <1>1, <3>1 DEF PathIds
  <2> QED
    BY <2>1, <2>2
<1> QED
  BY <1>2, <1>3

\* Where the first flush comes in the packet: the ids up to there have a slot.
LEMMA FlushedUpTo ==
    ASSUME NEW s \in RelayStates, NEW p \in Seq(Ids), NEW n \in Nat,
           Len(s.paths) < n, n <= SlotsAfter(s, p, Len(p)),
           NEW j \in 1..Len(p),
           j <= 1 + Cardinality({i \in 1..Len(p) : SlotsAfter(s, p, i) < n})
    PROVE  SlotsAfter(s, p, j) <= n
<1> DEFINE B == {i \in 1..Len(p) : SlotsAfter(s, p, i) < n}
<1>1. Len(p) \in Nat /\ j \in Nat /\ SlotsAfter(s, p, j) \in Nat
  <2>1. Len(p) \in Nat /\ j \in Nat
    OBVIOUS
  <2> QED
    BY <2>1, SlotsCount
<1>2. PICK k \in 1..Len(p) : SlotsAfter(s, p, k) = n
  BY <1>1, SlotTaken
<1>3. SUFFICES ASSUME ~(SlotsAfter(s, p, j) <= n) PROVE FALSE
  OBVIOUS
<1>4. k < j
  <2>1. k \in Nat
    OBVIOUS
  <2>2. j <= k => SlotsAfter(s, p, j) <= SlotsAfter(s, p, k)
    BY <1>1, <2>1, SlotsMono
  <2> QED
    BY <1>1, <1>2, <1>3, <2>1, <2>2
<1>5. B \subseteq 1..(k - 1)
  <2> SUFFICES ASSUME NEW i \in B PROVE i \in 1..(k - 1)
    OBVIOUS
  <2>1. i \in Nat /\ k \in Nat /\ i \in 1..Len(p) /\ SlotsAfter(s, p, i) < n
    OBVIOUS
  <2>2. k <= i => SlotsAfter(s, p, k) <= SlotsAfter(s, p, i)
    BY <2>1, SlotsMono
  <2>3. SlotsAfter(s, p, i) \in Nat
    BY <2>1, SlotsCount
  <2> QED
    BY <1>2, <2>1, <2>2, <2>3
<1>6. IsFiniteSet(1..(k - 1)) /\ Cardinality(1..(k - 1)) = k - 1
  <2> DEFINE m == k - 1
  <2>1. 1 \in Int /\ m \in Int /\ m >= 0
    OBVIOUS
  <2> HIDE DEF m
  <2>2. IsFiniteSet(1..m) /\ Cardinality(1..m) = IF 1 > m THEN 0 ELSE m - 1 + 1
    BY <2>1, FS_Interval
  <2>3. Cardinality(1..m) = m
    BY <2>1, <2>2
  <2> QED
    BY <2>2, <2>3 DEF m
<1>7. Cardinality(B) <= k - 1 /\ Cardinality(B) \in Nat
  BY <1>5, <1>6, FS_Subset, FS_CardinalityType
<1> QED
  BY <1>1, <1>4, <1>7

\* What is left of a packet after its a-th id.
LEMMA RestOf ==
    ASSUME NEW p \in Seq(Ids), NEW a \in Nat, NEW r
    PROVE  LET q == SubSeq(p, a + 1, Len(p))
           IN  /\ q \in Seq(Ids)
               /\ Distinct(p) => Distinct(q)
               /\ Below(r, p) => Below(r, q)
               /\ \A j \in 1..Len(p) : j > a => p[j] \in PathIds(q)
<1> DEFINE q == SubSeq(p, a + 1, Len(p))
<1>1. q \in Seq(Ids) /\ Len(p) \in Nat
  OBVIOUS
<1>2. Len(q) = IF a + 1 <= Len(p) THEN Len(p) - a ELSE 0
  BY <1>1
<1>3. \A i \in 1..Len(q) : q[i] = p[a + i] /\ a + i \in 1..Len(p)
  BY <1>1, <1>2
<1> HIDE DEF q
<1>4. Distinct(p) => Distinct(q)
  <2> SUFFICES ASSUME Distinct(p), NEW i \in 1..Len(q), NEW j \in 1..Len(q), i # j
               PROVE  q[i] # q[j]
    BY DEF Distinct
  <2>1. a + i # a + j
    OBVIOUS
  <2> QED
    BY <1>3, <2>1 DEF Distinct
<1>5. Below(r, p) => Below(r, q)
  BY <1>3 DEF Below
<1>6. ASSUME NEW j \in 1..Len(p), j > a PROVE p[j] \in PathIds(q)
  <2>1. j - a \in 1..Len(q) /\ a + (j - a) = j
    BY <1>1, <1>2, <1>6
  <2>2. q[j - a] = p[j]
    BY <1>3, <2>1
  <2> QED
    BY <2>1, <2>2 DEF PathIds
<1> QED
  BY <1>1, <1>4, <1>5, <1>6 DEF q

-----------------------------------------------------------------------------
(* What is sent. *)

\* The path of a topology response of mote n.
GoodPath(n, pkt) ==
    /\ pkt.pathindex = Len(pkt.path)
    /\ Len(pkt.path) \in 1..(MAX_PATH_NODES - 1)
    /\ pkt.path[Len(pkt.path)] = n
    /\ \A i \in 1..(Len(pkt.path) - 1) : pkt.path[i] # 0 /\ Rank[pkt.path[i]] > Rank[n]
    /\ Distinct(pkt.path)

GoodPaths(out) ==
    \A d \in out : d.port = PARENT_UDP_CHECKSUM_PORT => GoodPath(d.src, d.pkt)

SentIds(out) ==
    UNION {PathIds(d.pkt.path) : d \in {e \in out : /\ e.pkt.pkt_type = TOPOLOGY
                                                    /\ e.port = PARENT_UDP_CHECKSUM_PORT}}

SentBy(r, out) == \A d \in out : d.src = r

HasParent(r) == \E p \in Nbr[r] : Rank[p] < Rank[r]

\* send_to_parents sends its packet from its mote to the parents' port.
CopiesOf(n, pkt, out) ==
    \A d \in out : d.src = n /\ d.pkt = pkt /\ d.port = PARENT_UDP_CHECKSUM_PORT

LEMMA SentToParents ==
    ASSUME NEW n, NEW s, NEW pkt, NEW is_client
    PROVE  CopiesOf(n, pkt, send_to_parents(n, s, pkt, is_client))
  BY DEF CopiesOf, send_to_parents, Datagram

LEMMA SendTopologyPaths ==
    ASSUME NEW r \in Relays, NEW s \in RelayStates, Len(s.paths) <= PathRoom
    PROVE  LET t == send_topology_resp(r, s)
           IN  /\ Distinct(s.paths) /\ Below(r, s.paths) => GoodPaths(t.out)
               /\ SentBy(r, t.out)
               /\ ConnFree(t.st) => ConnFree(s)
               /\ HasParent(r) /\ ConnFree(t.st) => PathIds(s.paths) \subseteq SentIds(t.out)
<1> DEFINE a == attested(r, s)
           b == get_parent_conn(a)
           path == Append(s.paths, r)
           resp == TopologyResp(path, Len(s.paths) + 1, s.max_leaf_rank,
                                get_combined_checksum(r, s))
           t == send_topology_resp(r, s)
<1>1. Len(s.paths) \in Nat /\ PathRoom \in Nat /\ MAX_PATH_NODES \in Nat
      /\ PathRoom = MAX_PATH_NODES - 2
  BY SizesAssumption DEF RelayStates, PathRoom
<1>2. t.st = reset_variable(b) /\ t.out = send_to_parents(r, s, resp, FALSE)
  <2>1. ~(Len(s.paths) >= MAX_PATH_NODES - 1)
    BY <1>1
  <2>2. t.st = reset_variable(b)
    BY DEF send_topology_resp
  <2>3. t.out = send_to_parents(r, s, resp, FALSE)
    BY <2>1 DEF send_topology_resp
  <2> QED
    BY <2>2, <2>3
<1>3. /\ Len(path) = Len(s.paths) + 1 /\ path[Len(path)] = r
      /\ \A i \in 1..Len(s.paths) : path[i] = s.paths[i]
  BY DEF RelayStates
<1>4. /\ resp.path = path /\ resp.pathindex = Len(s.paths) + 1 /\ resp.pkt_type = TOPOLOGY
  BY DEF TopologyResp
<1>5. \A d \in t.out : d.src = r /\ d.pkt = resp /\ d.port = PARENT_UDP_CHECKSUM_PORT
  <2> HIDE DEF t, resp
  <2>1. CopiesOf(r, resp, send_to_parents(r, s, resp, FALSE))
    BY SentToParents
  <2> QED
    BY <1>2, <2>1 DEF CopiesOf
<1>6. ConnFree(t.st) => ConnFree(s)
  <2>1. a \in RelayStates /\ a.conns = s.conns
    BY ChecksumType DEF attested, RelayStates
  <2>2. b \in RelayStates
    BY <2>1, BindType DEF get_parent_conn
  <2> HIDE DEF a
  <2>3. ConnFree(b) => ConnFree(a)
    BY <2>1 DEF get_parent_conn, udp_new_bind, ConnFree, RelayStates
  <2> HIDE DEF b
  <2>4. reset_variable(b).conns = b.conns
    BY <2>2, ResetKeeps
  <2> QED
    BY <1>2, <2>1, <2>3, <2>4 DEF ConnFree
<1>7. HasParent(r) /\ ConnFree(s) => \E d \in t.out : TRUE
  <2> SUFFICES ASSUME NEW q \in Nbr[r], Rank[q] < Rank[r], ConnFree(s)
               PROVE  Datagram(r, q, PARENT_UDP_CHECKSUM_PORT, resp) \in t.out
    BY DEF HasParent
  <2> QED
    BY <1>2 DEF send_to_parents, rpl_neighbor_is_parent
<1> HIDE DEF path, resp, t
<1>8. PathIds(s.paths) \subseteq PathIds(path)
  BY <1>1, <1>3 DEF PathIds
<1>9. HasParent(r) /\ ConnFree(t.st) => PathIds(s.paths) \subseteq SentIds(t.out)
  BY <1>4, <1>5, <1>6, <1>7, <1>8 DEF SentIds
<1>10. Distinct(s.paths) /\ Below(r, s.paths) => GoodPaths(t.out)
  <2> SUFFICES ASSUME Distinct(s.paths), Below(r, s.paths) PROVE GoodPath(r, resp)
    BY <1>5 DEF GoodPaths
  <2>1. \A i \in 1..Len(s.paths) : path[i] # 0 /\ Rank[path[i]] > Rank[r] /\ path[i] # r
    <3>1. Rank[r] \in Nat
      BY RankType DEF Nodes, UInt16
    <3> QED
      BY <1>3, <3>1 DEF Below
  <2>2. Len(path) \in 1..(MAX_PATH_NODES - 1) /\ Len(path) - 1 = Len(s.paths)
    BY <1>1, <1>3
  <2>3. Distinct(path)
    BY <1>1, <1>3, <2>1 DEF Distinct
  <2> QED
    BY <1>3, <1>4, <2>1, <2>2, <2>3 DEF GoodPath
<1> QED
  BY <1>5, <1>6, <1>9, <1>10 DEF SentBy, t

LEMMA FlushPaths ==
    ASSUME NEW r \in Relays, NEW s \in RelayStates, Len(s.paths) <= PathRoom
    PROVE  LET t == flush(r, s)
           IN  /\ Distinct(s.paths) /\ Below(r, s.paths) => GoodPaths(t.out)
               /\ SentBy(r, t.out)
               /\ ConnFree(t.st) => ConnFree(s)
               /\ HasParent(r) /\ ConnFree(t.st) => PathIds(s.paths) \subseteq SentIds(t.out)
<1> DEFINE u == send_topology_resp(r, s)
<1>1. /\ Distinct(s.paths) /\ Below(r, s.paths) => GoodPaths(u.out)
      /\ SentBy(r, u.out)
      /\ ConnFree(u.st) => ConnFree(s)
      /\ HasParent(r) /\ ConnFree(u.st) => PathIds(s.paths) \subseteq SentIds(u.out)
  BY SendTopologyPaths
<1>2. u.st \in RelayStates
  BY SendTopologyType
<1>3. flush(r, s).st = reset_variable(u.st) /\ flush(r, s).out = u.out
  BY DEF flush
<1> HIDE DEF u
<1>4. reset_variable(u.st).conns = u.st.conns
  BY <1>2, ResetKeeps
<1> QED
  BY <1>1, <1>3, <1>4 DEF ConnFree

-----------------------------------------------------------------------------
(* The copy loop. *)

\* What a relay holds can be sent: no mote twice, all of them below r.
PathsOK(r, s) == Distinct(s.paths) /\ Below(r, s.paths)

LEMMA GoodPathsUnion ==
    ASSUME NEW r, NEW a, NEW b
    PROVE  /\ GoodPaths(a) /\ GoodPaths(b) => GoodPaths(a \cup b)
           /\ SentBy(r, a) /\ SentBy(r, b) => SentBy(r, a \cup b)
           /\ SentIds(a) \subseteq SentIds(a \cup b) /\ SentIds(b) \subseteq SentIds(a \cup b)
           /\ GoodPaths({}) /\ SentBy(r, {})
  BY DEF GoodPaths, SentBy, SentIds

LEMMA CopyPathsPaths ==
    ASSUME NEW r \in Relays, NEW s, RelayOK(s), PathsOK(r, s),
           NEW p \in Seq(Ids), Len(p) <= PathRoom + 1, Distinct(p), Below(r, p)
    PROVE  LET c == copy_paths(r, s, p)
           IN  /\ PathsOK(r, c.st) /\ GoodPaths(c.out) /\ SentBy(r, c.out)
               /\ ConnFree(c.st) => ConnFree(s)
               /\ HasParent(r) /\ ConnFree(c.st) =>
                    PathIds(s.paths) \cup PathIds(p)
                      \subseteq PathIds(c.st.paths) \cup SentIds(c.out)
<1> DEFINE used == SlotsAfter(s, p, Len(p))
           at   == 1 + Cardinality({j \in 1..Len(p) : SlotsAfter(s, p, j) < PathRoom})
           rest == SubSeq(p, at + 1, Len(p))
           in1  == [s EXCEPT !.paths = Copied(s, p, PathRoom)]
           fl1  == flush(r, in1)
           in2  == [fl1.st EXCEPT !.paths = rest]
           fl2  == flush(r, in2)
           none == [s EXCEPT !.paths = Copied(s, p, used)]
           c    == copy_paths(r, s, p)
           Ok(d) == /\ PathsOK(r, d.st) /\ GoodPaths(d.out) /\ SentBy(r, d.out)
                    /\ ConnFree(d.st) => ConnFree(s)
                    /\ HasParent(r) /\ ConnFree(d.st) =>
                         PathIds(s.paths) \cup PathIds(p)
                           \subseteq PathIds(d.st.paths) \cup SentIds(d.out)
<1>0. s \in RelayStates /\ PathRoom \in Nat /\ PathRoom >= 1 /\ Len(s.paths) \in Nat
      /\ Len(s.paths) < PathRoom
  <2>1. s \in RelayStates /\ Len(s.paths) < PathRoom
    BY DEF RelayOK
  <2>2. PathRoom \in Nat /\ PathRoom >= 1
    BY SizesAssumption DEF PathRoom
  <2>3. s.paths \in Seq(Nodes \cup {0})
    BY <2>1 DEF RelayStates
  <2>4. Len(s.paths) \in Nat
    BY <2>3
  <2> QED
    BY <2>1, <2>2, <2>4
<1>1. Len(p) \in Nat /\ used \in Nat /\ at \in Nat /\ at >= 1 /\ Len(s.paths) <= used
  <2>1. Len(p) \in Nat
    OBVIOUS
  <2>2. used \in Nat /\ Len(s.paths) <= used
    BY <1>0, <2>1, SlotsCount
  <2>3. IsFiniteSet(1..Len(p))
    BY <2>1, FS_Interval
  <2>4. Cardinality({j \in 1..Len(p) : SlotsAfter(s, p, j) < PathRoom}) \in Nat
    BY <2>3, FS_Subset, FS_CardinalityType
  <2> QED
    BY <2>1, <2>2, <2>4
<1>2. c = CASE used < PathRoom -> [st |-> none, out |-> {}]
            [] used >= PathRoom /\ Len(rest) < PathRoom -> [st |-> in2, out |-> fl1.out]
            [] used >= PathRoom /\ Len(rest) >= PathRoom ->
                 [st |-> fl2.st, out |-> fl1.out \cup fl2.out]
  BY DEF copy_paths
<1>3. CASE used < PathRoom
  <2>1. c = [st |-> none, out |-> {}]
    <3> HIDE DEF used, rest, in2, fl1, fl2, none, c
    <3> QED
      BY <1>0, <1>1, <1>2, <1>3
  <2>2. none.paths = Copied(s, p, used) /\ none.conns = s.conns
    BY <1>0, SetPathsKeeps DEF RelayStates
  <2>3. PathsOK(r, none)
    <3>1. Distinct(Copied(s, p, used)) /\ Below(r, Copied(s, p, used))
      BY <1>0, <1>1, CopiedDistinct DEF PathsOK
    <3> QED
      BY <2>2, <3>1 DEF PathsOK
  <2>4. PathIds(s.paths) \subseteq PathIds(Copied(s, p, used))
        /\ \A j \in 1..Len(p) : SlotsAfter(s, p, j) <= used => p[j] \in PathIds(Copied(s, p, used))
    BY <1>0, <1>1, CopiedIds
  <2>5. \A j \in 1..Len(p) : SlotsAfter(s, p, j) <= used
    <3> SUFFICES ASSUME NEW j \in 1..Len(p) PROVE SlotsAfter(s, p, j) <= used
      OBVIOUS
    <3>1. j \in Nat /\ j <= Len(p)
      BY <1>1
    <3> QED
      BY <1>0, <1>1, <3>1, SlotsMono
  <2>6. PathIds(p) \subseteq PathIds(Copied(s, p, used))
    <3> HIDE DEF used
    <3> QED
      BY <2>4, <2>5 DEF PathIds
  <2> HIDE DEF none
  <2>7. Ok([st |-> none, out |-> {}])
    BY <2>2, <2>3, <2>4, <2>6, GoodPathsUnion DEF ConnFree
  <2> HIDE DEF c
  <2> QED
    BY <2>1, <2>7 DEF c
<1>4. CASE used >= PathRoom
  <2>1. /\ Distinct(Copied(s, p, PathRoom)) /\ Below(r, Copied(s, p, PathRoom))
    BY <1>0, <1>1, <1>4, CopiedDistinct DEF PathsOK
  <2>2. /\ PathIds(s.paths) \subseteq PathIds(Copied(s, p, PathRoom))
        /\ \A j \in 1..Len(p) :
              SlotsAfter(s, p, j) <= PathRoom => p[j] \in PathIds(Copied(s, p, PathRoom))
    BY <1>0, <1>1, <1>4, CopiedIds
  <2>3. /\ rest \in Seq(Ids) /\ Distinct(rest) /\ Below(r, rest)
        /\ \A j \in 1..Len(p) : j > at => p[j] \in PathIds(rest)
    <3> HIDE DEF at
    <3> QED
      BY <1>1, RestOf
  <2>4. Len(rest) \in Nat /\ Len(rest) <= PathRoom
    <3> HIDE DEF at
    <3> QED
      BY <1>0, <1>1
  <2>5. \A j \in 1..Len(p) : j <= at => SlotsAfter(s, p, j) <= PathRoom
    BY <1>0, <1>1, <1>4, FlushedUpTo
  <2>6. PathIds(p) \subseteq PathIds(Copied(s, p, PathRoom)) \cup PathIds(rest)
    <3> HIDE DEF at, rest
    <3>1. ASSUME NEW j \in 1..Len(p)
          PROVE  p[j] \in PathIds(Copied(s, p, PathRoom)) \cup PathIds(rest)
      <4>1. j <= at \/ j > at
        BY <1>1
      <4> QED
        BY <2>2, <2>3, <2>5, <4>1
    <3> QED
      BY <3>1 DEF PathIds
  <2>7. c = IF Len(rest) < PathRoom THEN [st |-> in2, out |-> fl1.out]
            ELSE [st |-> fl2.st, out |-> fl1.out \cup fl2.out]
    <3> HIDE DEF used, rest, in2, fl1, fl2, none, c
    <3> QED
      BY <1>0, <1>1, <1>2, <1>4, <2>4
  <2> HIDE DEF at, used, rest
  <2>8. in1 \in RelayStates /\ in1.paths = Copied(s, p, PathRoom) /\ in1.conns = s.conns
        /\ Len(in1.paths) <= PathRoom
    <3>1. /\ Copied(s, p, PathRoom) \in Seq(Nodes \cup {0})
          /\ Len(Copied(s, p, PathRoom)) = PathRoom
      BY <1>0, CopiedType DEF Ids
    <3>2. in1 \in RelayStates /\ in1.paths = Copied(s, p, PathRoom)
      BY <1>0, <3>1, SetPathsType
    <3>3. in1.conns = s.conns
      BY <1>0, SetPathsKeeps
    <3> QED
      BY <1>0, <3>1, <3>2, <3>3
  <2> HIDE DEF in1
  <2>9. /\ GoodPaths(fl1.out) /\ SentBy(r, fl1.out) /\ (ConnFree(fl1.st) => ConnFree(in1))
        /\ HasParent(r) /\ ConnFree(fl1.st) => PathIds(in1.paths) \subseteq SentIds(fl1.out)
    <3>1. Distinct(in1.paths) /\ Below(r, in1.paths)
      BY <2>1, <2>8
    <3> QED
      BY <2>8, <3>1, FlushPaths
  <2>10. fl1.st \in RelayStates
    BY <2>8, FlushType
  <2> HIDE DEF fl1
  <2>11. in2 \in RelayStates /\ in2.paths = rest /\ in2.conns = fl1.st.conns
    BY <2>3, <2>10, SetPathsType, SetPathsKeeps DEF Ids
  <2> HIDE DEF in2
  <2>12. /\ GoodPaths(fl2.out) /\ SentBy(r, fl2.out) /\ (ConnFree(fl2.st) => ConnFree(in2))
         /\ HasParent(r) /\ ConnFree(fl2.st) => PathIds(in2.paths) \subseteq SentIds(fl2.out)
    BY <2>3, <2>4, <2>11, FlushPaths
  <2>13. fl2.st.paths = <<>>
    BY <2>4, <2>11, FlushType
  <2> HIDE DEF fl2
  <2>14. Ok([st |-> in2, out |-> fl1.out])
    BY <2>2, <2>3, <2>6, <2>8, <2>9, <2>11 DEF PathsOK, ConnFree
  <2>15. Ok([st |-> fl2.st, out |-> fl1.out \cup fl2.out])
    <3>1. PathsOK(r, fl2.st)
      BY <2>13 DEF PathsOK, Distinct, Below
    <3>2. GoodPaths(fl1.out \cup fl2.out) /\ SentBy(r, fl1.out \cup fl2.out)
      BY <2>9, <2>12, GoodPathsUnion
    <3>3. ConnFree(fl2.st) => ConnFree(s) /\ ConnFree(fl1.st)
      BY <2>8, <2>9, <2>11, <2>12 DEF ConnFree
    <3>4. SentIds(fl1.out) \subseteq SentIds(fl1.out \cup fl2.out)
          /\ SentIds(fl2.out) \subseteq SentIds(fl1.out \cup fl2.out)
      BY GoodPathsUnion
    <3> QED
      BY <2>2, <2>6, <2>8, <2>9, <2>11, <2>12, <3>1, <3>2, <3>3, <3>4
  <2>16. c = [st |-> in2, out |-> fl1.out] \/ c = [st |-> fl2.st, out |-> fl1.out \cup fl2.out]
    BY <2>7
  <2> HIDE DEF c
  <2>17. Ok(c)
    BY <2>14, <2>15, <2>16
  <2> QED
    BY <2>17 DEF c
<1>5. used < PathRoom \/ used >= PathRoom
  <2> HIDE DEF used
  <2> QED
    BY <1>0, <1>1
<1> QED
  BY <1>3, <1>4, <1>5

-----------------------------------------------------------------------------
(* The two handlers of responses. *)

\* A step of relay r from s: what it holds and sends stays well formed, and it
\* keeps its children.
Handled(r, s, t) ==
    /\ PathsOK(r, t.st) /\ GoodPaths(t.out) /\ SentBy(r, t.out)
    /\ t.st.child_list = s.child_list

\* The ids are held or sent afterwards, if the mote still runs and had a
\* connection and a parent to send them to.
Keeps(r, ids, t) ==
    HasParent(r) /\ ConnFree(t.st) /\ ~t.st.fault =>
        ids \subseteq PathIds(t.st.paths) \cup SentIds(t.out)

LEMMA ProcessTopologyPaths ==
    ASSUME NEW r \in Relays, NEW s, RelayOK(s), PathsOK(r, s), NEW resp \in TopologyPackets,
           Len(resp.path) <= PathRoom + 1, Distinct(resp.path), NEW id,
           is_child(s, id) => Below(r, resp.path)
    PROVE  LET t == process_topology_req(r, s, resp, id)
           IN  /\ Handled(r, s, t) /\ Keeps(r, PathIds(s.paths), t)
               /\ is_child(s, id) => Keeps(r, PathIds(resp.path), t)
<1> DEFINE s0 == ctimer_reset(s)
           s1 == child_set_pkt_received(s0, id)
           s2 == store_checksum(s1, resp.checksum)
           cp == copy_paths(r, s2, resp.path)
           mx == IF cp.st.max_leaf_rank < resp.max_leaf_rank
                 THEN resp.max_leaf_rank ELSE cp.st.max_leaf_rank
           s3 == [cp.st EXCEPT !.max_leaf_rank = mx]
           fw == send_topology_resp(r, s3)
           s4 == ctimer_set(s3, get_topology_timeout(r) * CLOCK_SECOND, "send_topology_resp")
           t  == process_topology_req(r, s, resp, id)
           Ok(x) == /\ Handled(r, s, x) /\ Keeps(r, PathIds(s.paths), x)
                    /\ is_child(s, id) => Keeps(r, PathIds(resp.path), x)
<1> s \in RelayStates /\ Len(s.paths) < PathRoom /\ SinkIsLeaf(s)
  BY DEF RelayOK
<1>1. /\ resp.path \in Seq(Nodes \cup {0}) /\ resp.max_leaf_rank \in UInt16
      /\ resp.checksum \in SUBSET Word
  BY DEF TopologyPackets
<1>2. s0 \in RelayStates /\ s0.paths = s.paths /\ SameTable(s, s0)
  BY SmallStepsType
<1> HIDE DEF s0
<1>3. s1 \in RelayStates /\ s1.paths = s.paths /\ SameTable(s, s1)
  <2>1. s1 \in RelayStates /\ s1.paths = s0.paths /\ SameTable(s0, s1)
    BY <1>2, SmallStepsType
  <2> QED
    BY <1>2, <2>1 DEF SameTable
<1> HIDE DEF s1
<1>4. s2 \in RelayStates /\ s2.paths = s.paths /\ SameTable(s, s2)
  BY <1>1, <1>3, SmallStepsType DEF SameTable
<1> HIDE DEF s2
<1>5. RelayOK(s2) /\ PathsOK(r, s2)
  BY <1>4 DEF RelayOK, SameTable, SinkIsLeaf, PathsOK
<1>6. is_child(s, id) =>
         /\ PathsOK(r, cp.st) /\ GoodPaths(cp.out) /\ SentBy(r, cp.out)
         /\ HasParent(r) /\ ConnFree(cp.st) =>
              PathIds(s2.paths) \cup PathIds(resp.path)
                \subseteq PathIds(cp.st.paths) \cup SentIds(cp.out)
  BY <1>1, <1>5, CopyPathsPaths DEF Ids
<1>7. RelayOK(cp.st) /\ cp.st.child_list = s.child_list
  <2>1. RelayOK(cp.st) /\ SameTimers(s2, cp.st)
    BY <1>1, <1>5, CopyPathsType, CopyPathsKeeps
  <2> QED
    BY <1>4, <2>1 DEF SameTimers, SameResp, SameTable
<1> HIDE DEF cp
<1>8. /\ s3 \in RelayStates /\ s3.paths = cp.st.paths /\ s3.conns = cp.st.conns
      /\ s3.child_list = s.child_list /\ Len(s3.paths) <= PathRoom
  <2>1. mx \in UInt16
    BY <1>1, <1>7 DEF RelayOK, RelayStates
  <2> HIDE DEF mx
  <2>2. s3 \in RelayStates
    BY <1>7, <2>1 DEF RelayOK, RelayStates
  <2>3. s3.paths = cp.st.paths /\ s3.conns = cp.st.conns /\ s3.child_list = s.child_list
    BY <1>7 DEF RelayOK, RelayStates
  <2>4. Len(s3.paths) \in Nat /\ PathRoom \in Nat /\ Len(s3.paths) < PathRoom
    <3>1. cp.st \in RelayStates /\ Len(cp.st.paths) < PathRoom
      BY <1>7 DEF RelayOK
    <3>2. s3.paths \in Seq(Nodes \cup {0})
      BY <2>2 DEF RelayStates
    <3>3. PathRoom \in Nat
      BY SizesAssumption DEF PathRoom
    <3> QED
      BY <2>3, <3>1, <3>2, <3>3
  <2> QED
    BY <2>2, <2>3, <2>4
<1> HIDE DEF s3
<1>9. /\ Distinct(s3.paths) /\ Below(r, s3.paths) => GoodPaths(fw.out)
      /\ SentBy(r, fw.out)
      /\ ConnFree(fw.st) => ConnFree(s3)
      /\ HasParent(r) /\ ConnFree(fw.st) => PathIds(s3.paths) \subseteq SentIds(fw.out)
  BY <1>8, SendTopologyPaths
<1>10. fw.st.paths = <<>> /\ fw.st.child_list = s.child_list
  BY <1>8, SendTopologyType DEF SameTable
<1> HIDE DEF fw
<1>11. s4.paths = s3.paths /\ s4.conns = s3.conns /\ s4.child_list = s.child_list
  BY <1>8 DEF ctimer_set, RelayStates
<1> HIDE DEF s4
<1>12. \/ ~is_child(s, id) /\ t = [st |-> s, out |-> {}]
       \/ is_child(s, id) /\ s2.fault /\ t = [st |-> s2, out |-> {}]
       \/ is_child(s, id) /\ t = [st |-> fw.st, out |-> cp.out \cup fw.out]
       \/ is_child(s, id) /\ t = [st |-> s4, out |-> cp.out]
  BY DEF process_topology_req, s0, s1, s2, cp, mx, s3, fw, s4
<1> HIDE DEF t
<1>13. CASE ~is_child(s, id) /\ t = [st |-> s, out |-> {}]
  BY <1>13 DEF Handled, Keeps, GoodPaths, SentBy, t
<1>14. CASE is_child(s, id) /\ s2.fault /\ t = [st |-> s2, out |-> {}]
  BY <1>4, <1>5, <1>14 DEF Handled, Keeps, GoodPaths, SentBy, SameTable, t
<1>15. CASE is_child(s, id) /\ t = [st |-> fw.st, out |-> cp.out \cup fw.out]
  <2>1. t.st = fw.st /\ t.out = cp.out \cup fw.out
    BY <1>15
  <2>2. PathsOK(r, fw.st)
    BY <1>10 DEF PathsOK, Distinct, Below
  <2>3. GoodPaths(t.out) /\ SentBy(r, t.out)
    BY <1>6, <1>8, <1>9, <1>15, <2>1, GoodPathsUnion DEF PathsOK
  <2>4. ConnFree(fw.st) => ConnFree(cp.st)
    BY <1>8, <1>9 DEF ConnFree
  <2>5. SentIds(cp.out) \subseteq SentIds(t.out) /\ SentIds(fw.out) \subseteq SentIds(t.out)
    BY <2>1, GoodPathsUnion
  <2>6. HasParent(r) /\ ConnFree(fw.st) =>
           PathIds(s.paths) \cup PathIds(resp.path) \subseteq SentIds(t.out)
    BY <1>4, <1>6, <1>8, <1>9, <1>15, <2>4, <2>5
  <2> QED
    BY <1>10, <2>1, <2>2, <2>3, <2>6 DEF Handled, Keeps, t
<1>16. CASE is_child(s, id) /\ t = [st |-> s4, out |-> cp.out]
  <2>1. t.st = s4 /\ t.out = cp.out
    BY <1>16
  <2>2. PathsOK(r, s4)
    BY <1>6, <1>8, <1>11, <1>16 DEF PathsOK
  <2>3. HasParent(r) /\ ConnFree(s4) =>
           PathIds(s.paths) \cup PathIds(resp.path) \subseteq PathIds(s4.paths) \cup SentIds(cp.out)
    BY <1>4, <1>6, <1>8, <1>11, <1>16 DEF ConnFree
  <2> QED
    BY <1>6, <1>11, <1>16, <2>1, <2>2, <2>3 DEF Handled, Keeps, t
<1> QED
  BY <1>12, <1>13, <1>14, <1>15, <1>16

\* A checksum that comes in a broadcast leaves the paths alone.
LEMMA ProcessAttestationPaths ==
    ASSUME NEW r \in Relays, NEW s, RelayOK(s), NEW resp \in AttPackets, NEW id
    PROVE  process_attestation_req(r, s, resp, id).paths = s.paths
<1> DEFINE s1 == store_checksum(s, resp.checksum)
           s2 == ctimer_set(s1, get_attestation_timeout(r, s) * FrameTicks, "send_attestation_resp")
           s3 == [s2 EXCEPT !.first_child = FALSE]
<1>1. s1 \in RelayStates /\ s1.paths = s.paths
  BY SmallStepsType DEF RelayOK, AttPackets
<1> HIDE DEF s1
<1>2. s3.paths = s.paths
  BY <1>1 DEF ctimer_set, RelayStates
<1>3. process_attestation_req(r, s, resp, id) \in {s1, s3}
  BY DEF process_attestation_req, s1
<1> HIDE DEF s3
<1> QED
  BY <1>1, <1>2, <1>3

-----------------------------------------------------------------------------
(* What motes answer. *)

LEMMA AnswerPath ==
    ASSUME NEW n \in Nodes, NEW mpkt, mpkt.pkt_type = TOPOLOGY
    PROVE  GoodPath(n, create_response(n, mpkt))
<1>1. create_response(n, mpkt) = TopologyResp(<<n>>, 1, Rank[n], attest_memory(n))
  BY DEF create_response
<1>2. /\ create_response(n, mpkt).path = <<n>> /\ create_response(n, mpkt).pathindex = 1
  BY <1>1 DEF TopologyResp
<1>3. Len(<<n>>) = 1 /\ <<n>>[1] = n /\ 1 <= MAX_PATH_NODES - 1 /\ MAX_PATH_NODES \in Nat
  BY SizesAssumption
<1> QED
  BY <1>2, <1>3 DEF GoodPath, Distinct

LEMMA SentGood ==
    ASSUME NEW n, NEW s, NEW pkt, NEW is_client, GoodPath(n, pkt)
    PROVE  /\ GoodPaths(send_to_parents(n, s, pkt, is_client))
           /\ SentBy(n, send_to_parents(n, s, pkt, is_client))
<1>1. CopiesOf(n, pkt, send_to_parents(n, s, pkt, is_client))
  BY SentToParents
<1> QED
  BY <1>1 DEF CopiesOf, GoodPaths, SentBy

LEMMA BroadcastGood ==
    ASSUME NEW n, NEW pkt
    PROVE  GoodPaths(broadcast_to_parents(n, pkt)) /\ SentBy(n, broadcast_to_parents(n, pkt))
  BY DEF broadcast_to_parents, GoodPaths, SentBy, Datagram, CHECKSUM_PORT,
         PARENT_UDP_CHECKSUM_PORT

LEMMA McastHandlerPaths ==
    ASSUME NEW r \in Relays, NEW s, RelayOK(s), PathsOK(r, s), NEW pkt
    PROVE  LET t == mcast_tcpip_handler(r, s, pkt)
           IN  Handled(r, s, t) /\ Keeps(r, PathIds(s.paths), t)
<1> DEFINE t == mcast_tcpip_handler(r, s, pkt)
           resp == create_response(r, pkt)
           u == get_parent_conn(s)
           s1 == [s EXCEPT !.ctimer_resp = resp]
<1>1. s \in RelayStates /\ r \in Nodes
  BY DEF RelayOK, Nodes
<1>2. u.paths = s.paths /\ u.child_list = s.child_list
  BY <1>1, BindType DEF get_parent_conn, SameTable
<1>3. s1.paths = s.paths /\ s1.child_list = s.child_list
  BY <1>1 DEF RelayStates
<1>4. GoodPaths(t.out) /\ SentBy(r, t.out) /\ t.st \in {u, s1}
  <2>1. CASE pkt.pkt_type = TOPOLOGY
    <3>1. t.st = u /\ t.out = send_to_parents(r, s, resp, TRUE)
      BY <2>1 DEF mcast_tcpip_handler
    <3>2. GoodPath(r, resp)
      BY <1>1, <2>1, AnswerPath
    <3> HIDE DEF t, resp, u
    <3>3. /\ GoodPaths(send_to_parents(r, s, resp, TRUE))
          /\ SentBy(r, send_to_parents(r, s, resp, TRUE))
      BY <3>2, SentGood
    <3> QED
      BY <3>1, <3>3
  <2>2. CASE pkt.pkt_type # TOPOLOGY
    <3>1. t.st = s1 /\ t.out = broadcast_to_parents(r, resp)
      BY <2>2 DEF mcast_tcpip_handler
    <3> HIDE DEF t, resp, s1
    <3> QED
      BY <3>1, BroadcastGood
  <2> QED
    BY <2>1, <2>2
<1> HIDE DEF t, u, s1
<1>5. t.st.paths = s.paths /\ t.st.child_list = s.child_list
  BY <1>2, <1>3, <1>4
<1> QED
  BY <1>4, <1>5 DEF Handled, Keeps, PathsOK, t

\* A child is further from the root than its relay.
ChildrenBelow(r, s) == \A c \in s.child_list : Rank[c] > Rank[r]

LEMMA ChildPath ==
    ASSUME NEW r \in Relays, NEW n \in Nodes, Rank[n] > Rank[r],
           NEW pkt \in TopologyPackets, GoodPath(n, pkt)
    PROVE  Below(r, pkt.path)
<1>1. pkt.path \in Seq(Ids) /\ Len(pkt.path) \in Nat /\ Len(pkt.path) >= 1
  BY DEF TopologyPackets, Ids, GoodPath
<1>2. n # 0
  BY NodesAssumption
<1>3. r \in Nodes
  BY DEF Nodes
<1>4. Rank[n] \in Nat /\ Rank[r] \in Nat
  BY <1>3, RankType DEF UInt16
<1>5. ASSUME NEW i \in 1..Len(pkt.path)
      PROVE  pkt.path[i] # 0 /\ Rank[pkt.path[i]] > Rank[r]
  <2>1. CASE i = Len(pkt.path)
    BY <1>2, <2>1 DEF GoodPath
  <2>2. CASE i # Len(pkt.path)
    <3>1. i \in 1..(Len(pkt.path) - 1)
      BY <1>1, <2>2
    <3>2. pkt.path[i] # 0 /\ Rank[pkt.path[i]] > Rank[n]
      BY <3>1 DEF GoodPath
    <3>3. pkt.path[i] \in Nodes
      BY <1>1, <3>2 DEF Ids
    <3>4. Rank[pkt.path[i]] \in Nat
      BY <3>3, RankType DEF UInt16
    <3> QED
      BY <1>4, <3>2, <3>4
  <2> QED
    BY <2>1, <2>2
<1> QED
  BY <1>5 DEF Below

LEMMA RelayReceivePaths ==
    ASSUME NEW r \in Relays, NEW s, RelayOK(s), PathsOK(r, s), ChildrenBelow(r, s),
           NEW d \in Datagrams, OutOK({d}), GoodPaths({d})
    PROVE  LET t == RelayReceive(r, s, d)
           IN  /\ Handled(r, s, t) /\ Keeps(r, PathIds(s.paths), t)
               /\ is_child(s, d.src) /\ d.port = PARENT_UDP_CHECKSUM_PORT =>
                    Keeps(r, PathIds(d.pkt.path), t)
<1> DEFINE t == RelayReceive(r, s, d)
<1>1. d.port \in {MCAST_SINK_UDP_PORT, PARENT_UDP_CHECKSUM_PORT, CHECKSUM_PORT}
      /\ d.src \in Nodes
  BY DEF Datagrams
<1>2. CASE d.port = MCAST_SINK_UDP_PORT /\ ~s.sink
  <2>1. t = [st |-> s, out |-> {}]
    BY <1>2 DEF RelayReceive, CHECKSUM_PORT, MCAST_SINK_UDP_PORT
  <2> HIDE DEF t
  <2>2. Handled(r, s, t) /\ Keeps(r, PathIds(s.paths), t)
    BY <2>1 DEF Handled, Keeps, GoodPaths, SentBy
  <2> QED
    BY <1>2, <2>2 DEF t, MCAST_SINK_UDP_PORT, PARENT_UDP_CHECKSUM_PORT
<1>3. CASE d.port = MCAST_SINK_UDP_PORT /\ s.sink
  <2>1. is_leaf(s)
    BY <1>3, FS_EmptySet DEF RelayOK, SinkIsLeaf, is_leaf, get_child_count
  <2>2. t = mcast_tcpip_handler(r, s, d.pkt)
    BY <1>3, <2>1 DEF RelayReceive, CHECKSUM_PORT, MCAST_SINK_UDP_PORT
  <2>3. Handled(r, s, t) /\ Keeps(r, PathIds(s.paths), t)
    BY <2>2, McastHandlerPaths
  <2> HIDE DEF t
  <2> QED
    BY <1>3, <2>3 DEF t, MCAST_SINK_UDP_PORT, PARENT_UDP_CHECKSUM_PORT
<1>4. CASE d.port = CHECKSUM_PORT
  <2>1. d.pkt \in AttPackets
    BY <1>4 DEF Datagrams, MCAST_SINK_UDP_PORT, PARENT_UDP_CHECKSUM_PORT, CHECKSUM_PORT
  <2>2. d.pkt.pkt_type # TOPOLOGY
    BY <2>1 DEF AttPackets, TOPOLOGY, ATTESTATION
  <2> DEFINE u == process_attestation_req(r, s, d.pkt, d.src)
  <2>3. t = [st |-> u, out |-> {}] \/ t = [st |-> s, out |-> {}]
    BY <1>4, <2>2 DEF RelayReceive, checksum_receiver, tcpip_handler
  <2>4. u.paths = s.paths /\ u.child_list = s.child_list
    BY <2>1, ProcessAttestationPaths, ProcessAttestationKeeps DEF SameResp
  <2> HIDE DEF t, u
  <2>5. Handled(r, s, t) /\ Keeps(r, PathIds(s.paths), t)
    BY <2>3, <2>4 DEF Handled, Keeps, GoodPaths, SentBy, PathsOK
  <2> QED
    BY <1>4, <2>5 DEF t, CHECKSUM_PORT, PARENT_UDP_CHECKSUM_PORT
<1>5. CASE d.port = PARENT_UDP_CHECKSUM_PORT
  <2>1. d.pkt \in TopologyPackets /\ Len(d.pkt.path) <= PathRoom + 1
    BY <1>5 DEF OutOK, Datagrams, MCAST_SINK_UDP_PORT, PARENT_UDP_CHECKSUM_PORT, CHECKSUM_PORT
  <2>2. d.pkt.pkt_type = TOPOLOGY
    BY <2>1 DEF TopologyPackets
  <2>3. GoodPath(d.src, d.pkt)
    BY <1>5 DEF GoodPaths
  <2>4. Distinct(d.pkt.path) /\ (is_child(s, d.src) => Below(r, d.pkt.path))
    BY <1>1, <2>1, <2>3, ChildPath DEF GoodPath, ChildrenBelow, is_child
  <2>5. CASE is_leaf(s)
    <3>1. t = mcast_tcpip_handler(r, s, d.pkt)
      BY <1>5, <2>5 DEF RelayReceive, CHECKSUM_PORT, MCAST_SINK_UDP_PORT,
                        PARENT_UDP_CHECKSUM_PORT
    <3>2. ~is_child(s, d.src)
      BY <2>5, ChildCount DEF RelayOK, is_leaf
    <3> QED
      BY <3>1, <3>2, McastHandlerPaths
  <2>6. CASE ~is_leaf(s)
    <3>1. t = tcpip_handler(r, s, d.pkt, d.src)
      BY <1>5, <2>6 DEF RelayReceive, CHECKSUM_PORT, MCAST_SINK_UDP_PORT,
                        PARENT_UDP_CHECKSUM_PORT
    <3>2. t = process_topology_req(r, s, d.pkt, d.src)
      BY <2>2, <3>1 DEF tcpip_handler, TOPOLOGY, ATTESTATION
    <3> QED
      BY <2>1, <2>4, <3>2, ProcessTopologyPaths
  <2> QED
    BY <2>5, <2>6
<1> QED
  BY <1>1, <1>2, <1>3, <1>4, <1>5

LEMMA ClientReceivePaths ==
    ASSUME NEW c \in Clients, NEW s, NEW d
    PROVE  GoodPaths(ClientReceive(c, s, d).out)
<1> DEFINE resp == create_response(c, d.pkt)
           s1 == [s EXCEPT !.checksum = attest_memory(c)]
           out == ClientReceive(c, s, d).out
<1>1. c \in Nodes
  BY DEF Nodes
<1>2. CASE ~ClientAccepts(c, s, d)
  BY <1>2 DEF ClientReceive, GoodPaths
<1>3. CASE ClientAccepts(c, s, d) /\ d.pkt.pkt_type = TOPOLOGY
  <2>1. out = send_to_parents(c, s1, resp, TRUE)
    BY <1>3 DEF ClientReceive, client_tcpip_handler
  <2>2. GoodPath(c, resp)
    BY <1>1, <1>3, AnswerPath
  <2> HIDE DEF resp, s1, out
  <2>3. GoodPaths(send_to_parents(c, s1, resp, TRUE))
    BY <2>2, SentGood
  <2>4. GoodPaths(out)
    BY <2>1, <2>3
  <2> QED
    BY <2>4 DEF out
<1>4. CASE ClientAccepts(c, s, d) /\ d.pkt.pkt_type # TOPOLOGY
  <2>1. out = broadcast_to_parents(c, resp)
    BY <1>4 DEF ClientReceive, client_tcpip_handler
  <2> HIDE DEF resp, out
  <2>2. GoodPaths(out)
    BY <2>1, BroadcastGood
  <2> QED
    BY <2>2 DEF out
<1> QED
  BY <1>2, <1>3, <1>4

\* An attestation that is sent empties paths, one of 0 leaves it.
LEMMA SendAttestationPaths ==
    ASSUME NEW r \in Relays, NEW s \in RelayStates
    PROVE  /\ send_attestation_resp(r, s).paths \in {s.paths, <<>>}
           /\ send_attestation_resp(r, s).child_list = s.child_list
<1> DEFINE a == attested(r, s)
           c == get_combined_checksum(r, s)
           t == [a EXCEPT !.ctimer_resp = AttResp(c), !.p_timer = TRUE]
<1>1. a \in RelayStates /\ a.child_list = s.child_list /\ a.paths = s.paths
  BY ChecksumType DEF attested, RelayStates
<1>2. AttResp(c) \in AttPackets
  BY ChecksumType DEF get_combined_checksum, AttResp, AttPackets
<1> HIDE DEF a, c
<1>3. t \in RelayStates /\ t.child_list = a.child_list
  BY <1>1, <1>2 DEF RelayStates
<1>4. /\ reset_variable(t).paths = <<>>
      /\ reset_variable(t).child_list = t.child_list
  BY <1>3, ResetType DEF SameTable
<1>5. send_attestation_resp(r, s) = IF c = {} THEN a ELSE reset_variable(t)
  BY DEF send_attestation_resp, a, c, t
<1> HIDE DEF t
<1> QED
  BY <1>1, <1>3, <1>4, <1>5

-----------------------------------------------------------------------------
(* The invariant. *)

PathsInv ==
    /\ \A r \in Relays : PathsOK(r, relay[r]) /\ ChildrenBelow(r, relay[r])
    /\ GoodPaths(net)

LEMMA SettledPaths ==
    ASSUME NEW r \in Relays, NEW s \in RelayStates, PathsOK(r, s), ChildrenBelow(r, s)
    PROVE  PathsOK(r, network_settled(r, s)) /\ ChildrenBelow(r, network_settled(r, s))
<1> DEFINE t == network_settled(r, s)
<1>1. /\ t.paths = s.paths
      /\ t.child_list = s.child_list \/ t.child_list = {p \in Nbr[r] : Rank[p] > Rank[r]}
  BY SettledKeeps
<1> HIDE DEF t
<1>2. PathsOK(r, t) /\ ChildrenBelow(r, t)
  BY <1>1 DEF PathsOK, ChildrenBelow
<1> QED
  BY <1>2 DEF t

LEMMA InitPathsInv == Init => PathsInv
<1> SUFFICES ASSUME Init PROVE PathsInv
  OBVIOUS
<1>1. ASSUME NEW r \in Relays PROVE PathsOK(r, relay[r]) /\ ChildrenBelow(r, relay[r])
  <2>1. RelayBoot \in RelayStates
    BY BootType
  <2>2. PathsOK(r, RelayBoot) /\ ChildrenBelow(r, RelayBoot)
    BY DEF RelayBoot, PathsOK, Distinct, Below, ChildrenBelow
  <2>3. PathsOK(r, network_settled(r, RelayBoot)) /\ ChildrenBelow(r, network_settled(r, RelayBoot))
    BY <2>1, <2>2, SettledPaths
  <2>4. relay[r] = network_settled(r, RelayBoot) \/ relay[r] = RelayBoot
    BY DEF Init
  <2> QED
    BY <2>2, <2>3, <2>4
<1>2. GoodPaths(net)
  BY DEF Init, GoodPaths
<1> QED
  BY <1>1, <1>2 DEF PathsInv

LEMMA NextPathsInv == PathInv /\ PathsInv /\ [Next]_vars => PathsInv'
<1> SUFFICES ASSUME PathInv, PathsInv, [Next]_vars PROVE PathsInv'
  OBVIOUS
<1>1. /\ relay \in [Relays -> RelayStates] /\ net \subseteq Datagrams /\ OutOK(net)
      /\ GoodPaths(net)
  BY DEF PathInv, TypeOK, PathsInv
<1>2. \A r \in Relays : /\ RelayOK(relay[r]) /\ relay[r] \in RelayStates
                        /\ PathsOK(r, relay[r]) /\ ChildrenBelow(r, relay[r])
  BY DEF PathInv, RelayOK, PathsInv
<1>3. ASSUME NEW r \in Relays, NEW s, relay' = [relay EXCEPT ![r] = s], PathsOK(r, s),
             ChildrenBelow(r, s), GoodPaths(net')
      PROVE  PathsInv'
  BY <1>1, <1>2, <1>3 DEF PathsInv, GoodPaths
<1>4. ASSUME relay' = relay, GoodPaths(net') PROVE PathsInv'
  BY <1>1, <1>2, <1>4 DEF PathsInv, GoodPaths
<1>5. ASSUME NEW d, NEW out, GoodPaths(out)
      PROVE  GoodPaths((net \ {d}) \cup out) /\ GoodPaths(net \cup out)
  BY <1>1, <1>5 DEF GoodPaths
<1>6. ASSUME NEW type \in Requests, VerifierRequest(type) PROVE PathsInv'
  <2>1. GoodPaths(multicast_send(type))
    BY DEF multicast_send, Datagram, GoodPaths, MCAST_SINK_UDP_PORT, PARENT_UDP_CHECKSUM_PORT
  <2>2. GoodPaths(net \cup multicast_send(type))
    BY <1>5, <2>1
  <2> QED
    BY <1>4, <1>6, <2>2 DEF VerifierRequest
<1>7. ASSUME NEW r \in Relays, Settle(r) PROVE PathsInv'
  <2>1. PathsOK(r, network_settled(r, relay[r])) /\ ChildrenBelow(r, network_settled(r, relay[r]))
    BY <1>2, SettledPaths
  <2>2. relay' = [relay EXCEPT ![r] = network_settled(r, relay[r])] /\ net' = net
    BY <1>7 DEF Settle
  <2> QED
    BY <1>1, <1>3, <2>1, <2>2
<1>8. ASSUME NEW d \in net, DeliverRelay(d) PROVE PathsInv'
  <2> DEFINE rx == RelayReceive(d.dst, relay[d.dst], d)
  <2>1. d.dst \in Relays /\ d \in Datagrams /\ OutOK({d}) /\ GoodPaths({d})
    BY <1>1, <1>8 DEF DeliverRelay, OutOK, GoodPaths
  <2>2. Handled(d.dst, relay[d.dst], rx)
    BY <1>2, <2>1, RelayReceivePaths
  <2>3. relay' = [relay EXCEPT ![d.dst] = rx.st] /\ net' = (net \ {d}) \cup rx.out
    BY <1>8 DEF DeliverRelay
  <2> HIDE DEF rx
  <2>4. PathsOK(d.dst, rx.st) /\ ChildrenBelow(d.dst, rx.st) /\ GoodPaths(rx.out)
    BY <1>2, <2>1, <2>2 DEF Handled, ChildrenBelow
  <2> QED
    BY <1>3, <1>5, <2>1, <2>3, <2>4
<1>9. ASSUME NEW d \in net, DeliverClient(d) PROVE PathsInv'
  <2>1. GoodPaths(ClientReceive(d.dst, client[d.dst], d).out)
    BY <1>9, ClientReceivePaths DEF DeliverClient
  <2>2. /\ relay' = relay
        /\ net' = (net \ {d}) \cup ClientReceive(d.dst, client[d.dst], d).out
    BY <1>9 DEF DeliverClient
  <2> QED
    BY <1>4, <1>5, <2>1, <2>2
<1>10. ASSUME NEW d \in net, DeliverRoot(d) \/ Lose(d) PROVE PathsInv'
  <2>1. relay' = relay /\ net' = net \ {d}
    BY <1>10 DEF DeliverRoot, Lose
  <2>2. GoodPaths(net \ {d})
    BY <1>1 DEF GoodPaths
  <2> QED
    BY <1>4, <2>1, <2>2
<1>11. ASSUME NEW r \in Relays, PeriodicTimer(r) PROVE PathsInv'
  <2> DEFINE s == Disarmed(relay[r])
             topo == send_topology_resp(r, s)
             att == send_attestation_resp(r, s)
  <2>1. /\ s \in RelayStates /\ s.child_list = relay[r].child_list /\ s.paths = relay[r].paths
    BY <1>2, DisarmKeeps DEF SameTable
  <2>2. PathsOK(r, s) /\ ChildrenBelow(r, s) /\ Len(s.paths) <= PathRoom
    <3>1. Len(s.paths) < PathRoom
      BY <1>2, <2>1 DEF RelayOK
    <3>2. s.paths \in Seq(Nodes \cup {0}) /\ PathRoom \in Nat
      BY <2>1, SizesAssumption DEF RelayStates, PathRoom
    <3>3. PathsOK(r, s) /\ ChildrenBelow(r, s)
      BY <1>2, <2>1 DEF PathsOK, ChildrenBelow
    <3> QED
      BY <3>1, <3>2, <3>3
  <2>3. \/ relay' = [relay EXCEPT ![r] = topo.st] /\ net' = net \cup topo.out
        \/ relay' = [relay EXCEPT ![r] = att] /\ net' = net
        \/ relay' = [relay EXCEPT ![r] = s] /\ net' = net
    BY <1>11 DEF PeriodicTimer, Disarmed
  <2>4. Distinct(<<>>) /\ Below(r, <<>>)
    BY DEF Distinct, Below
  <2> HIDE DEF s
  <2>5. CASE relay' = [relay EXCEPT ![r] = topo.st] /\ net' = net \cup topo.out
    <3>1. GoodPaths(topo.out)
      BY <2>1, <2>2, SendTopologyPaths DEF PathsOK
    <3>2. topo.st.paths = <<>> /\ topo.st.child_list = s.child_list
      BY <2>1, <2>2, SendTopologyType DEF SameTable
    <3> HIDE DEF topo
    <3>3. PathsOK(r, topo.st) /\ ChildrenBelow(r, topo.st)
      BY <2>2, <2>4, <3>2 DEF PathsOK, ChildrenBelow
    <3> QED
      BY <1>3, <1>5, <2>5, <3>1, <3>3
  <2>6. CASE relay' = [relay EXCEPT ![r] = att] /\ net' = net
    <3>1. att.paths \in {s.paths, <<>>} /\ att.child_list = s.child_list
      BY <2>1, SendAttestationPaths
    <3> HIDE DEF att
    <3>2. PathsOK(r, att) /\ ChildrenBelow(r, att)
      BY <2>2, <2>4, <3>1 DEF PathsOK, ChildrenBelow
    <3> QED
      BY <1>1, <1>3, <2>6, <3>2
  <2>7. CASE relay' = [relay EXCEPT ![r] = s] /\ net' = net
    BY <1>1, <1>3, <2>2, <2>7
  <2> QED
    BY <2>3, <2>5, <2>6, <2>7
<1>12. ASSUME NEW r \in Relays, PTimer(r) PROVE PathsInv'
  <2> DEFINE s == [relay[r] EXCEPT !.p_timer = FALSE]
  <2>1. s.paths = relay[r].paths /\ s.child_list = relay[r].child_list
    BY <1>2 DEF RelayStates
  <2>2. /\ relay' = [relay EXCEPT ![r] = s]
        /\ net' = net \cup broadcast_to_parents(r, relay[r].ctimer_resp)
    BY <1>12 DEF PTimer
  <2> HIDE DEF s
  <2>3. PathsOK(r, s) /\ ChildrenBelow(r, s)
    BY <1>2, <2>1 DEF PathsOK, ChildrenBelow
  <2>4. GoodPaths(broadcast_to_parents(r, relay[r].ctimer_resp))
    BY BroadcastGood
  <2> QED
    BY <1>3, <1>5, <2>2, <2>3, <2>4
<1>13. CASE UNCHANGED vars
  BY <1>1, <1>4, <1>13 DEF vars
<1> QED
  BY <1>6, <1>7, <1>8, <1>9, <1>10, <1>11, <1>12, <1>13 DEF Next, Deliver

LEMMA PathsInvariant == Spec => []PathsInv
  BY InitPathsInv, NextPathsInv, PathInvariant, PTL DEF Spec

\* In every swarm, for any mix of requests and whatever is lost, reordered or
\* overwritten, a topology response that process_topology_req and
\* send_topology_resp let go names each mote once, its sender last, only motes
\* further from the root before it, and its pathindex is set.
THEOREM PathsWellFormed == Spec => []PathWellFormed
<1>1. PathsInv => PathWellFormed
  BY DEF PathsInv, GoodPaths, GoodPath, Distinct, PathWellFormed, TopologyInFlight
<1> QED
  BY <1>1, PathsInvariant, PTL

-----------------------------------------------------------------------------
(* No id is dropped. *)

\* What relay r hands on in this step.
HandsOn(r) ==
    ConnFree(relay'[r]) /\ ~relay'[r].fault =>
        PathIds(relay[r].paths) \cup GivenTo(r)
            \subseteq PathIds(relay'[r].paths) \cup (InFlightFrom(r))'

\* A step that sends out, and is given nothing but g.
LEMMA StepHandsOn ==
    ASSUME NEW r \in Relays, HasParent(r), NEW t, NEW g,
           relay'[r] = t.st, t.out \subseteq net', SentBy(r, t.out),
           Keeps(r, PathIds(relay[r].paths), t), Keeps(r, g, t), GivenTo(r) \subseteq g
    PROVE  HandsOn(r)
<1>1. SentIds(t.out) \subseteq (InFlightFrom(r))'
  BY DEF SentIds, InFlightFrom, TopologyInFlight, SentBy
<1> QED
  BY <1>1 DEF Keeps, HandsOn

\* A step after which relay r, unless it received something, holds as much.
LEMMA QuietHandsOn ==
    ASSUME NEW r \in Relays, relay'[r].paths = relay[r].paths,
           relay'[r] = relay[r] \/ net \subseteq net'
    PROVE  HandsOn(r)
<1>1. GivenTo(r) = {}
  BY DEF GivenTo, TopologyInFlight
<1> QED
  BY <1>1 DEF HandsOn

LEMMA NextHandsOn ==
    ASSUME PathInv, HoldInv, PathsInv, Next, NEW r \in Relays, HasParent(r)
    PROVE  HandsOn(r)
<1>1. /\ relay \in [Relays -> RelayStates] /\ net \subseteq Datagrams /\ OutOK(net)
      /\ GoodPaths(net)
  BY DEF PathInv, TypeOK, PathsInv
<1>2. /\ RelayOK(relay[r]) /\ relay[r] \in RelayStates /\ HoldOK(relay[r])
      /\ PathsOK(r, relay[r]) /\ ChildrenBelow(r, relay[r])
  BY DEF PathInv, RelayOK, PathsInv, HoldInv, HoldNow
<1>3. ASSUME NEW q \in Relays, NEW s, relay' = [relay EXCEPT ![q] = s], q # r PROVE HandsOn(r)
  <2>1. relay'[r] = relay[r]
    BY <1>1, <1>3
  <2> QED
    BY <2>1, QuietHandsOn
<1>4. ASSUME relay' = relay PROVE HandsOn(r)
  <2>1. relay'[r] = relay[r]
    BY <1>4
  <2> QED
    BY <2>1, QuietHandsOn
<1>5. ASSUME NEW type \in Requests, VerifierRequest(type) PROVE HandsOn(r)
  BY <1>4, <1>5 DEF VerifierRequest
<1>6. ASSUME NEW q \in Relays, Settle(q) PROVE HandsOn(r)
  <2>1. relay' = [relay EXCEPT ![q] = network_settled(q, relay[q])] /\ net' = net
    BY <1>6 DEF Settle
  <2>2. CASE q = r
    <3>1. relay'[r].paths = relay[r].paths
      BY <1>1, <1>2, <2>1, <2>2, SettledKeeps
    <3> QED
      BY <2>1, <3>1, QuietHandsOn
  <2> QED
    BY <1>3, <2>1, <2>2
<1>7. ASSUME NEW d \in net, DeliverRelay(d) PROVE HandsOn(r)
  <2> DEFINE rx == RelayReceive(d.dst, relay[d.dst], d)
             g == IF is_child(relay[r], d.src) /\ d.port = PARENT_UDP_CHECKSUM_PORT
                  THEN PathIds(d.pkt.path) ELSE {}
  <2>1. /\ d.dst \in Relays /\ relay' = [relay EXCEPT ![d.dst] = rx.st]
        /\ net' = (net \ {d}) \cup rx.out
    BY <1>7 DEF DeliverRelay
  <2>2. CASE d.dst = r
    <3>1. d \in Datagrams /\ OutOK({d}) /\ GoodPaths({d})
      BY <1>1, <1>7 DEF OutOK, GoodPaths
    <3>2. /\ Handled(r, relay[r], rx) /\ Keeps(r, PathIds(relay[r].paths), rx)
          /\ is_child(relay[r], d.src) /\ d.port = PARENT_UDP_CHECKSUM_PORT =>
               Keeps(r, PathIds(d.pkt.path), rx)
      BY <1>2, <2>2, <3>1, RelayReceivePaths
    <3> HIDE DEF rx
    <3>3. Keeps(r, g, rx)
      BY <3>2 DEF Keeps
    <3>4. GivenTo(r) \subseteq g
      <4>1. \A e \in TopologyInFlight \ TopologyInFlight' :
               e = d /\ d.port = PARENT_UDP_CHECKSUM_PORT
        BY <2>1 DEF TopologyInFlight
      <4> QED
        BY <4>1 DEF GivenTo
    <3>5. relay'[r] = rx.st /\ rx.out \subseteq net'
      BY <1>1, <2>1, <2>2
    <3>6. SentBy(r, rx.out)
      BY <3>2 DEF Handled
    <3> HIDE DEF g
    <3> QED
      BY <3>2, <3>3, <3>4, <3>5, <3>6, StepHandsOn
  <2> HIDE DEF rx
  <2> QED
    BY <1>3, <2>1, <2>2
<1>8. ASSUME NEW d \in net, DeliverClient(d) \/ DeliverRoot(d) \/ Lose(d) PROVE HandsOn(r)
  BY <1>4, <1>8 DEF DeliverClient, DeliverRoot, Lose
<1>9. ASSUME NEW q \in Relays, PeriodicTimer(q) PROVE HandsOn(r)
  <2> DEFINE s == Disarmed(relay[r])
             topo == send_topology_resp(r, s)
  <2>1. CASE q # r
    <3>1. \E s1 : relay' = [relay EXCEPT ![q] = s1]
      BY <1>9 DEF PeriodicTimer
    <3> QED
      BY <1>3, <2>1, <3>1
  <2>2. CASE q = r
    <3>1. s \in RelayStates /\ s.paths = relay[r].paths
      BY <1>2, DisarmKeeps
    <3>2. Len(s.paths) <= PathRoom
      <4>1. Len(s.paths) < PathRoom
        BY <1>2, <3>1 DEF RelayOK
      <4>2. s.paths \in Seq(Nodes \cup {0}) /\ PathRoom \in Nat
        BY <3>1, SizesAssumption DEF RelayStates, PathRoom
      <4> QED
        BY <4>1, <4>2
    <3>3. s.periodic_timer.f # "send_attestation_resp"
      BY <1>2, DisarmKeeps DEF HoldOK
    <3>4. \/ relay' = [relay EXCEPT ![r] = topo.st] /\ net' = net \cup topo.out
          \/ relay' = [relay EXCEPT ![r] = s] /\ net' = net
      BY <1>9, <2>2, <3>3 DEF PeriodicTimer, Disarmed
    <3> HIDE DEF s
    <3>5. CASE relay' = [relay EXCEPT ![r] = topo.st] /\ net' = net \cup topo.out
      <4>1. /\ SentBy(r, topo.out)
            /\ HasParent(r) /\ ConnFree(topo.st) => PathIds(s.paths) \subseteq SentIds(topo.out)
        BY <3>1, <3>2, SendTopologyPaths
      <4> HIDE DEF topo
      <4>2. relay'[r] = topo.st /\ topo.out \subseteq net' /\ net \subseteq net'
        BY <1>1, <3>5
      <4>3. GivenTo(r) \subseteq {}
        BY <4>2 DEF GivenTo, TopologyInFlight
      <4>4. Keeps(r, PathIds(relay[r].paths), topo) /\ Keeps(r, {}, topo)
        BY <3>1, <4>1 DEF Keeps
      <4> QED
        BY <4>1, <4>2, <4>3, <4>4, StepHandsOn
    <3>6. CASE relay' = [relay EXCEPT ![r] = s] /\ net' = net
      <4>1. relay'[r].paths = relay[r].paths /\ net \subseteq net'
        BY <1>1, <3>1, <3>6
      <4> QED
        BY <4>1, QuietHandsOn
    <3> QED
      BY <3>4, <3>5, <3>6
  <2> QED
    BY <2>1, <2>2
<1>10. ASSUME NEW q \in Relays, PTimer(q) PROVE HandsOn(r)
  <2> DEFINE s == [relay[q] EXCEPT !.p_timer = FALSE]
  <2>1. /\ relay' = [relay EXCEPT ![q] = s] /\ net \subseteq net'
    BY <1>10 DEF PTimer
  <2>2. CASE q = r
    <3>1. s.paths = relay[r].paths
      BY <1>2, <2>2 DEF RelayStates
    <3> HIDE DEF s
    <3>2. relay'[r].paths = relay[r].paths
      BY <1>1, <2>1, <2>2, <3>1
    <3> QED
      BY <2>1, <3>2, QuietHandsOn
  <2> HIDE DEF s
  <2> QED
    BY <1>3, <2>1, <2>2
<1> QED
  BY <1>5, <1>6, <1>7, <1>8, <1>9, <1>10 DEF Next, Deliver

\* While only topologies are requested and every relay has a parent, no id
\* that a relay was given by a child is dropped by it, however often the copy
\* loop flushes the path in the middle of a packet - as long as
\* send_to_parents gets a connection.
THEOREM IdsReachParents ==
    Requests \subseteq {TOPOLOGY} /\ (\A r \in Relays : HasParent(r)) /\ Spec => NoIdLost
<1> SUFFICES ASSUME Requests \subseteq {TOPOLOGY}, \A r \in Relays : HasParent(r)
             PROVE  Spec => NoIdLost
  OBVIOUS
<1>1. PathInv /\ HoldInv /\ PathsInv /\ [Next]_vars => [IdsHandedOn]_vars
  <2> SUFFICES ASSUME PathInv, HoldInv, PathsInv, Next PROVE IdsHandedOn
    OBVIOUS
  <2>1. \A r \in Relays : HandsOn(r)
    BY NextHandsOn
  <2> QED
    BY <2>1 DEF HandsOn, IdsHandedOn
<1> QED
  BY <1>1, PathInvariant, HoldInvariant, PathsInvariant, PTL DEF Spec, NoIdLost

-----------------------------------------------------------------------------
(* The copy loop, id by id. *)

LEMMA UpTo ==
    ASSUME NEW n \in Nat, NEW S, 0 \in S, \A j \in 0..n : j \in S /\ j < n => j + 1 \in S
    PROVE  \A j \in 0..n : j \in S
<1> DEFINE B == {j \in 0..n : j \notin S}
<1>1. SUFFICES ASSUME B # {} PROVE FALSE
  OBVIOUS
<1>2. B \in SUBSET Nat
  OBVIOUS
<1>3. PICK x \in B : \A y \in B : x <= y
  BY <1>1, <1>2, Least
<1>4. x \in 0..n /\ x \notin S /\ x # 0
  BY <1>3
<1>5. x - 1 \in 0..n /\ x - 1 < n /\ (x - 1) + 1 = x
  BY <1>4
<1>6. x - 1 \notin B
  BY <1>3, <1>5
<1> QED
  BY <1>4, <1>5, <1>6

\* A function defined along the packet, as far as its n-th id.
Start(s) == [st |-> s, buf |-> s.paths, out |-> {}]

IsTurns(r, s, p, n, f) ==
    f = [j \in 0..n |-> IF j = 0 THEN Start(s) ELSE Turn(r, f[j - 1], p[j])]

LEMMA TurnsExist ==
    ASSUME NEW r, NEW s, NEW p, NEW n \in Nat
    PROVE  \E f : IsTurns(r, s, p, n, f)
<1> DEFINE S == {j \in 0..n : \E f : IsTurns(r, s, p, j, f)}
<1>1. 0 \in S
  <2> DEFINE f == [j \in 0..0 |-> Start(s)]
  <2>1. IsTurns(r, s, p, 0, f)
    BY DEF IsTurns
  <2> QED
    BY <2>1
<1>2. ASSUME NEW j \in 0..n, j \in S, j < n PROVE j + 1 \in S
  <2>1. PICK f : IsTurns(r, s, p, j, f)
    BY <1>2
  <2> DEFINE g == [i \in 0..(j + 1) |-> IF i <= j THEN f[i] ELSE Turn(r, f[j], p[j + 1])]
  <2>2. ASSUME NEW i \in 0..(j + 1)
        PROVE  g[i] = IF i = 0 THEN Start(s) ELSE Turn(r, g[i - 1], p[i])
    <3>1. \A k \in 0..j : f[k] = IF k = 0 THEN Start(s) ELSE Turn(r, f[k - 1], p[k])
      BY <2>1 DEF IsTurns
    <3>2. CASE i <= j
      <4>1. i \in 0..j /\ g[i] = f[i]
        BY <3>2
      <4>2. i # 0 => g[i - 1] = f[i - 1]
        BY <3>2
      <4> HIDE DEF g
      <4> QED
        BY <3>1, <4>1, <4>2
    <3>3. CASE i = j + 1
      <4>1. g[i] = Turn(r, f[j], p[j + 1]) /\ g[j] = f[j] /\ i - 1 = j /\ i # 0
        BY <3>3
      <4> HIDE DEF g
      <4> QED
        BY <3>3, <4>1
    <3> QED
      BY <3>2, <3>3
  <2>3. g = [i \in 0..(j + 1) |-> g[i]]
    OBVIOUS
  <2> HIDE DEF g
  <2>4. IsTurns(r, s, p, j + 1, g)
    BY <2>2, <2>3 DEF IsTurns
  <2>5. j + 1 \in 0..n
    BY <1>2
  <2> QED
    BY <2>4, <2>5
<1> HIDE DEF S
<1>3. \A j \in 0..n : j \in S
  BY <1>1, <1>2, UpTo
<1>4. n \in S
  BY <1>3
<1> QED
  BY <1>4 DEF S

LEMMA TurnsAt ==
    ASSUME NEW r, NEW s, NEW p \in Seq(Ids)
    PROVE  /\ Turns(r, s, p)[0] = Start(s)
           /\ \A j \in Nat : j < Len(p) =>
                 Turns(r, s, p)[j + 1] = Turn(r, Turns(r, s, p)[j], p[j + 1])
<1> DEFINE t == Turns(r, s, p)
<1>1. Len(p) \in Nat
  OBVIOUS
<1>2. t = CHOOSE f : IsTurns(r, s, p, Len(p), f)
  BY DEF Turns, IsTurns, Start
<1>3. IsTurns(r, s, p, Len(p), t)
  <2> HIDE DEF t
  <2> QED
    BY <1>1, <1>2, TurnsExist
<1> HIDE DEF t
<1>4. \A j \in 0..Len(p) : t[j] = IF j = 0 THEN Start(s) ELSE Turn(r, t[j - 1], p[j])
  BY <1>3 DEF IsTurns
<1>5. t[0] = Start(s)
  BY <1>1, <1>4
<1>6. ASSUME NEW j \in Nat, j < Len(p) PROVE t[j + 1] = Turn(r, t[j], p[j + 1])
  <2>1. j + 1 \in 0..Len(p) /\ j + 1 # 0 /\ (j + 1) - 1 = j
    BY <1>1, <1>6
  <2> QED
    BY <1>4, <2>1
<1> QED
  BY <1>5, <1>6 DEF t

\* Turn by turn, the closed form of paths grows as the buffer does.
LEMMA CopiedGrows ==
    ASSUME NEW s \in RelayStates, NEW p \in Seq(Ids)
    PROVE  /\ Copied(s, p, Len(s.paths)) = s.paths
           /\ \A j \in Nat : j < Len(p) /\ ~is_present_paths(s, p[j + 1]) =>
                 Copied(s, p, SlotsAfter(s, p, j) + 1)
                    = Append(Copied(s, p, SlotsAfter(s, p, j)), p[j + 1])
<1>1. s.paths \in Seq(Ids) /\ Len(s.paths) \in Nat /\ Len(p) \in Nat
  BY DEF RelayStates, Ids
<1>2. Copied(s, p, Len(s.paths)) = s.paths
  <2> DEFINE q == Copied(s, p, Len(s.paths))
  <2>1. q \in Seq(Ids) /\ Len(q) = Len(s.paths)
    BY <1>1, CopiedType DEF Ids
  <2>2. \A k \in 1..Len(s.paths) : q[k] = s.paths[k]
    BY <1>1 DEF Copied
  <2> HIDE DEF q
  <2>3. q = s.paths
    BY <1>1, <2>1, <2>2
  <2> QED
    BY <2>3 DEF q
<1>3. ASSUME NEW j \in Nat, j < Len(p), ~is_present_paths(s, p[j + 1])
      PROVE  Copied(s, p, SlotsAfter(s, p, j) + 1)
                = Append(Copied(s, p, SlotsAfter(s, p, j)), p[j + 1])
  <2> DEFINE n == SlotsAfter(s, p, j)
             a == Copied(s, p, n)
             b == Copied(s, p, n + 1)
             id == p[j + 1]
  <2>1. n \in Nat /\ Len(s.paths) <= n /\ n + 1 \in Nat
    BY SlotsCount
  <2>2. SlotsAfter(s, p, j + 1) = n + 1
    BY <1>3, SlotsStep
  <2>3. SlotsAfter(s, p, j + 1) <= SlotsAfter(s, p, Len(p))
    <3>1. j + 1 \in Nat /\ Len(p) \in Nat /\ j + 1 <= Len(p)
      BY <1>1, <1>3
    <3> QED
      BY <3>1, SlotsMono
  <2>4. j + 1 \in 1..Len(p) /\ id \in Ids
    BY <1>1, <1>3
  <2>5. b[n + 1] = id
    <3> DEFINE m == n + 1
    <3>1. m \in Nat /\ Len(s.paths) <= m /\ SlotsAfter(s, p, j + 1) = m
          /\ m <= SlotsAfter(s, p, Len(p)) /\ SlotsAfter(s, p, j + 1) <= m
      BY <1>1, <2>1, <2>2, <2>3
    <3> HIDE DEF m
    <3>2. Copied(s, p, m)[SlotsAfter(s, p, j + 1)] = p[j + 1]
      BY <1>3, <2>4, <3>1, CopiedId
    <3> QED
      BY <3>1, <3>2 DEF m
  <2>6. a \in Seq(Ids) /\ Len(a) = n
    BY <2>1, CopiedType DEF Ids
  <2>7. b \in Seq(Ids) /\ Len(b) = n + 1
    <3> HIDE DEF n
    <3> QED
      BY <2>1, CopiedType DEF Ids
  <2>8. \A k \in 1..n : b[k] = a[k]
    <3> HIDE DEF n
    <3> QED
      BY <2>1 DEF Copied
  <2> HIDE DEF a, b, n, id
  <2>9. Append(a, id) \in Seq(Ids) /\ Len(Append(a, id)) = n + 1
    BY <2>4, <2>6
  <2>10. \A k \in 1..(n + 1) : b[k] = Append(a, id)[k]
    BY <2>1, <2>5, <2>6, <2>8
  <2>11. b = Append(a, id)
    BY <2>7, <2>9, <2>10
  <2> QED
    BY <2>11 DEF a, b, n, id
<1> QED
  BY <1>2, <1>3

\* What a turn does with an id that is new.
Acc(acc, st, buf, out) == acc = [st |-> st, buf |-> buf, out |-> out]

LEMMA TurnFills ==
    ASSUME NEW r, NEW acc, NEW st, NEW buf, NEW out, NEW id, Acc(acc, st, buf, out),
           ~is_present_paths(st, id), Len(Append(buf, id)) < PathRoom
    PROVE  Acc(Turn(r, acc, id), st, Append(buf, id), out)
<1> DEFINE new == Append(buf, id)
<1>1. acc.st = st /\ acc.buf = buf
  BY DEF Acc
<1>2. [acc EXCEPT !.buf = new] = [st |-> st, buf |-> new, out |-> out]
  <2> HIDE DEF new
  <2> QED
    BY DEF Acc
<1>3. Turn(r, acc, id) = [acc EXCEPT !.buf = new]
  BY <1>1 DEF Turn
<1> HIDE DEF new
<1> QED
  BY <1>2, <1>3 DEF Acc, new

LEMMA TurnFlushes ==
    ASSUME NEW r, NEW acc, NEW st, NEW buf, NEW out, NEW id, Acc(acc, st, buf, out),
           ~is_present_paths(st, id), ~(Len(Append(buf, id)) < PathRoom)
    PROVE  LET fl == flush(r, [st EXCEPT !.paths = Append(buf, id)])
           IN  Acc(Turn(r, acc, id), fl.st, <<>>, out \cup fl.out)
<1>1. acc.st = st /\ acc.buf = buf /\ acc.out = out
  BY DEF Acc
<1>2. Turn(r, acc, id)
        = [st  |-> flush(r, [st EXCEPT !.paths = Append(buf, id)]).st, buf |-> <<>>,
           out |-> out \cup flush(r, [st EXCEPT !.paths = Append(buf, id)]).out]
  BY <1>1 DEF Turn
<1> QED
  BY <1>2 DEF Acc

\* As long as no flush is due, the loop has only filled the buffer.
LEMMA TurnsBeforeFlush ==
    ASSUME NEW r, NEW s \in RelayStates, NEW p \in Seq(Ids)
    PROVE  \A j \in 0..Len(p) : SlotsAfter(s, p, j) < PathRoom =>
              Acc(Turns(r, s, p)[j], s, Copied(s, p, SlotsAfter(s, p, j)), {})
<1> DEFINE t == Turns(r, s, p)
           n(j) == SlotsAfter(s, p, j)
           S == {j \in 0..Len(p) : n(j) < PathRoom => Acc(t[j], s, Copied(s, p, n(j)), {})}
<1>1. Len(p) \in Nat /\ PathRoom \in Nat
  BY SizesAssumption DEF PathRoom
<1>2. 0 \in S
  <2>1. t[0] = Start(s)
    BY TurnsAt
  <2>2. Acc(Start(s), s, Copied(s, p, n(0)), {})
    BY SlotsBefore, CopiedGrows DEF Start, Acc
  <2> HIDE DEF t
  <2> QED
    BY <1>1, <2>1, <2>2
<1>3. ASSUME NEW j \in 0..Len(p), j \in S, j < Len(p) PROVE j + 1 \in S
  <2> DEFINE id == p[j + 1]
             old == Copied(s, p, n(j))
             new == Copied(s, p, n(j + 1))
  <2>1. j \in Nat /\ j + 1 \in 0..Len(p)
    BY <1>1, <1>3
  <2>2. t[j + 1] = Turn(r, t[j], id)
    BY <1>3, <2>1, TurnsAt
  <2>3. n(j + 1) = IF is_present_paths(s, id) THEN n(j) ELSE n(j) + 1
    BY <2>1, SlotsStep
  <2>4. n(j) \in Nat
    BY <2>1, SlotsCount
  <2>5. SUFFICES ASSUME n(j + 1) < PathRoom PROVE Acc(t[j + 1], s, new, {})
    BY <2>1
  <2>6. n(j) < PathRoom
    <3> HIDE DEF n
    <3> QED
      BY <1>1, <2>3, <2>4, <2>5
  <2>7. Acc(t[j], s, old, {})
    BY <1>3, <2>6
  <2>8. CASE is_present_paths(s, id)
    <3>1. Turn(r, t[j], id) = t[j]
      BY <2>7, <2>8 DEF Turn, Acc
    <3>2. new = old
      BY <2>3, <2>8
    <3> HIDE DEF t, old, new
    <3> QED
      BY <2>2, <2>7, <3>1, <3>2
  <2>9. CASE ~is_present_paths(s, id)
    <3>1. n(j + 1) = n(j) + 1
      BY <2>3, <2>9
    <3>2. new = Append(old, id)
      BY <1>3, <2>1, <2>9, <3>1, CopiedGrows
    <3>3. Len(new) = n(j + 1)
      <4>1. n(j + 1) \in Nat
        BY <2>4, <3>1
      <4> HIDE DEF n
      <4> QED
        BY <4>1, CopiedType DEF Ids
    <3> HIDE DEF t, n, old, new, id
    <3>4. Len(Append(old, id)) < PathRoom
      BY <2>5, <3>2, <3>3
    <3>5. Acc(Turn(r, t[j], id), s, Append(old, id), {})
      BY <2>7, <2>9, <3>4, TurnFills
    <3> QED
      BY <2>2, <3>2, <3>5
  <2> QED
    BY <2>8, <2>9
<1> HIDE DEF S
<1>4. \A j \in 0..Len(p) : j \in S
  BY <1>1, <1>2, <1>3, UpTo
<1> QED
  BY <1>4 DEF S

\* The id with which the first flush is due.
FlushAt(s, p) == 1 + Cardinality({j \in 1..Len(p) : SlotsAfter(s, p, j) < PathRoom})

LEMMA FlushDue ==
    ASSUME NEW s \in RelayStates, NEW p \in Seq(Ids), Len(s.paths) < PathRoom,
           SlotsAfter(s, p, Len(p)) >= PathRoom
    PROVE  LET at == FlushAt(s, p)
           IN  /\ at \in 1..Len(p) /\ ~is_present_paths(s, p[at])
               /\ SlotsAfter(s, p, at) = PathRoom /\ SlotsAfter(s, p, at - 1) = PathRoom - 1
<1> DEFINE S == {j \in 0..Len(p) : SlotsAfter(s, p, j) >= PathRoom}
           B == {j \in 1..Len(p) : SlotsAfter(s, p, j) < PathRoom}
<1>1. Len(p) \in Nat /\ PathRoom \in Nat /\ Len(s.paths) \in Nat
  <2>1. Len(p) \in Nat /\ s.paths \in Seq(Ids)
    BY DEF RelayStates, Ids
  <2> QED
    BY <2>1, SizesAssumption DEF PathRoom
<1>2. \A j \in Nat : SlotsAfter(s, p, j) \in Nat
  BY SlotsCount
<1>3. Len(p) \in S /\ S \in SUBSET Nat
  BY <1>1
<1>4. PICK k \in S : \A j \in S : k <= j
  BY <1>3, Least
<1>5. k \in 0..Len(p) /\ SlotsAfter(s, p, k) >= PathRoom /\ k # 0
  BY <1>1, <1>4, SlotsBefore
<1>6. k \in 1..Len(p) /\ k - 1 \in Nat /\ k - 1 \in 0..Len(p) /\ (k - 1) + 1 = k
  BY <1>1, <1>5
<1>7. SlotsAfter(s, p, k - 1) < PathRoom
  <2>1. k - 1 \notin S
    BY <1>4, <1>6
  <2> QED
    BY <1>1, <1>2, <1>6, <2>1
<1>8. SlotsAfter(s, p, (k - 1) + 1) =
         IF is_present_paths(s, p[(k - 1) + 1]) THEN SlotsAfter(s, p, k - 1)
                                                ELSE SlotsAfter(s, p, k - 1) + 1
  BY <1>6, SlotsStep
<1>9. SlotsAfter(s, p, k) =
         IF is_present_paths(s, p[k]) THEN SlotsAfter(s, p, k - 1)
                                      ELSE SlotsAfter(s, p, k - 1) + 1
  BY <1>6, <1>8
<1>10. SlotsAfter(s, p, k - 1) \in Nat
  BY <1>2, <1>6
<1>11. /\ ~is_present_paths(s, p[k]) /\ SlotsAfter(s, p, k) = PathRoom
       /\ SlotsAfter(s, p, k - 1) = PathRoom - 1
  BY <1>1, <1>5, <1>7, <1>9, <1>10
<1>12. B = 1..(k - 1)
  <2>1. ASSUME NEW j \in B PROVE j \in 1..(k - 1)
    <3>1. j \in Nat /\ j \in 1..Len(p) /\ k \in Nat /\ SlotsAfter(s, p, j) < PathRoom
      BY <1>6
    <3>2. k <= j => SlotsAfter(s, p, k) <= SlotsAfter(s, p, j)
      BY <3>1, SlotsMono
    <3> QED
      BY <1>1, <1>2, <1>11, <3>1, <3>2
  <2>2. ASSUME NEW j \in 1..(k - 1) PROVE j \in B
    <3>1. j \in Nat /\ j \in 1..Len(p) /\ j <= k - 1
      BY <1>1, <1>6
    <3>2. SlotsAfter(s, p, j) <= SlotsAfter(s, p, k - 1)
      BY <1>6, <3>1, SlotsMono
    <3> QED
      BY <1>1, <1>2, <1>10, <1>11, <3>1, <3>2
  <2> QED
    BY <2>1, <2>2
<1>13. Cardinality(B) = k - 1
  <2> DEFINE m == k - 1
  <2>1. 1 \in Int /\ m \in Int /\ m >= 0
    BY <1>6
  <2> HIDE DEF m
  <2>2. Cardinality(1..m) = IF 1 > m THEN 0 ELSE m - 1 + 1
    BY <2>1, FS_Interval
  <2>3. Cardinality(1..m) = m
    BY <2>1, <2>2
  <2> HIDE DEF B
  <2> QED
    BY <1>12, <2>3 DEF m
<1>14. FlushAt(s, p) = k
  <2>1. FlushAt(s, p) = 1 + Cardinality(B)
    BY DEF FlushAt
  <2> HIDE DEF B
  <2> QED
    BY <1>6, <1>13, <2>1
<1> QED
  BY <1>6, <1>11, <1>14

\* The first flush sends the closed form of paths, filled to the mark.
LEMMA TurnsAtFlush ==
    ASSUME NEW r, NEW s \in RelayStates, NEW p \in Seq(Ids), Len(s.paths) < PathRoom,
           SlotsAfter(s, p, Len(p)) >= PathRoom
    PROVE  LET fl == flush(r, [s EXCEPT !.paths = Copied(s, p, PathRoom)])
           IN  Acc(Turns(r, s, p)[FlushAt(s, p)], fl.st, <<>>, fl.out)
<1> DEFINE t == Turns(r, s, p)
           at == FlushAt(s, p)
           old == Copied(s, p, PathRoom - 1)
           full == Copied(s, p, PathRoom)
           id == p[at]
           fl == flush(r, [s EXCEPT !.paths = full])
<1>1. /\ at \in 1..Len(p) /\ ~is_present_paths(s, id)
      /\ SlotsAfter(s, p, at) = PathRoom /\ SlotsAfter(s, p, at - 1) = PathRoom - 1
  BY FlushDue
<1> HIDE DEF at
<1>2. Len(p) \in Nat /\ PathRoom \in Nat /\ PathRoom - 1 < PathRoom /\ (PathRoom - 1) + 1 = PathRoom
  BY SizesAssumption DEF PathRoom
<1>3. at - 1 \in Nat /\ at - 1 \in 0..Len(p) /\ at - 1 < Len(p) /\ (at - 1) + 1 = at
  BY <1>1, <1>2
<1>4. Acc(t[at - 1], s, old, {})
  BY <1>1, <1>2, <1>3, TurnsBeforeFlush
<1>5. t[at] = Turn(r, t[at - 1], id)
  <2>1. t[(at - 1) + 1] = Turn(r, t[at - 1], p[(at - 1) + 1])
    BY <1>3, TurnsAt
  <2> QED
    BY <1>3, <2>1
<1>6. full = Append(old, id)
  <2> DEFINE j == at - 1
  <2>1. j \in Nat /\ j < Len(p) /\ p[j + 1] = id /\ ~is_present_paths(s, p[j + 1])
        /\ SlotsAfter(s, p, j) = PathRoom - 1
    BY <1>1, <1>3
  <2> HIDE DEF j
  <2>2. Copied(s, p, SlotsAfter(s, p, j) + 1)
           = Append(Copied(s, p, SlotsAfter(s, p, j)), p[j + 1])
    BY <2>1, CopiedGrows
  <2> QED
    BY <1>2, <2>1, <2>2
<1>7. ~(Len(Append(old, id)) < PathRoom)
  <2>1. Len(full) = PathRoom
    BY <1>2, CopiedType DEF Ids
  <2> HIDE DEF full, old
  <2> QED
    BY <1>2, <1>6, <2>1
<1> HIDE DEF t, old, full, id
<1>8. LET f == flush(r, [s EXCEPT !.paths = Append(old, id)])
      IN  Acc(Turn(r, t[at - 1], id), f.st, <<>>, {} \cup f.out)
  BY <1>1, <1>4, <1>7, TurnFlushes
<1>9. {} \cup fl.out = fl.out
  OBVIOUS
<1> QED
  BY <1>5, <1>6, <1>8, <1>9 DEF t, full, at

LEMMA SubSeqGrows ==
    ASSUME NEW p \in Seq(Ids), NEW a \in Nat, NEW i \in Nat, a + i < Len(p)
    PROVE  LET q == SubSeq(p, a + 1, a + i)
           IN  /\ SubSeq(p, a + 1, a + i + 1) = Append(q, p[a + i + 1])
               /\ Len(Append(q, p[a + i + 1])) = i + 1
<1> DEFINE q == SubSeq(p, a + 1, a + i)
           n == SubSeq(p, a + 1, a + i + 1)
           id == p[a + i + 1]
<1>1. Len(p) \in Nat /\ id \in Ids
  OBVIOUS
<1>2. q \in Seq(Ids) /\ Len(q) = i /\ \A k \in 1..i : q[k] = p[a + k]
  BY <1>1
<1>3. n \in Seq(Ids) /\ Len(n) = i + 1 /\ \A k \in 1..(i + 1) : n[k] = p[a + k]
  BY <1>1
<1>4. n[i + 1] = id
  <2>1. i + 1 \in 1..(i + 1) /\ a + (i + 1) = a + i + 1
    OBVIOUS
  <2> HIDE DEF n
  <2> QED
    BY <1>3, <2>1
<1> HIDE DEF q, n, id
<1>5. Append(q, id) \in Seq(Ids) /\ Len(Append(q, id)) = i + 1
  BY <1>1, <1>2
<1>6. ASSUME NEW k \in 1..(i + 1) PROVE n[k] = Append(q, id)[k]
  <2>1. CASE k \in 1..i
    <3>1. Append(q, id)[k] = q[k]
      BY <1>1, <1>2, <2>1
    <3> QED
      BY <1>2, <1>3, <2>1, <3>1
  <2>2. CASE k = i + 1
    <3>1. Append(q, id)[i + 1] = id
      BY <1>1, <1>2
    <3> QED
      BY <1>4, <2>2, <3>1
  <2>3. k \in 1..i \/ k = i + 1
    OBVIOUS
  <2> QED
    BY <2>1, <2>2, <2>3
<1>7. n = Append(q, id)
  BY <1>3, <1>5, <1>6
<1> QED
  BY <1>5, <1>7 DEF q, n, id

\* After a flush paths_loc is 0: every id is new.
LEMMA TurnsAfterFlush ==
    ASSUME NEW r, NEW s, NEW p \in Seq(Ids), NEW a \in 1..Len(p), NEW st, NEW out,
           st.paths = <<>>, Acc(Turns(r, s, p)[a], st, <<>>, out)
    PROVE  \A j \in a..Len(p) : j - a < PathRoom =>
              Acc(Turns(r, s, p)[j], st, SubSeq(p, a + 1, j), out)
<1> DEFINE t == Turns(r, s, p)
           b(i) == SubSeq(p, a + 1, a + i)
           S == {i \in 0..(Len(p) - a) : i < PathRoom => Acc(t[a + i], st, b(i), out)}
<1>1. Len(p) \in Nat /\ PathRoom \in Nat /\ a \in Nat /\ Len(p) - a \in Nat
  <2>1. Len(p) \in Nat /\ a \in Nat /\ a <= Len(p)
    OBVIOUS
  <2> QED
    BY <2>1, SizesAssumption DEF PathRoom
<1>2. 0 \in S
  <2>1. b(0) = <<>> /\ a + 0 = a
    BY <1>1
  <2> HIDE DEF b, t
  <2> QED
    BY <1>1, <2>1 DEF t
<1>3. ASSUME NEW i \in 0..(Len(p) - a), i \in S, i < Len(p) - a PROVE i + 1 \in S
  <2> DEFINE id == p[a + i + 1]
  <2>1. i \in Nat /\ a + i \in Nat /\ a + i < Len(p) /\ i + 1 \in 0..(Len(p) - a)
        /\ a + (i + 1) = a + i + 1 /\ a + i + 1 <= Len(p)
    BY <1>1, <1>3
  <2>2. SUFFICES ASSUME i + 1 < PathRoom PROVE Acc(t[a + i + 1], st, b(i + 1), out)
    BY <2>1
  <2>3. Acc(t[a + i], st, b(i), out)
    BY <1>1, <1>3, <2>1, <2>2
  <2>4. t[a + i + 1] = Turn(r, t[a + i], id)
    BY <2>1, TurnsAt
  <2>5. b(i + 1) = Append(b(i), id) /\ Len(Append(b(i), id)) = i + 1
    <3>1. a \in Nat /\ i \in Nat /\ a + i < Len(p)
      BY <1>1, <2>1
    <3>2. /\ SubSeq(p, a + 1, a + i + 1) = Append(SubSeq(p, a + 1, a + i), id)
          /\ Len(Append(SubSeq(p, a + 1, a + i), id)) = i + 1
      BY <3>1, SubSeqGrows
    <3>3. b(i + 1) = SubSeq(p, a + 1, a + i + 1)
      BY <2>1
    <3> QED
      BY <3>2, <3>3
  <2>6. ~is_present_paths(st, id)
    BY DEF is_present_paths
  <2> HIDE DEF t, b, id
  <2>7. Len(Append(b(i), id)) < PathRoom
    BY <2>2, <2>5
  <2>8. Acc(Turn(r, t[a + i], id), st, Append(b(i), id), out)
    BY <2>3, <2>6, <2>7, TurnFills
  <2> QED
    BY <2>4, <2>5, <2>8
<1> HIDE DEF S
<1>4. \A i \in 0..(Len(p) - a) : i \in S
  BY <1>1, <1>2, <1>3, UpTo
<1>5. ASSUME NEW j \in a..Len(p), j - a < PathRoom PROVE Acc(t[j], st, SubSeq(p, a + 1, j), out)
  <2>1. j - a \in 0..(Len(p) - a) /\ a + (j - a) = j
    BY <1>1
  <2>2. j - a \in S
    BY <1>4, <2>1
  <2>3. Acc(t[a + (j - a)], st, b(j - a), out)
    BY <1>5, <2>2 DEF S
  <2> QED
    BY <2>1, <2>3
<1> QED
  BY <1>5

Ends(l, st, buf, out) == l = [st |-> [st EXCEPT !.paths = buf], out |-> out]

LEMMA LoopEnds ==
    ASSUME NEW r, NEW s, NEW p, NEW st, NEW buf, NEW out,
           Acc(Turns(r, s, p)[Len(p)], st, buf, out)
    PROVE  Ends(copy_loop(r, s, p), st, buf, out)
<1> DEFINE end == Turns(r, s, p)[Len(p)]
<1>1. end.st = st /\ end.buf = buf /\ end.out = out
  BY DEF Acc
<1>2. copy_loop(r, s, p) = [st |-> [end.st EXCEPT !.paths = end.buf], out |-> end.out]
  BY DEF copy_loop
<1> HIDE DEF end
<1> QED
  BY <1>1, <1>2 DEF Ends

\* For every relay, whatever it holds, and every packet that PathWellFormed
\* admits, copy_paths is what the loop does.
LEMMA CopyLoop ==
    ASSUME NEW r \in Relays, NEW s \in RelayStates, Len(s.paths) < PathRoom,
           NEW p \in Seq(Ids), Len(p) <= PathRoom + 1
    PROVE  copy_loop(r, s, p) = copy_paths(r, s, p)
<1> DEFINE t    == Turns(r, s, p)
           used == SlotsAfter(s, p, Len(p))
           at   == FlushAt(s, p)
           rest == SubSeq(p, at + 1, Len(p))
           in1  == [s EXCEPT !.paths = Copied(s, p, PathRoom)]
           fl1  == flush(r, in1)
           in2  == [fl1.st EXCEPT !.paths = rest]
           fl2  == flush(r, in2)
           none == [s EXCEPT !.paths = Copied(s, p, used)]
           c    == copy_paths(r, s, p)
           l    == copy_loop(r, s, p)
<1>1. Len(p) \in Nat /\ PathRoom \in Nat /\ used \in Nat
  <2>1. Len(p) \in Nat
    OBVIOUS
  <2> QED
    BY <2>1, SlotsCount, SizesAssumption DEF PathRoom
<1>2. c = CASE used < PathRoom -> [st |-> none, out |-> {}]
            [] used >= PathRoom /\ Len(rest) < PathRoom -> [st |-> in2, out |-> fl1.out]
            [] used >= PathRoom /\ Len(rest) >= PathRoom ->
                 [st |-> fl2.st, out |-> fl1.out \cup fl2.out]
  BY DEF copy_paths, FlushAt
<1>3. CASE used < PathRoom
  <2>1. c = [st |-> none, out |-> {}]
    <3> HIDE DEF used, rest, in2, fl1, fl2, none, c
    <3> QED
      BY <1>1, <1>2, <1>3
  <2>2. Acc(t[Len(p)], s, Copied(s, p, used), {})
    BY <1>1, <1>3, TurnsBeforeFlush
  <2>3. l = [st |-> none, out |-> {}]
    <3>1. Ends(l, s, Copied(s, p, used), {})
      BY <2>2, LoopEnds
    <3> QED
      BY <3>1 DEF Ends
  <2> HIDE DEF c, l
  <2> QED
    BY <2>1, <2>3 DEF c, l
<1>4. CASE used >= PathRoom
  <2>1. at \in 1..Len(p)
    BY <1>4, FlushDue
  <2>2. Acc(t[at], fl1.st, <<>>, fl1.out)
    BY <1>4, TurnsAtFlush
  <2>3. fl1.st \in RelayStates /\ fl1.st.paths = <<>>
    <3>1. /\ Copied(s, p, PathRoom) \in Seq(Nodes \cup {0})
          /\ Len(Copied(s, p, PathRoom)) = PathRoom
      BY <1>1, CopiedType DEF Ids
    <3>2. in1 \in RelayStates /\ in1.paths = Copied(s, p, PathRoom)
      BY <3>1, SetPathsType
    <3>3. Len(in1.paths) <= PathRoom
      BY <1>1, <3>1, <3>2
    <3> HIDE DEF in1
    <3> QED
      BY <3>2, <3>3, FlushType
  <2> HIDE DEF at, in1, fl1
  <2>4. rest \in Seq(Ids) /\ Len(rest) = Len(p) - at /\ Len(p) - at \in Nat
        /\ Len(rest) <= PathRoom
    BY <1>1, <2>1
  <2>5. \A j \in at..Len(p) : j - at < PathRoom => Acc(t[j], fl1.st, SubSeq(p, at + 1, j), fl1.out)
    BY <2>1, <2>2, <2>3, TurnsAfterFlush
  <2>6. CASE Len(rest) < PathRoom
    <3>1. c = [st |-> in2, out |-> fl1.out]
      <4> HIDE DEF used, rest, in2, fl2, none, c
      <4> QED
        BY <1>1, <1>2, <1>4, <2>4, <2>6
    <3>2. Acc(t[Len(p)], fl1.st, rest, fl1.out)
      BY <1>1, <2>1, <2>4, <2>5, <2>6
    <3>3. l = [st |-> in2, out |-> fl1.out]
      <4> HIDE DEF rest
      <4>1. Ends(l, fl1.st, rest, fl1.out)
        BY <3>2, LoopEnds
      <4> QED
        BY <4>1 DEF Ends
    <3> HIDE DEF c, l
    <3> QED
      BY <3>1, <3>3 DEF c, l
  <2>7. CASE ~(Len(rest) < PathRoom)
    <3> DEFINE i == PathRoom - 1
               q == SubSeq(p, at + 1, at + i)
               id == p[at + i + 1]
    <3>0. PathRoom >= 1
      BY SizesAssumption DEF PathRoom
    <3>1. Len(rest) = PathRoom /\ i \in Nat /\ at + i < Len(p) /\ at + i + 1 = Len(p)
          /\ at \in Nat /\ at + i \in Nat /\ i + 1 = PathRoom /\ i < PathRoom
          /\ at + i \in at..Len(p) /\ (at + i) - at = i
      <4> HIDE DEF rest
      <4> QED
        BY <1>1, <2>1, <2>4, <2>7, <3>0
    <3>2. c = [st |-> fl2.st, out |-> fl1.out \cup fl2.out]
      <4> HIDE DEF used, rest, in2, fl2, none, c
      <4> QED
        BY <1>1, <1>2, <1>4, <2>4, <2>7
    <3>3. t[Len(p)] = Turn(r, t[at + i], id)
      <4>1. t[at + i + 1] = Turn(r, t[at + i], p[at + i + 1])
        <5> DEFINE k == at + i
        <5>1. k \in Nat /\ k < Len(p)
          BY <3>1
        <5> HIDE DEF k
        <5>2. t[k + 1] = Turn(r, t[k], p[k + 1])
          BY <5>1, TurnsAt
        <5> QED
          BY <5>2 DEF k
      <4> QED
        BY <3>1, <4>1
    <3>4. Acc(t[at + i], fl1.st, q, fl1.out)
      BY <2>5, <3>1
    <3>5. rest = Append(q, id) /\ Len(Append(q, id)) = PathRoom
      <4> HIDE DEF i
      <4>1. SubSeq(p, at + 1, at + i + 1) = Append(q, id) /\ Len(Append(q, id)) = i + 1
        BY <3>1, SubSeqGrows
      <4> QED
        BY <3>1, <4>1
    <3>6. ~is_present_paths(fl1.st, id)
      BY <2>3 DEF is_present_paths
    <3>7. in2 \in RelayStates /\ in2.paths = rest
      BY <2>3, <2>4, SetPathsType DEF Ids
    <3>8. fl2.st \in RelayStates /\ fl2.st.paths = <<>>
      <4> HIDE DEF in2
      <4> QED
        BY <2>4, <3>7, FlushType
    <3> HIDE DEF i, q, id, t, rest
    <3>9. Acc(t[Len(p)], fl2.st, <<>>, fl1.out \cup fl2.out)
      <4>1. ~(Len(Append(q, id)) < PathRoom)
        BY <1>1, <3>5
      <4>2. LET f == flush(r, [fl1.st EXCEPT !.paths = Append(q, id)])
            IN  Acc(Turn(r, t[at + i], id), f.st, <<>>, fl1.out \cup f.out)
        BY <3>4, <3>6, <4>1, TurnFlushes
      <4> QED
        BY <3>3, <3>5, <4>2
    <3>10. l = [st |-> [fl2.st EXCEPT !.paths = <<>>], out |-> fl1.out \cup fl2.out]
      <4> HIDE DEF fl2
      <4>1. Ends(l, fl2.st, <<>>, fl1.out \cup fl2.out)
        BY <3>9, LoopEnds DEF t
      <4> QED
        BY <4>1 DEF Ends
    <3>11. [fl2.st EXCEPT !.paths = <<>>] = fl2.st
      <4> HIDE DEF fl2
      <4> QED
        BY <3>8 DEF RelayStates
    <3> HIDE DEF c, l, fl2
    <3> QED
      BY <3>2, <3>10, <3>11 DEF c, l
  <2> QED
    BY <2>6, <2>7
<1> QED
  BY <1>1, <1>3, <1>4

LEMMA PathsType ==
    ASSUME NEW n \in Nat, NEW q \in Paths(n)
    PROVE  q \in Seq(Ids) /\ Len(q) \in Nat /\ Len(q) <= n
<1>1. PICK k \in 0..n : q \in [1..k -> Relays \cup Clients]
  BY DEF Paths
<1>2. k \in Nat /\ q \in [1..k -> Ids]
  BY <1>1 DEF Ids, Nodes
<1>3. q \in Seq(Ids) /\ Len(q) = k
  BY <1>2
<1> QED
  BY <1>1, <1>3

LEMMA HoldingType ==
    ASSUME NEW s \in RelayStates, NEW q \in Seq(Ids)
    PROVE  Holding(s, q) \in RelayStates /\ Holding(s, q).paths = q
<1> DEFINE sums == <<{0}>>
           a == [s EXCEPT !.checksum_children = sums]
           b == [a EXCEPT !.paths = q]
<1>1. Holding(s, q) = b
  BY DEF Holding
<1>2. sums \in Seq(SUBSET Word)
  BY DEF Word
<1> HIDE DEF sums
<1>3. a \in RelayStates
  BY <1>2 DEF RelayStates
<1> HIDE DEF a
<1> QED
  BY <1>1, <1>3, SetPathsType DEF Ids

\* In every swarm, the closed form that the model steps with leaves the
\* globals and sends the packets that the loop of process_topology_req does,
\* turn by turn: for every packet on its way to a relay, and for everything a
\* relay can hold and a packet can carry.
THEOREM CopiesAsTheLoop == Spec => []CopyIsLoop
<1>1. PathInv => CopyIsLoop
  <2> SUFFICES ASSUME PathInv, NEW r \in Relays
               PROVE  /\ \A d \in TopologyInFlight : d.dst = r =>
                           copy_loop(r, relay[r], d.pkt.path)
                              = copy_paths(r, relay[r], d.pkt.path)
                      /\ \A held \in Paths(PathRoom - 1), path \in Paths(PathRoom + 1) :
                           LET s == Holding(relay[r], held)
                           IN  copy_loop(r, s, path) = copy_paths(r, s, path)
    BY DEF CopyIsLoop
  <2>1. relay[r] \in RelayStates /\ Len(relay[r].paths) < PathRoom
    BY DEF PathInv, RelayOK
  <2>2. PathRoom - 1 \in Nat /\ PathRoom \in Nat /\ PathRoom + 1 \in Nat
    BY SizesAssumption DEF PathRoom
  <2>3. ASSUME NEW d \in TopologyInFlight
        PROVE  copy_loop(r, relay[r], d.pkt.path) = copy_paths(r, relay[r], d.pkt.path)
    <3>1. d.pkt.path \in Seq(Ids) /\ Len(d.pkt.path) <= PathRoom + 1
      BY DEF PathInv, TypeOK, OutOK, TopologyInFlight, Datagrams, TopologyPackets, Ids,
             PARENT_UDP_CHECKSUM_PORT, MCAST_SINK_UDP_PORT, CHECKSUM_PORT
    <3> QED
      BY <2>1, <3>1, CopyLoop
  <2>4. ASSUME NEW held \in Paths(PathRoom - 1), NEW path \in Paths(PathRoom + 1)
        PROVE  copy_loop(r, Holding(relay[r], held), path)
                  = copy_paths(r, Holding(relay[r], held), path)
    <3> DEFINE s == Holding(relay[r], held)
    <3>1. held \in Seq(Ids) /\ Len(held) < PathRoom
      <4>1. held \in Seq(Ids) /\ Len(held) \in Nat /\ Len(held) <= PathRoom - 1
        BY <2>2, PathsType
      <4> QED
        BY <2>2, <4>1
    <3>2. path \in Seq(Ids) /\ Len(path) <= PathRoom + 1
      BY <2>2, PathsType
    <3>3. s \in RelayStates /\ Len(s.paths) < PathRoom
      BY <2>1, <3>1, HoldingType
    <3> HIDE DEF s
    <3>4. copy_loop(r, s, path) = copy_paths(r, s, path)
      BY <3>2, <3>3, CopyLoop
    <3> QED
      BY <3>4 DEF s
  <2> QED
    BY <2>3, <2>4
<1> QED
  BY <1>1, PathInvariant, PTL
=============================================================================
