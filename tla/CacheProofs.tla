----------------------------- MODULE CacheProofs -----------------------------
(***************************************************************************)
(* Proofs about HashRing and DistributedCache, for every set of nodes,     *)
(* number of virtual nodes, size of the ring, hash function, and every     *)
(* capacity and lifetime of the cache.                                     *)
(***************************************************************************)
EXTENDS DistributedCache, MemoryNodeProofs

-----------------------------------------------------------------------------
(* Ranks, sorting and filtering.                                           *)

\* A set of natural numbers has a least one, unless it is empty.
LEMMA LeastNatural ==
    ASSUME NEW S \in SUBSET Nat, NEW n \in S
    PROVE  \E m \in S : \A k \in S : m <= k
<1> DEFINE R == OpToRel(<, Nat)
<1>1. IsWellFoundedOn(R, Nat)
  BY NatLessThanWellFounded
<1>2. \A k, m \in Nat : k < m => <<k, m>> \in R
  BY DEF OpToRel
<1> HIDE DEF R
<1>3. PICK m \in S : \A k \in S : <<k, m>> \notin R
  BY <1>1, WFMin
<1>4. ASSUME NEW k \in S PROVE m <= k
  <2>1. k \in Nat /\ m \in Nat /\ ~(k < m)
    BY <1>2, <1>3
  <2> QED
    BY <2>1
<1> QED
  BY <1>4

\* The elements of I before i in the order R, and how many they are.
Preceding(I, R, i) == {j \in I : <<j, i>> \in R}
RankIn(I, R) == [i \in I |-> Cardinality(Preceding(I, R, i))]

\* In a strict total order R of I, the number of elements before an element
\* tells the elements apart, and grows along the order.
LEMMA OrderRanks ==
    ASSUME NEW I, IsFiniteSet(I), NEW R,
           \A i \in I : <<i, i>> \notin R,
           \A i, j \in I : i = j \/ <<i, j>> \in R \/ <<j, i>> \in R,
           \A i, j, k \in I : <<i, j>> \in R /\ <<j, k>> \in R => <<i, k>> \in R
    PROVE  /\ RankIn(I, R) \in Injection(I, 0 .. Cardinality(I) - 1)
           /\ \A i, j \in I : <<i, j>> \in R => RankIn(I, R)[i] < RankIn(I, R)[j]
<1> DEFINE rank == RankIn(I, R)
<1>1. Cardinality(I) \in Nat
  BY FS_CardinalityType
<1>2. ASSUME NEW i \in I
      PROVE  /\ IsFiniteSet(Preceding(I, R, i)) /\ rank[i] = Cardinality(Preceding(I, R, i))
             /\ rank[i] \in 0 .. Cardinality(I) - 1
  <2>1. Preceding(I, R, i) \subseteq I \ {i}
    BY DEF Preceding
  <2>2. IsFiniteSet(I \ {i}) /\ Cardinality(I \ {i}) = Cardinality(I) - 1
    BY FS_RemoveElement
  <2>3. /\ IsFiniteSet(Preceding(I, R, i))
        /\ Cardinality(Preceding(I, R, i)) <= Cardinality(I) - 1
    BY <2>1, <2>2, FS_Subset
  <2>4. rank[i] = Cardinality(Preceding(I, R, i))
    BY DEF RankIn
  <2> QED
    BY <1>1, <2>3, <2>4, FS_CardinalityType
<1>3. rank \in [I -> 0 .. Cardinality(I) - 1]
  BY <1>2 DEF RankIn
<1> HIDE DEF rank
<1>4. ASSUME NEW i \in I, NEW j \in I, <<i, j>> \in R
      PROVE  rank[i] < rank[j]
  <2>1. Preceding(I, R, i) \subseteq Preceding(I, R, j)
    BY <1>4 DEF Preceding
  <2>2. i \in Preceding(I, R, j) /\ i \notin Preceding(I, R, i)
    BY <1>4 DEF Preceding
  <2>3. rank[i] <= rank[j] /\ rank[i] # rank[j]
    BY <1>2, <2>1, <2>2, FS_Subset
  <2> QED
    BY <1>1, <1>2, <2>3
<1>5. \A i, j \in I : rank[i] = rank[j] => i = j
  <2> SUFFICES ASSUME NEW i \in I, NEW j \in I, rank[i] = rank[j], i # j
               PROVE  FALSE
    OBVIOUS
  <2>1. rank[i] < rank[j] \/ rank[j] < rank[i]
    BY <1>4
  <2>2. rank[i] \in Int /\ rank[j] \in Int
    BY <1>1, <1>3
  <2> QED
    BY <2>1, <2>2
<1> QED
  BY <1>3, <1>4, <1>5 DEF Injection, IsInjective, rank

\* The arrangement of s by a rank without gaps has each element once.
LEMMA ArrangedProperties ==
    ASSUME NEW s, NEW I, IsFiniteSet(I), NEW rank \in Injection(I, 0 .. Cardinality(I) - 1)
    PROVE  /\ DOMAIN Arranged(s, rank) = 1 .. Cardinality(I)
           /\ \A n \in 1 .. Cardinality(I) :
                \E i \in I : rank[i] = n - 1 /\ Arranged(s, rank)[n] = s[i]
           /\ \A i \in I : \E n \in 1 .. Cardinality(I) : Arranged(s, rank)[n] = s[i]
<1> DEFINE ranks == 0 .. Cardinality(I) - 1
<1>1. Cardinality(I) \in Nat
  BY FS_CardinalityType
<1>2. IsFiniteSet(ranks) /\ Cardinality(ranks) = Cardinality(I)
  BY <1>1, FS_Interval
<1>3. rank \in Surjection(I, ranks)
  BY <1>2, FS_Injection
<1>4. DOMAIN rank = I /\ \A i \in I : rank[i] \in ranks
  BY DEF Injection
<1>5. \A i, j \in I : rank[i] = rank[j] => i = j
  BY DEF Injection, IsInjective
<1>6. \A n \in 1 .. Cardinality(I) : n - 1 \in ranks
  BY <1>1
<1>7. ASSUME NEW n \in 1 .. Cardinality(I)
      PROVE  \E i \in I : rank[i] = n - 1 /\ Arranged(s, rank)[n] = s[i]
  <2>1. \E i \in I : rank[i] = n - 1
    BY <1>3, <1>6 DEF Surjection
  <2> DEFINE i == CHOOSE j \in I : rank[j] = n - 1
  <2>2. i \in I /\ rank[i] = n - 1
    BY <2>1
  <2>3. Arranged(s, rank)[n] = s[i]
    BY <1>4 DEF Arranged
  <2> QED
    BY <2>2, <2>3
<1>8. ASSUME NEW i \in I
      PROVE  \E n \in 1 .. Cardinality(I) : Arranged(s, rank)[n] = s[i]
  <2>1. rank[i] + 1 \in 1 .. Cardinality(I) /\ (rank[i] + 1) - 1 = rank[i]
    BY <1>1, <1>4
  <2>2. PICK j \in I : rank[j] = rank[i] /\ Arranged(s, rank)[rank[i] + 1] = s[j]
    BY <1>7, <2>1
  <2> QED
    BY <1>5, <2>1, <2>2
<1> QED
  BY <1>4, <1>7, <1>8 DEF Arranged

\* A part of a sequence keeps the order of the whole.
LEMMA ChosenProperties ==
    ASSUME NEW E, NEW s \in Seq(E), NEW I \in SUBSET DOMAIN s
    PROVE  /\ Chosen(s, I) \in Seq(E) /\ IsFiniteSet(I)
           /\ Len(Chosen(s, I)) = Cardinality(I) /\ Len(Chosen(s, I)) <= Len(s)
           /\ ToSet(Chosen(s, I)) = {s[i] : i \in I}
           /\ \A a, b \in DOMAIN Chosen(s, I) :
                a < b => \E i, j \in I : /\ i < j
                                         /\ Chosen(s, I)[a] = s[i]
                                         /\ Chosen(s, I)[b] = s[j]
<1> DEFINE R == {p \in I \X I : p[1] < p[2]}
           rank == [i \in I |-> Cardinality({j \in I : j < i})]
           t == Chosen(s, I)
           N == Cardinality(I)
<1>1. Len(s) \in Nat /\ DOMAIN s = 1 .. Len(s) /\ \A i \in 1 .. Len(s) : s[i] \in E
  BY LenProperties, ElementOfSeq
<1>2. IsFiniteSet(I) /\ N <= Len(s)
  <2>1. IsFiniteSet(1 .. Len(s)) /\ Cardinality(1 .. Len(s)) = Len(s)
    BY <1>1, FS_Interval
  <2> QED
    BY <1>1, <2>1, FS_Subset
<1>3. N \in Nat
  BY <1>2, FS_CardinalityType
<1>4. \A i, j \in I : <<i, j>> \in R <=> i < j
  OBVIOUS
<1>5. I \subseteq Nat
  BY <1>1
<1>6. /\ \A i \in I : <<i, i>> \notin R
      /\ \A i, j \in I : i = j \/ <<i, j>> \in R \/ <<j, i>> \in R
      /\ \A i, j, k \in I : <<i, j>> \in R /\ <<j, k>> \in R => <<i, k>> \in R
  <2> HIDE DEF R
  <2> QED
    BY <1>4, <1>5
<1>7. rank = RankIn(I, R)
  <2>1. \A i \in I : {j \in I : j < i} = Preceding(I, R, i)
    BY <1>4 DEF Preceding
  <2> QED
    BY <2>1 DEF RankIn
<1>9. t = Arranged(s, rank)
  BY DEF Chosen
<1> HIDE DEF R, rank, t, N
<1>8. /\ rank \in Injection(I, 0 .. N - 1)
      /\ \A i, j \in I : i < j => rank[i] < rank[j]
  BY <1>2, <1>4, <1>6, <1>7, OrderRanks DEF N
<1>10. /\ DOMAIN t = 1 .. N
       /\ \A n \in 1 .. N : \E i \in I : rank[i] = n - 1 /\ t[n] = s[i]
       /\ \A i \in I : \E n \in 1 .. N : t[n] = s[i]
  <2>1. rank \in Injection(I, 0 .. Cardinality(I) - 1)
    BY <1>8 DEF N
  <2>2. /\ DOMAIN Arranged(s, rank) = 1 .. Cardinality(I)
        /\ \A n \in 1 .. Cardinality(I) :
             \E i \in I : rank[i] = n - 1 /\ Arranged(s, rank)[n] = s[i]
        /\ \A i \in I : \E n \in 1 .. Cardinality(I) : Arranged(s, rank)[n] = s[i]
    BY <1>2, <2>1, ArrangedProperties
  <2> QED
    BY <1>9, <2>2 DEF N
<1>11. t \in [1 .. N -> E]
  <2>1. \A n \in 1 .. N : t[n] \in E
    BY <1>1, <1>10
  <2>2. t = [n \in 1 .. N |-> t[n]]
    BY <1>9, <1>10 DEF Arranged
  <2> QED
    BY <2>1, <2>2
<1>12. t \in Seq(E) /\ Len(t) = N
  <2>1. t \in Seq(E)
    BY <1>3, <1>11, SeqDef
  <2> QED
    BY <1>3, <1>10, <2>1, LenProperties
<1>13. ToSet(t) = {s[i] : i \in I}
  <2>1. \A n \in DOMAIN t : \E i \in I : t[n] = s[i]
    BY <1>10
  <2>2. \A i \in I : \E n \in DOMAIN t : t[n] = s[i]
    BY <1>10
  <2> QED
    BY <2>1, <2>2 DEF ToSet
<1>14. ASSUME NEW a \in DOMAIN t, NEW b \in DOMAIN t, a < b
       PROVE  \E i, j \in I : i < j /\ t[a] = s[i] /\ t[b] = s[j]
  <2>1. PICK i \in I : rank[i] = a - 1 /\ t[a] = s[i]
    BY <1>10
  <2>2. PICK j \in I : rank[j] = b - 1 /\ t[b] = s[j]
    BY <1>10
  <2>3. a \in Nat /\ b \in Nat
    <3>1. a \in 1 .. N /\ b \in 1 .. N
      BY <1>10
    <3> QED
      BY <3>1
  <2>4. i \in Nat /\ j \in Nat /\ i # j /\ ~(rank[j] < rank[i])
    BY <1>5, <1>14, <2>1, <2>2, <2>3
  <2>5. i < j
    BY <1>8, <2>4
  <2> QED
    BY <2>1, <2>2, <2>5
<1> QED
  BY <1>2, <1>12, <1>13, <1>14 DEF t, N

\* A sequence without repetitions has as many elements as its set.
LEMMA InjectiveLength ==
    ASSUME NEW E, NEW s \in Seq(E), \A i, j \in DOMAIN s : s[i] = s[j] => i = j
    PROVE  IsFiniteSet(ToSet(s)) /\ Cardinality(ToSet(s)) = Len(s)
<1>1. Len(s) \in Nat /\ DOMAIN s = 1 .. Len(s) /\ s \in [1 .. Len(s) -> ToSet(s)]
  BY LenProperties DEF ToSet
<1>2. s \in Bijection(1 .. Len(s), ToSet(s))
  BY <1>1 DEF Bijection, Injection, Surjection, IsInjective, ToSet
<1>3. IsFiniteSet(1 .. Len(s)) /\ Cardinality(1 .. Len(s)) = Len(s)
  BY <1>1, FS_Interval
<1>4. ExistsBijection(1 .. Len(s), ToSet(s))
  BY <1>2 DEF ExistsBijection
<1> QED
  BY <1>3, <1>4, FS_Bijection

-----------------------------------------------------------------------------
(* The ring.                                                               *)

VnodeSet == [pos : Position, node : NodeId, idx : Index]
VnodesIn(N) == {Vnode(n, i) : n \in N, i \in Index}

\* In any order of adding and removing nodes, the ring is the sorted sequence
\* of their virtual nodes.
RingInv ==
    /\ pos \in [NodeId \X Index -> Position]
    /\ nodes \in Seq(NodeId) /\ \A i, j \in DOMAIN nodes : nodes[i] = nodes[j] => i = j
    /\ ring \in Seq(VnodeSet) /\ ToSet(ring) = VnodesIn(ToSet(nodes))
    /\ \A i, j \in DOMAIN ring : i < j => Before(ring[i], ring[j])

LEMMA VnodeProperties ==
    ASSUME pos \in [NodeId \X Index -> Position], NEW n \in NodeId, NEW i \in Index
    PROVE  Vnode(n, i) \in VnodeSet /\ Vnode(n, i).node = n /\ Vnode(n, i).idx = i
BY DEF Vnode, VnodeSet

LEMMA VnodeNumbers ==
    \A u \in VnodeSet : u.pos \in Int /\ u.node \in Int /\ u.idx \in Int
<1>1. \A u \in VnodeSet : u.pos \in Position /\ u.node \in NodeId /\ u.idx \in Index
  BY DEF VnodeSet
<1>2. \A x \in Position : x \in Int
  BY RingAssumption DEF Position
<1>3. \A x \in Index : x \in Int
  BY RingAssumption DEF Index
<1>4. \A x \in NodeId : x \in Int
  BY RingAssumption
<1> QED
  BY <1>1, <1>2, <1>3, <1>4

\* The order of the ring compares any two virtual nodes.
LEMMA BeforeIsOrder ==
    /\ \A u \in VnodeSet : ~Before(u, u)
    /\ \A u, v \in VnodeSet : u = v \/ Before(u, v) \/ Before(v, u)
    /\ \A u, v, w \in VnodeSet : Before(u, v) /\ Before(v, w) => Before(u, w)
<1>1. \A u \in VnodeSet : u.pos \in Int /\ u.node \in Int /\ u.idx \in Int
  BY VnodeNumbers
<1>2. \A u, v \in VnodeSet : u.pos = v.pos /\ u.node = v.node /\ u.idx = v.idx => u = v
  BY DEF VnodeSet
<1>3. \A u \in VnodeSet : ~Before(u, u)
  BY <1>1 DEF Before
<1>4. \A u, v \in VnodeSet : u = v \/ Before(u, v) \/ Before(v, u)
  BY <1>1, <1>2 DEF Before
<1>5. \A u, v, w \in VnodeSet : Before(u, v) /\ Before(v, w) => Before(u, w)
  BY <1>1 DEF Before
<1> QED
  BY <1>3, <1>4, <1>5

\* Sorting virtual nodes that are all different.
LEMMA SortedProperties ==
    ASSUME NEW s \in Seq(VnodeSet), \A i, j \in DOMAIN s : s[i] = s[j] => i = j
    PROVE  /\ Sorted(s) \in Seq(VnodeSet) /\ ToSet(Sorted(s)) = ToSet(s)
           /\ \A a, b \in DOMAIN Sorted(s) : a < b => Before(Sorted(s)[a], Sorted(s)[b])
<1> DEFINE I == DOMAIN s
           first(j, i) == Before(s[j], s[i]) \/ (~Before(s[i], s[j]) /\ j < i)
           R == {p \in I \X I : Before(s[p[1]], s[p[2]])}
           rank == [i \in I |-> Cardinality({j \in I : first(j, i)})]
           t == Sorted(s)
           N == Cardinality(I)
<1>1. Len(s) \in Nat /\ I = 1 .. Len(s) /\ \A i \in I : s[i] \in VnodeSet
  BY LenProperties, ElementOfSeq
<1>2. IsFiniteSet(I) /\ N \in Nat
  BY <1>1, FS_Interval, FS_CardinalityType
<1>3. \A i, j \in I : <<i, j>> \in R <=> Before(s[i], s[j])
  OBVIOUS
<1>4. \A i, j \in I : first(j, i) <=> <<j, i>> \in R
  <2> SUFFICES ASSUME NEW i \in I, NEW j \in I PROVE first(j, i) <=> Before(s[j], s[i])
    BY <1>3
  <2>1. CASE i = j
    BY <1>1, <2>1
  <2>2. CASE i # j
    BY <1>1, <2>2, BeforeIsOrder
  <2> QED
    BY <2>1, <2>2
<1>5. rank = RankIn(I, R)
  <2>1. \A i \in I : {j \in I : first(j, i)} = Preceding(I, R, i)
    BY <1>4 DEF Preceding
  <2> HIDE DEF first
  <2> QED
    BY <2>1 DEF RankIn
<1>6. t = Arranged(s, rank)
  BY DEF Sorted
<1> HIDE DEF R, rank, t, N, first
<1>7. /\ \A i \in I : <<i, i>> \notin R
      /\ \A i, j \in I : i = j \/ <<i, j>> \in R \/ <<j, i>> \in R
      /\ \A i, j, k \in I : <<i, j>> \in R /\ <<j, k>> \in R => <<i, k>> \in R
  BY <1>1, <1>3, BeforeIsOrder
<1> HIDE DEF I
<1>8. /\ rank \in Injection(I, 0 .. Cardinality(I) - 1)
      /\ \A i, j \in I : <<i, j>> \in R => rank[i] < rank[j]
  BY <1>2, <1>5, <1>7, OrderRanks
<1>9. /\ DOMAIN Arranged(s, rank) = 1 .. Cardinality(I)
      /\ \A n \in 1 .. Cardinality(I) :
           \E i \in I : rank[i] = n - 1 /\ Arranged(s, rank)[n] = s[i]
      /\ \A i \in I : \E n \in 1 .. Cardinality(I) : Arranged(s, rank)[n] = s[i]
  BY <1>2, <1>8, ArrangedProperties
<1>10. /\ DOMAIN t = 1 .. N
       /\ \A n \in DOMAIN t : \E i \in I : rank[i] = n - 1 /\ t[n] = s[i]
       /\ \A i \in I : \E n \in DOMAIN t : t[n] = s[i]
  BY <1>6, <1>9 DEF N
<1>11. ToSet(t) = ToSet(s)
  BY <1>10 DEF ToSet, I
<1>12. t \in Seq(VnodeSet)
  <2>1. \A n \in 1 .. N : t[n] \in VnodeSet
    BY <1>1, <1>10
  <2>2. t = [n \in 1 .. N |-> t[n]]
    BY <1>6, <1>10 DEF Arranged
  <2>3. t \in [1 .. N -> VnodeSet]
    BY <2>1, <2>2
  <2> QED
    BY <1>2, <2>3, SeqDef
<1>13. ASSUME NEW a \in DOMAIN t, NEW b \in DOMAIN t, a < b
       PROVE  Before(t[a], t[b])
  <2>1. PICK i \in I : rank[i] = a - 1 /\ t[a] = s[i]
    BY <1>10
  <2>2. PICK j \in I : rank[j] = b - 1 /\ t[b] = s[j]
    BY <1>10
  <2>3. a \in Int /\ b \in Int
    <3>1. a \in 1 .. N /\ b \in 1 .. N
      BY <1>10
    <3> QED
      BY <3>1
  <2>4. i # j /\ ~(rank[j] < rank[i])
    BY <1>13, <2>1, <2>2, <2>3
  <2>5. <<i, j>> \in R
    BY <1>7, <1>8, <2>4
  <2> QED
    BY <1>3, <2>1, <2>2, <2>5 DEF I
<1> QED
  BY <1>11, <1>12, <1>13 DEF t

LEMMA RingInvInit == RingInit => RingInv
<1> SUFFICES ASSUME RingInit PROVE RingInv
  OBVIOUS
<1>1. nodes = <<>> /\ ring = <<>> /\ pos \in [NodeId \X Index -> Position]
  BY DEF RingInit
<1>2. ToSet(nodes) = {} /\ ToSet(ring) = {}
  BY <1>1 DEF ToSet
<1>3. VnodesIn(ToSet(nodes)) = {}
  BY <1>2 DEF VnodesIn
<1>4. DOMAIN nodes = {} /\ DOMAIN ring = {} /\ nodes \in Seq(NodeId) /\ ring \in Seq(VnodeSet)
  BY <1>1
<1> QED
  BY <1>1, <1>2, <1>3, <1>4 DEF RingInv

\* The virtual nodes of a node that is added are new.
LEMMA AddInv == RingInv /\ (\E n \in NodeId : AddNode(n)) => RingInv'
<1> SUFFICES ASSUME RingInv, NEW n \in NodeId, AddNode(n) PROVE RingInv'
  OBVIOUS
<1> DEFINE s == ring \o VnodesOf(n)
<1>1. /\ pos \in [NodeId \X Index -> Position] /\ pos' = pos
      /\ nodes \in Seq(NodeId) /\ n \notin ToSet(nodes)
      /\ ring \in Seq(VnodeSet) /\ ToSet(ring) = VnodesIn(ToSet(nodes))
      /\ nodes' = Append(nodes, n) /\ ring' = Sorted(s)
  BY DEF RingInv, AddNode
<1>2. /\ Len(nodes) \in Nat /\ DOMAIN nodes = 1 .. Len(nodes)
      /\ Len(ring) \in Nat /\ DOMAIN ring = 1 .. Len(ring) /\ Vnodes \in Nat \ {0}
  BY <1>1, LenProperties, RingAssumption
<1>3. /\ nodes' \in Seq(NodeId) /\ DOMAIN nodes' = 1 .. Len(nodes) + 1
      /\ \A i \in 1 .. Len(nodes) : nodes'[i] = nodes[i]
      /\ nodes'[Len(nodes) + 1] = n
  BY <1>1, <1>2, AppendProperties, LenProperties
<1>4. ToSet(nodes') = ToSet(nodes) \cup {n}
  BY <1>2, <1>3 DEF ToSet
<1>5. \A i, j \in DOMAIN nodes' : nodes'[i] = nodes'[j] => i = j
  <2>1. \A i \in DOMAIN nodes' : i \in DOMAIN nodes \/ i = Len(nodes) + 1
    BY <1>2, <1>3
  <2>2. \A i \in DOMAIN nodes : nodes'[i] = nodes[i] /\ nodes[i] # n
    BY <1>1, <1>2, <1>3 DEF ToSet
  <2> QED
    BY <1>3, <2>1, <2>2 DEF RingInv
<1>6. /\ VnodesOf(n) \in Seq(VnodeSet) /\ Len(VnodesOf(n)) = Vnodes
      /\ \A i \in 1 .. Vnodes : VnodesOf(n)[i] = Vnode(n, i - 1) /\ i - 1 \in Index
  <2>1. \A i \in 1 .. Vnodes : i - 1 \in Index
    BY <1>2 DEF Index
  <2>2. \A i \in 1 .. Vnodes : Vnode(n, i - 1) \in VnodeSet
    BY <1>1, <2>1, VnodeProperties
  <2>3. VnodesOf(n) \in [1 .. Vnodes -> VnodeSet]
    BY <2>2 DEF VnodesOf
  <2>4. VnodesOf(n) \in Seq(VnodeSet)
    BY <1>2, <2>3, SeqDef
  <2>5. Len(VnodesOf(n)) = Vnodes
    BY <1>2, <2>3, <2>4, LenProperties
  <2> QED
    BY <2>1, <2>4, <2>5 DEF VnodesOf
<1>7. /\ s \in Seq(VnodeSet) /\ DOMAIN s = 1 .. Len(ring) + Vnodes
      /\ \A i \in 1 .. Len(ring) : s[i] = ring[i]
      /\ \A i \in Len(ring) + 1 .. Len(ring) + Vnodes :
            s[i] = VnodesOf(n)[i - Len(ring)]
  <2>1. /\ s \in Seq(VnodeSet) /\ Len(s) = Len(ring) + Len(VnodesOf(n))
        /\ \A i \in 1 .. Len(ring) + Len(VnodesOf(n)) :
             s[i] = IF i <= Len(ring) THEN ring[i] ELSE VnodesOf(n)[i - Len(ring)]
    BY <1>1, <1>6, ConcatProperties
  <2>2. DOMAIN s = 1 .. Len(ring) + Vnodes
    BY <1>6, <2>1, LenProperties
  <2> HIDE DEF s
  <2>3. \A i \in 1 .. Len(ring) : i \in 1 .. Len(ring) + Vnodes /\ i <= Len(ring)
    BY <1>2
  <2>4. \A i \in Len(ring) + 1 .. Len(ring) + Vnodes :
           i \in 1 .. Len(ring) + Vnodes /\ ~(i <= Len(ring))
    BY <1>2
  <2> QED
    BY <1>6, <2>1, <2>2, <2>3, <2>4
<1> HIDE DEF s
<1>8. \A i \in DOMAIN s \ DOMAIN ring :
         /\ i - Len(ring) \in 1 .. Vnodes /\ (i - Len(ring)) - 1 \in Index
         /\ s[i] = Vnode(n, (i - Len(ring)) - 1)
  <2> SUFFICES ASSUME NEW i \in DOMAIN s \ DOMAIN ring
               PROVE  /\ i - Len(ring) \in 1 .. Vnodes /\ (i - Len(ring)) - 1 \in Index
                      /\ s[i] = Vnode(n, (i - Len(ring)) - 1)
    OBVIOUS
  <2>1. i \in Len(ring) + 1 .. Len(ring) + Vnodes
    <3>1. i \in 1 .. Len(ring) + Vnodes /\ i \notin 1 .. Len(ring)
      BY <1>2, <1>7
    <3> QED
      BY <1>2, <3>1
  <2>2. i - Len(ring) \in 1 .. Vnodes
    BY <1>2, <2>1
  <2> QED
    BY <1>6, <1>7, <2>1, <2>2
<1>9. \A i \in DOMAIN ring : i \in DOMAIN s /\ s[i] = ring[i]
  BY <1>2, <1>7
<1>10. \A v \in VnodesIn(ToSet(nodes)) : v.node \in ToSet(nodes)
  <2>1. ToSet(nodes) \subseteq NodeId
    BY <1>1, <1>2, ElementOfSeq DEF ToSet
  <2> QED
    BY <1>1, <2>1, VnodeProperties DEF VnodesIn
<1>11. \A i \in DOMAIN ring : s[i].node # n
  BY <1>1, <1>9, <1>10 DEF ToSet
<1>12. \A i \in DOMAIN s \ DOMAIN ring :
          s[i].node = n /\ s[i].idx = (i - Len(ring)) - 1
  BY <1>1, <1>8, VnodeProperties
<1>13. \A i, j \in DOMAIN s : s[i] = s[j] => i = j
  <2> SUFFICES ASSUME NEW i \in DOMAIN s, NEW j \in DOMAIN s, s[i] = s[j] PROVE i = j
    OBVIOUS
  <2>1. CASE i \in DOMAIN ring /\ j \in DOMAIN ring
    <3>1. ring[i] = ring[j] /\ ring[i] \in VnodeSet
      BY <1>1, <1>2, <1>9, <2>1, ElementOfSeq
    <3>2. ~(i < j) /\ ~(j < i)
      BY <2>1, <3>1, BeforeIsOrder DEF RingInv
    <3> QED
      BY <1>2, <2>1, <3>2
  <2>2. CASE i \notin DOMAIN ring /\ j \notin DOMAIN ring
    <3>1. (i - Len(ring)) - 1 = (j - Len(ring)) - 1
      BY <1>12, <2>2
    <3>2. i \in Int /\ j \in Int
      BY <1>2, <1>7
    <3> QED
      BY <1>2, <3>1, <3>2
  <2>3. CASE ~(i \in DOMAIN ring <=> j \in DOMAIN ring)
    BY <1>11, <1>12, <2>3
  <2> QED
    BY <2>1, <2>2, <2>3
<1>14. ToSet(s) = VnodesIn(ToSet(nodes'))
  <2>1. \A i \in DOMAIN s : s[i] \in VnodesIn(ToSet(nodes'))
    <3> SUFFICES ASSUME NEW i \in DOMAIN s PROVE s[i] \in VnodesIn(ToSet(nodes'))
      OBVIOUS
    <3>1. CASE i \in DOMAIN ring
      <4>1. s[i] \in VnodesIn(ToSet(nodes))
        BY <1>1, <1>9, <3>1 DEF ToSet
      <4> QED
        BY <1>4, <4>1 DEF VnodesIn
    <3>2. CASE i \notin DOMAIN ring
      BY <1>4, <1>8, <3>2 DEF VnodesIn
    <3> QED
      BY <3>1, <3>2
  <2>2. ASSUME NEW m \in ToSet(nodes'), NEW k \in Index
        PROVE  \E i \in DOMAIN s : s[i] = Vnode(m, k)
    <3>1. CASE m \in ToSet(nodes)
      <4>1. Vnode(m, k) \in ToSet(ring)
        BY <1>1, <3>1 DEF VnodesIn
      <4> QED
        BY <1>9, <4>1 DEF ToSet
    <3>2. CASE m = n
      <4> DEFINE i == Len(ring) + k + 1
      <4>1. i \in DOMAIN s \ DOMAIN ring /\ (i - Len(ring)) - 1 = k
        BY <1>2, <1>7 DEF Index
      <4> QED
        BY <1>8, <3>2, <4>1
    <3> QED
      BY <1>4, <3>1, <3>2
  <2> QED
    BY <2>1, <2>2 DEF ToSet, VnodesIn
<1>15. /\ ring' \in Seq(VnodeSet) /\ ToSet(ring') = ToSet(s)
       /\ \A a, b \in DOMAIN ring' : a < b => Before(ring'[a], ring'[b])
  <2>1. s \in Seq(VnodeSet)
    BY <1>7
  <2>2. /\ Sorted(s) \in Seq(VnodeSet) /\ ToSet(Sorted(s)) = ToSet(s)
        /\ \A a, b \in DOMAIN Sorted(s) : a < b => Before(Sorted(s)[a], Sorted(s)[b])
    BY <1>13, <2>1, SortedProperties
  <2>3. ring' = Sorted(s)
    BY <1>1
  <2> QED
    BY <2>2, <2>3
<1>16. \A N : VnodesIn(N)' = VnodesIn(N)
  BY <1>1 DEF VnodesIn, Vnode
<1> QED
  BY <1>1, <1>3, <1>5, <1>14, <1>15, <1>16 DEF RingInv

LEMMA RemoveInv == RingInv /\ (\E n \in NodeId : RemoveNode(n)) => RingInv'
<1> SUFFICES ASSUME RingInv, NEW n \in NodeId, RemoveNode(n) PROVE RingInv'
  OBVIOUS
<1> DEFINE I == {i \in DOMAIN nodes : nodes[i] # n}
           K == {i \in DOMAIN ring : ring[i].node # n}
<1>1. /\ pos \in [NodeId \X Index -> Position] /\ pos' = pos
      /\ nodes \in Seq(NodeId) /\ ring \in Seq(VnodeSet)
      /\ ToSet(ring) = VnodesIn(ToSet(nodes))
      /\ nodes' = Chosen(nodes, I) /\ ring' = Chosen(ring, K)
  BY DEF RingInv, RemoveNode, Kept
<1>2. I \in SUBSET DOMAIN nodes /\ K \in SUBSET DOMAIN ring
  OBVIOUS
<1>3. /\ nodes' \in Seq(NodeId) /\ ToSet(nodes') = {nodes[i] : i \in I}
      /\ \A a, b \in DOMAIN nodes' :
           a < b => \E i, j \in I : i < j /\ nodes'[a] = nodes[i] /\ nodes'[b] = nodes[j]
  <2> HIDE DEF I
  <2> QED
    BY <1>1, <1>2, ChosenProperties
<1>4. /\ ring' \in Seq(VnodeSet) /\ ToSet(ring') = {ring[i] : i \in K}
      /\ \A a, b \in DOMAIN ring' :
           a < b => \E i, j \in K : i < j /\ ring'[a] = ring[i] /\ ring'[b] = ring[j]
  <2> HIDE DEF K
  <2> QED
    BY <1>1, <1>2, ChosenProperties
<1>5. ToSet(nodes') = ToSet(nodes) \ {n}
  BY <1>3 DEF ToSet
<1>6. ToSet(ring') = {v \in ToSet(ring) : v.node # n}
  BY <1>4 DEF ToSet
<1>7. ToSet(nodes) \subseteq NodeId
  BY <1>1, LenProperties, ElementOfSeq DEF ToSet
<1>8. {v \in VnodesIn(ToSet(nodes)) : v.node # n} = VnodesIn(ToSet(nodes) \ {n})
  BY <1>1, <1>7, VnodeProperties DEF VnodesIn
<1>9. DOMAIN nodes = 1 .. Len(nodes) /\ DOMAIN nodes' = 1 .. Len(nodes')
  BY <1>1, <1>3, LenProperties
<1>10. \A i, j \in DOMAIN nodes' : nodes'[i] = nodes'[j] => i = j
  <2> SUFFICES ASSUME NEW a \in DOMAIN nodes', NEW b \in DOMAIN nodes', a < b
               PROVE  nodes'[a] # nodes'[b]
    <3>1. \A a, b \in DOMAIN nodes' : a = b \/ a < b \/ b < a
      BY <1>9
    <3> QED
      BY <3>1
  <2>1. PICK i \in I, j \in I : i < j /\ nodes'[a] = nodes[i] /\ nodes'[b] = nodes[j]
    BY <1>3
  <2>2. i # j
    BY <1>9, <2>1
  <2> QED
    BY <2>1, <2>2 DEF RingInv
<1>11. \A i, j \in DOMAIN ring' : i < j => Before(ring'[i], ring'[j])
  BY <1>4 DEF RingInv
<1>12. \A N : VnodesIn(N)' = VnodesIn(N)
  BY <1>1 DEF VnodesIn, Vnode
<1>13. ToSet(ring') = VnodesIn(ToSet(nodes'))
  BY <1>1, <1>5, <1>6, <1>8
<1> QED
  BY <1>1, <1>3, <1>4, <1>10, <1>11, <1>12, <1>13 DEF RingInv

\* Which nodes are on the ring after a step.
LEMMA AddedNodes ==
    ASSUME RingInv, NEW n \in NodeId, AddNode(n)
    PROVE  ToSet(nodes') = ToSet(nodes) \cup {n}
<1>1. Len(nodes) \in Nat /\ DOMAIN nodes = 1 .. Len(nodes) /\ nodes \in Seq(NodeId)
  BY LenProperties DEF RingInv
<1>2. /\ DOMAIN nodes' = 1 .. Len(nodes) + 1
      /\ \A i \in 1 .. Len(nodes) : nodes'[i] = nodes[i]
      /\ nodes'[Len(nodes) + 1] = n
  BY <1>1, AppendProperties, LenProperties DEF AddNode
<1> QED
  BY <1>1, <1>2 DEF ToSet

LEMMA RemovedNodes ==
    ASSUME RingInv, NEW n \in NodeId, RemoveNode(n)
    PROVE  ToSet(nodes') = ToSet(nodes) \ {n}
<1> DEFINE I == {i \in DOMAIN nodes : nodes[i] # n}
<1>1. nodes \in Seq(NodeId) /\ I \in SUBSET DOMAIN nodes /\ nodes' = Chosen(nodes, I)
  BY DEF RingInv, RemoveNode
<1>2. ToSet(nodes') = {nodes[i] : i \in I}
  <2> HIDE DEF I
  <2> QED
    BY <1>1, ChosenProperties
<1> QED
  BY <1>2 DEF ToSet

LEMMA RingInvStep == RingInv /\ [RingNext]_ringVars => RingInv'
<1>1. RingInv /\ UNCHANGED ringVars => RingInv'
  <2> SUFFICES ASSUME RingInv, UNCHANGED ringVars PROVE RingInv'
    OBVIOUS
  <2>1. \A N : VnodesIn(N)' = VnodesIn(N)
    BY DEF VnodesIn, Vnode, ringVars
  <2> QED
    BY <2>1 DEF RingInv, ringVars
<1> QED
  BY <1>1, AddInv, RemoveInv DEF RingNext

\* The distance from h to a position.
LEMMA Distance ==
    ASSUME NEW h \in Position, NEW v \in VnodeSet
    PROVE  /\ v.pos >= h => Clockwise(h, v) = v.pos - h
           /\ ~(v.pos >= h) => Clockwise(h, v) = v.pos - h + Size
           /\ v.pos \in Int /\ v.pos >= 0 /\ v.pos < Size /\ h \in Int /\ h >= 0 /\ h < Size
<1>1. Size \in Nat \ {0} /\ v.pos \in 0 .. Size - 1 /\ h \in 0 .. Size - 1
  BY RingAssumption DEF VnodeSet, Position
<1> DEFINE p == v.pos
<1>2. p \in 0 .. Size - 1 /\ Clockwise(h, v) = (p - h) % Size
  BY <1>1 DEF Clockwise
<1> HIDE DEF p
<1>3. p >= h => (p - h) % Size = p - h
  BY <1>1, <1>2
<1>4. ~(p >= h) => (p - h) % Size = p - h + Size
  BY <1>1, <1>2
<1> QED
  BY <1>1, <1>2, <1>3, <1>4 DEF p

\* The owner is the nearest virtual node of the nodes on the ring.
LEMMA OwnerNearest ==
    ASSUME RingInv, nodes # <<>>, NEW h \in Position
    PROVE  \E v \in Nearest(h, VnodesIn(ToSet(nodes))) : Owner(ring, h) = v.node
<1> DEFINE reached == {i \in DOMAIN ring : ring[i].pos >= h}
           S == VnodesIn(ToSet(nodes))
           near(v, w) == \/ Clockwise(h, v) < Clockwise(h, w)
                         \/ /\ Clockwise(h, v) = Clockwise(h, w)
                            /\ (v.node < w.node \/ (v.node = w.node /\ v.idx <= w.idx))
<1>1. /\ Len(ring) \in Nat /\ DOMAIN ring = 1 .. Len(ring)
      /\ \A i \in DOMAIN ring : ring[i] \in VnodeSet
      /\ ToSet(ring) = S
      /\ \A i, j \in DOMAIN ring : i < j => Before(ring[i], ring[j])
  BY LenProperties, ElementOfSeq DEF RingInv
<1>2. ring # <<>>
  <2>1. 1 \in DOMAIN nodes
    BY LenProperties, EmptySeq DEF RingInv
  <2>2. 0 \in Index
    BY RingAssumption DEF Index
  <2>3. Vnode(nodes[1], 0) \in ToSet(ring)
    <3>1. nodes[1] \in ToSet(nodes)
      BY <2>1 DEF ToSet
    <3>2. Vnode(nodes[1], 0) \in VnodesIn(ToSet(nodes))
      BY <2>2, <3>1 DEF VnodesIn
    <3> QED
      BY <3>2 DEF RingInv
  <2> QED
    BY <2>3 DEF ToSet
<1>3. 1 \in DOMAIN ring
  BY <1>1, <1>2, EmptySeq, LenProperties DEF RingInv
<1>4. ASSUME NEW v \in VnodeSet, NEW w \in VnodeSet,
             v = w \/ Before(v, w), (v.pos >= h <=> w.pos >= h)
      PROVE  near(v, w)
  <2>1. v.node \in Int /\ w.node \in Int /\ v.idx \in Int /\ w.idx \in Int
    BY VnodeNumbers
  <2>2. /\ Clockwise(h, v) \in Int /\ Clockwise(h, w) \in Int
        /\ v.pos < w.pos => Clockwise(h, v) < Clockwise(h, w)
        /\ v.pos = w.pos => Clockwise(h, v) = Clockwise(h, w)
    <3>1. CASE v.pos >= h
      BY <1>4, <3>1, Distance
    <3>2. CASE ~(v.pos >= h)
      BY <1>4, <3>2, Distance, RingAssumption
    <3> QED
      BY <3>1, <3>2
  <2>3. CASE v = w
    BY <2>1, <2>3
  <2>4. CASE Before(v, w)
    BY <2>1, <2>2, <2>4 DEF Before
  <2> QED
    BY <1>4, <2>3, <2>4
<1>5. ASSUME NEW v \in VnodeSet, NEW w \in VnodeSet, v.pos >= h, ~(w.pos >= h)
      PROVE  near(v, w)
  <2>1. Clockwise(h, v) < Clockwise(h, w)
    BY <1>5, Distance, RingAssumption
  <2> QED
    BY <2>1
<1> HIDE DEF near
<1>6. \E i \in DOMAIN ring :
         Lookup(ring, h) = ring[i] /\ \A j \in DOMAIN ring : near(ring[i], ring[j])
  <2>1. CASE reached = {}
    <3>1. Lookup(ring, h) = ring[1]
      BY <2>1 DEF Lookup
    <3>2. ASSUME NEW j \in DOMAIN ring PROVE near(ring[1], ring[j])
      <4>1. 1 = j \/ 1 < j
        BY <1>1
      <4>2. ring[1] = ring[j] \/ Before(ring[1], ring[j])
        BY <1>1, <1>3, <4>1
      <4>3. ~(ring[1].pos >= h) /\ ~(ring[j].pos >= h)
        BY <1>3, <2>1
      <4> QED
        BY <1>1, <1>3, <1>4, <4>2, <4>3
    <3> QED
      BY <1>3, <3>1, <3>2
  <2>2. CASE reached # {}
    <3>1. reached \in SUBSET Nat
      BY <1>1
    <3>2. \E m \in reached : \A k \in reached : m <= k
      BY <2>2, <3>1, LeastNatural
    <3>3. Lookup(ring, h) = ring[Min(reached)]
      BY <2>2 DEF Lookup
    <3> DEFINE i == Min(reached)
    <3> HIDE DEF reached
    <3>4. i \in reached /\ \A k \in reached : i <= k
      BY <3>2 DEF Min
    <3> HIDE DEF i
    <3>5. i \in DOMAIN ring /\ ring[i].pos >= h
      BY <3>4 DEF reached
    <3>6. ASSUME NEW j \in DOMAIN ring PROVE near(ring[i], ring[j])
      <4>1. CASE j \in reached
        <5>1. i = j \/ i < j
          BY <1>1, <3>4, <3>5, <4>1
        <5>2. ring[i] = ring[j] \/ Before(ring[i], ring[j])
          BY <1>1, <3>5, <5>1
        <5>3. ring[j].pos >= h
          BY <4>1 DEF reached
        <5> QED
          BY <1>1, <1>4, <3>5, <5>2, <5>3
      <4>2. CASE j \notin reached
        <5>1. ~(ring[j].pos >= h)
          BY <4>2 DEF reached
        <5> QED
          BY <1>1, <1>5, <3>5, <5>1
      <4> QED
        BY <4>1, <4>2
    <3> QED
      BY <3>3, <3>5, <3>6 DEF i
  <2> QED
    BY <2>1, <2>2
<1>7. PICK i \in DOMAIN ring :
         Lookup(ring, h) = ring[i] /\ \A j \in DOMAIN ring : near(ring[i], ring[j])
  BY <1>6
<1>8. ring[i] \in S /\ \A w \in S : near(ring[i], w)
  BY <1>1, <1>7 DEF ToSet
<1>9. ring[i] \in Nearest(h, S)
  BY <1>8 DEF Nearest, near
<1> QED
  BY <1>2, <1>7, <1>9 DEF Owner

\* All the nearest virtual nodes are of one node.
LEMMA NearestIsUnique ==
    ASSUME RingInv, NEW h \in Position, NEW S \in SUBSET VnodeSet,
           NEW v \in Nearest(h, S), NEW w \in Nearest(h, S)
    PROVE  v.node = w.node
<1>1. v \in VnodeSet /\ w \in VnodeSet
  BY DEF Nearest
<1>2. /\ Clockwise(h, v) \in Int /\ Clockwise(h, w) \in Int
      /\ v.node \in Int /\ w.node \in Int
  <2>1. v.node \in Int /\ w.node \in Int /\ Size \in Int
    BY <1>1, VnodeNumbers, RingAssumption
  <2> QED
    BY <1>1, <2>1, Distance
<1> QED
  BY <1>2 DEF Nearest

LEMMA RingInvariant == RingSpec => []RingInv
BY RingInvInit, RingInvStep, PTL DEF RingSpec

\* The virtual nodes of n nodes are Vnodes times n.
LEMMA RingLength ==
    ASSUME RingInv
    PROVE  Len(ring) = Vnodes * Len(nodes)
<1> DEFINE N == ToSet(nodes)
           f == [p \in N \X Index |-> Vnode(p[1], p[2])]
<1>1. nodes \in Seq(NodeId) /\ IsFiniteSet(N) /\ Cardinality(N) = Len(nodes)
  BY InjectiveLength DEF RingInv
<1>2. IsFiniteSet(Index) /\ Cardinality(Index) = Vnodes /\ Vnodes \in Nat
  BY FS_Interval, RingAssumption DEF Index
<1>3. IsFiniteSet(N \X Index) /\ Cardinality(N \X Index) = Cardinality(N) * Cardinality(Index)
  BY <1>1, <1>2, FS_Product
<1>4. N \subseteq NodeId
  BY <1>1, LenProperties, ElementOfSeq DEF ToSet
<1> HIDE DEF N
<1>5. \A p \in N \X Index : p[1] \in N /\ p[2] \in Index /\ p = <<p[1], p[2]>>
  OBVIOUS
<1>6. \A n \in N, i \in Index :
         <<n, i>> \in N \X Index /\ f[<<n, i>>] = Vnode(n, i)
         /\ Vnode(n, i).node = n /\ Vnode(n, i).idx = i
  BY <1>4, VnodeProperties DEF RingInv
<1> HIDE DEF f
<1>7. f \in Surjection(N \X Index, VnodesIn(N))
  <2>1. f \in [N \X Index -> VnodesIn(N)]
    BY <1>5 DEF f, VnodesIn
  <2>2. ASSUME NEW v \in VnodesIn(N)
        PROVE  \E p \in N \X Index : f[p] = v
    <3>1. PICK n \in N, i \in Index : v = Vnode(n, i)
      BY DEF VnodesIn
    <3>2. <<n, i>> \in N \X Index /\ f[<<n, i>>] = v
      BY <1>6, <3>1
    <3> QED
      BY <3>2
  <2> QED
    BY <2>1, <2>2 DEF Surjection
<1>8. f \in Injection(N \X Index, VnodesIn(N))
  <2>1. \A p, q \in N \X Index : f[p] = f[q] => p = q
    BY <1>5, <1>6
  <2>2. DOMAIN f = N \X Index /\ f \in [N \X Index -> VnodesIn(N)]
    BY <1>7 DEF Surjection
  <2> QED
    BY <2>1, <2>2 DEF Injection, IsInjective
<1>9. Cardinality(VnodesIn(N)) = Cardinality(N \X Index)
  <2>1. ExistsBijection(N \X Index, VnodesIn(N))
    BY <1>7, <1>8 DEF ExistsBijection, Bijection
  <2> QED
    BY <1>3, <2>1, FS_Bijection
<1>10. Cardinality(ToSet(ring)) = Len(ring)
  <2>1. ring \in Seq(VnodeSet) /\ DOMAIN ring = 1 .. Len(ring)
    BY LenProperties DEF RingInv
  <2>2. ASSUME NEW i \in DOMAIN ring, NEW j \in DOMAIN ring, ring[i] = ring[j]
        PROVE  i = j
    <3>1. ring[i] \in VnodeSet
      BY <2>1, ElementOfSeq
    <3>2. ~(i < j) /\ ~(j < i)
      BY <2>2, <3>1, BeforeIsOrder DEF RingInv
    <3> QED
      BY <2>1, <3>2
  <2> QED
    BY <2>1, <2>2, InjectiveLength
<1>11. Len(ring) = Len(nodes) * Vnodes
  BY <1>1, <1>2, <1>3, <1>9, <1>10 DEF RingInv, N
<1>12. Len(nodes) \in Nat
  BY <1>1, LenProperties
<1> QED
  BY <1>2, <1>11, <1>12

\* The ring holds each virtual node of its nodes once and sorted, whatever
\* nodes were added and removed in whatever order (Add and Remove, ring.go),
\* so that the binary search of lookupHash finds what it looks for.
THEOREM RingStaysSorted == RingSpec => []RingTypeOK
<1>1. RingInv => RingTypeOK
  <2> SUFFICES ASSUME RingInv PROVE RingTypeOK
    OBVIOUS
  <2>1. ToSet(nodes) \subseteq NodeId
    BY LenProperties, ElementOfSeq DEF RingInv, ToSet
  <2>2. IsInjective(nodes)
    BY DEF RingInv, IsInjective
  <2>3. \A i \in 1 .. Len(ring) - 1 : ring[i].pos <= ring[i + 1].pos
    <3> SUFFICES ASSUME NEW i \in 1 .. Len(ring) - 1
                 PROVE  ring[i].pos <= ring[i + 1].pos
      OBVIOUS
    <3>1. /\ DOMAIN ring = 1 .. Len(ring) /\ Len(ring) \in Nat
          /\ \A j \in DOMAIN ring : ring[j] \in VnodeSet
      BY LenProperties, ElementOfSeq DEF RingInv
    <3>2. i \in DOMAIN ring /\ i + 1 \in DOMAIN ring /\ i < i + 1
      BY <3>1
    <3>3. Before(ring[i], ring[i + 1])
      BY <3>2 DEF RingInv
    <3> QED
      BY <3>1, <3>2, <3>3, VnodeNumbers DEF Before
  <2> QED
    BY <2>1, <2>2, <2>3, RingLength DEF RingTypeOK, RingInv, VnodesIn
<1> QED
  BY <1>1, RingInvariant, PTL

\* The owner of a key is the nearest virtual node clockwise, the least of
\* those at one position: it follows from the set of nodes alone, not from
\* the order in which they came (sortRing and lookupHash, ring.go).
THEOREM OwnerFollowsFromNodes == RingSpec => []OwnerIsNearest
<1>1. RingInv => OwnerIsNearest
  <2> SUFFICES ASSUME RingInv, nodes # <<>>, NEW h \in Position,
                      NEW v \in Nearest(h, VnodesIn(ToSet(nodes)))
               PROVE  Owner(ring, h) = v.node
    BY DEF OwnerIsNearest, VnodesIn
  <2>1. PICK w \in Nearest(h, VnodesIn(ToSet(nodes))) : Owner(ring, h) = w.node
    BY OwnerNearest
  <2>2. VnodesIn(ToSet(nodes)) \in SUBSET VnodeSet
    <3>1. ToSet(ring) \subseteq VnodeSet
      BY LenProperties, ElementOfSeq DEF RingInv, ToSet
    <3> QED
      BY <3>1 DEF RingInv
  <2> QED
    BY <2>1, <2>2, NearestIsUnique
<1> QED
  BY <1>1, RingInvariant, PTL

\* The owner of a position is the nearest among the nodes, or none if there
\* are no nodes.
OwnerOK(h) ==
    \/ ToSet(nodes) = {} /\ Owner(ring, h) = None
    \/ /\ Owner(ring, h) \in ToSet(nodes)
       /\ \E v \in Nearest(h, VnodesIn(ToSet(nodes))) : Owner(ring, h) = v.node

OwnersOK ==
    /\ ToSet(nodes) \subseteq NodeId /\ VnodesIn(ToSet(nodes)) \in SUBSET VnodeSet
    /\ \A h \in Position : OwnerOK(h)

LEMMA OwnersAmongNodes == RingInv => OwnersOK
<1> SUFFICES ASSUME RingInv, NEW h \in Position
             PROVE  /\ ToSet(nodes) \subseteq NodeId
                    /\ VnodesIn(ToSet(nodes)) \in SUBSET VnodeSet /\ OwnerOK(h)
  BY RingAssumption DEF OwnersOK, Position
<1>1. ToSet(nodes) \subseteq NodeId /\ VnodesIn(ToSet(nodes)) \in SUBSET VnodeSet
  <2>1. ToSet(ring) \subseteq VnodeSet /\ ToSet(nodes) \subseteq NodeId
    BY LenProperties, ElementOfSeq DEF RingInv, ToSet
  <2> QED
    BY <2>1 DEF RingInv
<1>2. CASE nodes = <<>>
  <2>1. ToSet(nodes) = {} /\ VnodesIn(ToSet(nodes)) = {}
    BY <1>2 DEF ToSet, VnodesIn
  <2>2. ring = <<>>
    <3>0. ToSet(ring) = {}
      BY <2>1 DEF RingInv
    <3>1. DOMAIN ring = {}
      BY <3>0 DEF ToSet
    <3> QED
      BY <3>1, LenProperties, EmptySeq DEF RingInv
  <2> QED
    BY <1>1, <2>1, <2>2 DEF Owner, OwnerOK
<1>3. CASE nodes # <<>>
  <2>1. PICK v \in Nearest(h, VnodesIn(ToSet(nodes))) : Owner(ring, h) = v.node
    BY <1>3, OwnerNearest
  <2>2. v \in VnodesIn(ToSet(nodes))
    BY DEF Nearest
  <2>3. v.node \in ToSet(nodes)
    BY <1>1, <2>2, VnodeProperties DEF VnodesIn, RingInv
  <2> QED
    BY <1>1, <2>1, <2>3 DEF OwnerOK
<1> QED
  BY <1>2, <1>3

\* Adding a node only moves keys to it, and removing a node only moves keys
\* away from it: no key moves between two nodes that stay (Add and Remove,
\* ring.go).
THEOREM FewKeysMove == RingSpec => MinimalDisruption
<1> DEFINE Moves(was, is, old, new) == is # was => was \notin new \/ is \notin old
<1>1. ASSUME RingInv, OwnersOK, OwnersOK', RingNext, NEW h \in Position
      PROVE  Moves(Owner(ring, h), Owner(ring', h), ToSet(nodes), ToSet(nodes'))
  <2> DEFINE was == Owner(ring, h)
             is == Owner(ring', h)
             A == ToSet(nodes)
             B == ToSet(nodes')
             S == VnodesIn(A)
             T == VnodesIn(B)
  <2> SUFFICES Moves(was, is, A, B)
    OBVIOUS
  <2>1. \A N : VnodesIn(N)' = VnodesIn(N)
    <3>1. pos' = pos
      BY <1>1 DEF RingNext, AddNode, RemoveNode
    <3> QED
      BY <3>1 DEF VnodesIn, Vnode
  <2>2. /\ A \subseteq NodeId /\ S \in SUBSET VnodeSet
        /\ \/ A = {} /\ was = None
           \/ was \in A /\ \E v \in Nearest(h, S) : was = v.node
    BY <1>1 DEF OwnersOK, OwnerOK
  <2>3. /\ B \subseteq NodeId /\ T \in SUBSET VnodeSet
        /\ \/ B = {} /\ is = None
           \/ is \in B /\ \E v \in Nearest(h, T) : is = v.node
    BY <1>1, <2>1 DEF OwnersOK, OwnerOK
  <2>4. None \notin NodeId
    BY RingAssumption DEF None
  <2> HIDE DEF was, is, A, B
  <2>5. ASSUME NEW X \in SUBSET VnodeSet, NEW Y \in SUBSET X,
               NEW x \in Nearest(h, X), NEW y \in Nearest(h, Y), x \in Y
        PROVE  x.node = y.node
    <3>1. x \in Nearest(h, Y)
      BY <2>5 DEF Nearest
    <3>2. Y \in SUBSET VnodeSet
      OBVIOUS
    <3> QED
      BY <1>1, <3>1, <3>2, NearestIsUnique
  <2>6. CASE A \subseteq B
    <3>1. S \subseteq T
      BY <2>6 DEF VnodesIn
    <3> SUFFICES ASSUME is # was, is \in A, was \in B PROVE FALSE
      OBVIOUS
    <3>2. PICK v \in Nearest(h, S) : was = v.node
      BY <2>2
    <3>3. PICK w \in Nearest(h, T) : is = w.node
      BY <2>2, <2>3, <2>4
    <3>4. w \in S
      <4>1. PICK n \in B, i \in Index : w = Vnode(n, i)
        BY DEF Nearest, VnodesIn
      <4>2. n = is
        BY <1>1, <2>3, <3>3, <4>1, VnodeProperties DEF RingInv
      <4> QED
        BY <4>1, <4>2 DEF VnodesIn
    <3> QED
      BY <2>3, <2>5, <3>1, <3>2, <3>3, <3>4
  <2>7. CASE B \subseteq A
    <3>1. T \subseteq S
      BY <2>7 DEF VnodesIn
    <3> SUFFICES ASSUME is # was, is \in A, was \in B PROVE FALSE
      OBVIOUS
    <3>2. PICK v \in Nearest(h, S) : was = v.node
      BY <2>2, <2>3, <2>4
    <3>3. PICK w \in Nearest(h, T) : is = w.node
      BY <2>3
    <3>4. v \in T
      <4>1. PICK n \in A, i \in Index : v = Vnode(n, i)
        BY DEF Nearest, VnodesIn
      <4>2. n = was
        BY <1>1, <2>2, <3>2, <4>1, VnodeProperties DEF RingInv
      <4> QED
        BY <4>1, <4>2 DEF VnodesIn
    <3> QED
      BY <2>2, <2>5, <3>1, <3>2, <3>3, <3>4
  <2>8. A \subseteq B \/ B \subseteq A
    <3>1. ASSUME NEW n \in NodeId, AddNode(n) PROVE A \subseteq B
      BY <1>1, <3>1, AddedNodes DEF A, B
    <3>2. ASSUME NEW n \in NodeId, RemoveNode(n) PROVE B \subseteq A
      BY <1>1, <3>2, RemovedNodes DEF A, B
    <3> QED
      BY <1>1, <3>1, <3>2 DEF RingNext
  <2> QED
    BY <2>6, <2>7, <2>8 DEF was, is, A, B
<1>2. RingInv /\ OwnersOK /\ OwnersOK' /\ [RingNext]_ringVars =>
        [\A h \in Position :
           LET was == Owner(ring, h)
               is == Owner(ring', h)
           IN  is # was => was \notin ToSet(nodes') \/ is \notin ToSet(nodes)]_ringVars
  BY <1>1
<1> QED
  BY <1>2, RingInvariant, OwnersAmongNodes, PTL DEF RingSpec, MinimalDisruption

-----------------------------------------------------------------------------
(* The cache: the inductive invariant.                                     *)

Item == [key : Key, val : Value, left : -1 .. TTL]
Writing == [node : NodeId, key : Key, val : Value]

\* What is outside the cache of a process that is down.
ProcessOK ==
    /\ backend \in {"memory", "redis"} /\ up \in BOOLEAN /\ pending \subseteq Key
    /\ ~up => pending = {}
    /\ ~up /\ backend = "memory" =>
         (\A n \in NodeId : cache[n] = <<>>) /\ (\A r \in Request : write[r] = NoWrite)

\* An entry e of node n.  A stale one that nobody is about to invalidate is
\* there for a reason, and so is one that its key is not routed to.
EntryGood(n, e) ==
    /\ backend = "redis" => e.left >= 0
    /\ backend = "memory" => e.val.fault \in {"none", "late"}
    /\ up /\ n # Route(e.key) => e.val.fault = "outlived"
    /\ up /\ e.val.stale /\ e.key \notin pending => e.val.fault # "none"

NodeGood(n, s) ==
    /\ s \in Seq(Item) /\ OneEach(s)
    /\ backend = "memory" => Len(s) <= MaxKeys
    /\ \A e \in ToSet(s) : EntryGood(n, e)

\* A write under way.
WriteGood(w) ==
    w # NoWrite =>
        /\ w \in Writing
        /\ backend = "memory" => w.val.fault \in {"none", "late"}
        /\ up /\ w.node # Route(w.key) => w.val.fault = "outlived"

CacheGood ==
    /\ cache = [n \in NodeId |-> cache[n]] /\ \A n \in NodeId : NodeGood(n, cache[n])
    /\ write = [r \in Request |-> write[r]] /\ \A r \in Request : WriteGood(write[r])

CacheInv == RingInv /\ ProcessOK /\ CacheGood

-----------------------------------------------------------------------------
(* Steps that leave the process and the ring alone.                        *)

LEMMA RouteProperties ==
    ASSUME RingInv, NEW k \in Key
    PROVE  Route(k) \in NodeId \/ Route(k) = None
<1>1. Hash[k] \in Position
  BY CacheAssumption
<1> QED
  BY <1>1, OwnersAmongNodes DEF OwnersOK, OwnerOK, Route

LEMMA NoWriteIsNone ==
    \A w \in Writing : w # NoWrite
BY RingAssumption DEF Writing, NoWrite, None

LEMMA SameProcess ==
    UNCHANGED <<ringVars, backend, up, pending>> =>
        /\ RingInv => RingInv'
        /\ \A k : Route(k)' = Route(k)
        /\ \A n, e : EntryGood(n, e)' <=> EntryGood(n, e)
        /\ \A n, s : NodeGood(n, s)' <=> NodeGood(n, s)
        /\ \A w : WriteGood(w)' <=> WriteGood(w)
<1> SUFFICES ASSUME UNCHANGED <<ringVars, backend, up, pending>>
             PROVE  /\ RingInv => RingInv'
                    /\ \A k : Route(k)' = Route(k)
                    /\ \A n, e : EntryGood(n, e)' <=> EntryGood(n, e)
                    /\ \A n, s : NodeGood(n, s)' <=> NodeGood(n, s)
                    /\ \A w : WriteGood(w)' <=> WriteGood(w)
  OBVIOUS
<1>1. RingInv => RingInv'
  BY RingInvStep
<1>2. \A k : Route(k)' = Route(k)
  BY DEF Route, ringVars
<1>3. \A n, e : EntryGood(n, e)' <=> EntryGood(n, e)
  BY <1>2 DEF EntryGood
<1>4. \A n, s : NodeGood(n, s)' <=> NodeGood(n, s)
  BY <1>3 DEF NodeGood
<1>5. \A w : WriteGood(w)' <=> WriteGood(w)
  BY <1>2 DEF WriteGood
<1> QED
  BY <1>1, <1>2, <1>3, <1>4, <1>5

\* A step of the running process, or of Redis, that changes nodes and writes.
LEMMA CacheStep ==
    ASSUME CacheInv, UNCHANGED <<ringVars, backend, up, pending>>,
           up \/ backend = "redis",
           cache' = [n \in NodeId |-> cache'[n]], write' = [r \in Request |-> write'[r]],
           \A n \in NodeId : NodeGood(n, cache'[n]),
           \A r \in Request : WriteGood(write'[r])
    PROVE  CacheInv'
<1>1. RingInv' /\ CacheGood'
  BY SameProcess DEF CacheInv, CacheGood
<1>2. ProcessOK'
  BY DEF CacheInv, ProcessOK
<1> QED
  BY <1>1, <1>2 DEF CacheInv

LEMMA GetInv == CacheInv /\ (\E r \in Request, k \in Key : Get(r, k)) => CacheInv'
<1> SUFFICES ASSUME CacheInv, NEW r \in Request, NEW k \in Key, Get(r, k) PROVE CacheInv'
  OBVIOUS
<1> DEFINE w == [node |-> Route(k), key |-> k, val |-> Current]
<1>1. Route(k) \in NodeId /\ up /\ UNCHANGED <<ringVars, backend, up, pending>>
  BY RouteProperties DEF CacheInv, Get
<1>2. /\ cache = [n \in NodeId |-> cache[n]] /\ \A n \in NodeId : NodeGood(n, cache[n])
      /\ write = [x \in Request |-> write[x]] /\ \A x \in Request : WriteGood(write[x])
  BY DEF CacheInv, CacheGood
<1>3. WriteGood(w)
  <2>1. w \in Writing /\ w.node = Route(w.key) /\ w.val.fault = "none"
    BY <1>1 DEF Writing, Current, Value
  <2> HIDE DEF w
  <2> QED
    BY <2>1 DEF WriteGood
<1>4. write' = write \/ write' = [write EXCEPT ![r] = w]
  BY DEF Get, Missed
<1> HIDE DEF w
<1>5. write' = [x \in Request |-> write'[x]] /\ \A x \in Request : WriteGood(write'[x])
  BY <1>2, <1>3, <1>4
<1>6. CASE cache' = cache
  BY <1>1, <1>2, <1>5, <1>6, CacheStep
<1>7. CASE cache' = [cache EXCEPT ![Route(k)] = AfterGet(@, k)]
  <2> DEFINE n == Route(k)
             s == AfterGet(cache[n], k)
  <2>1. NodeGood(n, cache[n])
    BY <1>1, <1>2
  <2>2. /\ s \in Seq(Item) /\ OneEach(s) /\ Len(s) <= Len(cache[n])
        /\ ToSet(s) \subseteq ToSet(cache[n])
    BY <2>1, AfterGetProperties DEF NodeGood
  <2>3. NodeGood(n, s)
    <3>1. Len(s) \in Nat /\ Len(cache[n]) \in Nat
      BY <2>1, <2>2, LenProperties DEF NodeGood
    <3> HIDE DEF s, n
    <3> QED
      BY <2>1, <2>2, <3>1, NodeAssumption DEF NodeGood
  <2>4. cache' = [cache EXCEPT ![n] = s]
    BY <1>7
  <2> HIDE DEF s, n
  <2>5. cache' = [m \in NodeId |-> cache'[m]] /\ \A m \in NodeId : NodeGood(m, cache'[m])
    BY <1>2, <2>3, <2>4
  <2> QED
    BY <1>1, <1>5, <2>5, CacheStep
<1> QED
  BY <1>6, <1>7 DEF Get

\* One node changes.
LEMMA OneNode ==
    ASSUME CacheInv, UNCHANGED <<ringVars, backend, up, pending>>,
           up \/ backend = "redis",
           NEW n, NEW s, cache' = [cache EXCEPT ![n] = s], n \in NodeId => NodeGood(n, s),
           write' = [r \in Request |-> write'[r]], \A r \in Request : WriteGood(write'[r])
    PROVE  CacheInv'
<1>1. cache = [m \in NodeId |-> cache[m]] /\ \A m \in NodeId : NodeGood(m, cache[m])
  BY DEF CacheInv, CacheGood
<1>2. cache' = [m \in NodeId |-> cache'[m]] /\ \A m \in NodeId : NodeGood(m, cache'[m])
  BY <1>1
<1> QED
  BY <1>2, CacheStep

\* A write that is under way: the process runs, or it is one to Redis.
LEMMA WriteUnderWay ==
    ASSUME CacheInv, NEW r \in Request, write[r] # NoWrite
    PROVE  /\ write[r] \in Writing /\ WriteGood(write[r])
           /\ up \/ backend = "redis"
BY DEF CacheInv, CacheGood, ProcessOK, WriteGood

LEMMA NoWriteGood ==
    ASSUME CacheInv, NEW r \in Request,
           write' = write \/ write' = [write EXCEPT ![r] = NoWrite]
    PROVE  write' = [x \in Request |-> write'[x]] /\ \A x \in Request : WriteGood(write'[x])
<1>1. WriteGood(NoWrite)
  BY DEF WriteGood
<1> QED
  BY <1>1 DEF CacheInv, CacheGood

\* What a write leaves in the node is good: a stale value is late.
LEMMA SetArrivesInv == CacheInv /\ (\E r \in Request : SetArrives(r)) => CacheInv'
<1> SUFFICES ASSUME CacheInv, NEW r \in Request, SetArrives(r) PROVE CacheInv'
  OBVIOUS
<1> DEFINE w == write[r]
           v == IF w.val.stale /\ w.val.fault = "none" THEN [w.val EXCEPT !.fault = "late"]
                                                      ELSE w.val
           n == w.node
           k == w.key
           e == NewEntry(k, v)
           s == IF backend = "memory" THEN AfterSet(cache[n], k, v)
                                      ELSE RedisSet(cache[n], k, v)
<1>1. /\ w \in Writing /\ WriteGood(w) /\ w # NoWrite /\ (up \/ backend = "redis")
      /\ UNCHANGED <<ringVars, backend, up, pending>>
  BY WriteUnderWay DEF SetArrives
<1>2. n \in NodeId /\ k \in Key /\ w.val \in Value
  BY <1>1 DEF Writing
<1>3. /\ v \in Value /\ v.fault = (IF w.val.stale /\ w.val.fault = "none" THEN "late"
                                                                    ELSE w.val.fault)
      /\ v.stale = w.val.stale
  BY <1>2 DEF Value
<1>4. cache' = [cache EXCEPT ![n] = s]
  BY DEF SetArrives
<1> HIDE DEF v
<1>5. e \in Item /\ e.key = k /\ e.val = v /\ e.left >= 0
  BY <1>2, <1>3, NodeAssumption DEF NewEntry, Item
<1>6. EntryGood(n, e)
  <2>1. backend = "memory" => w.val.fault \in {"none", "late"}
    BY <1>1 DEF WriteGood
  <2>2. up /\ n # Route(k) => w.val.fault = "outlived"
    BY <1>1 DEF WriteGood
  <2> QED
    BY <1>3, <1>5, <2>1, <2>2 DEF EntryGood
<1>7. NodeGood(n, cache[n])
  BY <1>2 DEF CacheInv, CacheGood
<1>8. NodeGood(n, s)
  <2>1. CASE backend = "memory"
    <3>1. s = AfterSet(cache[n], k, v)
      BY <2>1
    <3>2. /\ s \in Seq(Item) /\ OneEach(s) /\ Len(s) <= MaxKeys
          /\ ToSet(s) \subseteq {e} \cup {f \in ToSet(cache[n]) : f.key # k}
      BY <1>5, <1>7, <3>1, AfterSetProperties DEF NodeGood
    <3> HIDE DEF s
    <3> QED
      BY <1>6, <1>7, <3>2 DEF NodeGood
  <2>2. CASE backend # "memory"
    <3>1. s = <<e>> \o Without(cache[n], e.key)
      BY <1>5, <2>2 DEF RedisSet
    <3> HIDE DEF e, s
    <3>2. /\ s \in Seq(Item) /\ OneEach(s)
          /\ ToSet(s) = {e} \cup {f \in ToSet(cache[n]) : f.key # e.key}
      BY <1>5, <1>7, <3>1, ReplaceProperties DEF NodeGood
    <3> QED
      BY <1>6, <1>7, <2>2, <3>2 DEF NodeGood
  <2> QED
    BY <2>1, <2>2
<1>9. write' = [x \in Request |-> write'[x]] /\ \A x \in Request : WriteGood(write'[x])
  BY NoWriteGood DEF SetArrives
<1> HIDE DEF s, n
<1> QED
  BY <1>1, <1>4, <1>8, <1>9, OneNode

LEMMA SetFailsInv == CacheInv /\ (\E r \in Request : SetFails(r)) => CacheInv'
<1> SUFFICES ASSUME CacheInv, NEW r \in Request, SetFails(r) PROVE CacheInv'
  OBVIOUS
<1>1. write' = [x \in Request |-> write'[x]] /\ \A x \in Request : WriteGood(write'[x])
  BY NoWriteGood DEF SetFails
<1>2. cache' = [m \in NodeId |-> cache'[m]] /\ \A m \in NodeId : NodeGood(m, cache'[m])
  BY DEF CacheInv, CacheGood, SetFails
<1>3. backend = "redis" /\ UNCHANGED <<ringVars, backend, up, pending>>
  BY DEF SetFails
<1> QED
  BY <1>1, <1>2, <1>3, CacheStep

\* A node without the entry of a key, or some of its entries, stays good.
LEMMA WithoutGood ==
    ASSUME NEW n, NEW s, NodeGood(n, s), NEW k
    PROVE  NodeGood(n, Without(s, k))
<1>1. s \in Seq(Item) /\ OneEach(s)
  BY DEF NodeGood
<1>2. /\ Without(s, k) \in Seq(Item) /\ OneEach(Without(s, k))
      /\ Len(Without(s, k)) = Len(s) - (IF k \in Keys(s) THEN 1 ELSE 0)
      /\ ToSet(Without(s, k)) = {e \in ToSet(s) : e.key # k}
  BY <1>1, WithoutProperties
<1>3. Len(s) \in Nat /\ Len(Without(s, k)) \in Nat
  BY <1>1, <1>2, LenProperties
<1>4. Len(Without(s, k)) <= Len(s)
  <2>1. CASE k \in Keys(s)
    BY <1>2, <1>3, <2>1
  <2>2. CASE k \notin Keys(s)
    BY <1>2, <1>3, <2>2
  <2> QED
    BY <2>1, <2>2
<1> QED
  BY <1>2, <1>3, <1>4, NodeAssumption DEF NodeGood

LEMMA EvictInv == CacheInv /\ (\E k \in Key, n \in NodeId : Evict(n, k)) => CacheInv'
<1> SUFFICES ASSUME CacheInv, NEW k \in Key, NEW n \in NodeId, Evict(n, k) PROVE CacheInv'
  OBVIOUS
<1>1. NodeGood(n, Without(cache[n], k))
  BY WithoutGood DEF CacheInv, CacheGood
<1>2. write' = [x \in Request |-> write'[x]] /\ \A x \in Request : WriteGood(write'[x])
  BY DEF CacheInv, CacheGood, Evict
<1>3. /\ backend = "redis" /\ UNCHANGED <<ringVars, backend, up, pending>>
      /\ cache' = [cache EXCEPT ![n] = Without(cache[n], k)]
  BY DEF Evict
<1> QED
  BY <1>1, <1>2, <1>3, OneNode

\* Time passes for one node.
LEMMA OlderGood ==
    ASSUME NEW n, NEW s, NodeGood(n, s), backend = "memory"
    PROVE  NodeGood(n, Older(s))
<1> DEFINE later(e) == [e EXCEPT !.left = IF @ < 0 THEN @ ELSE @ - 1]
           t == Older(s)
<1>1. s \in Seq(Item) /\ OneEach(s) /\ DOMAIN s = 1 .. Len(s)
  BY LenProperties DEF NodeGood
<1>2. \A e \in Item : later(e) \in Item /\ later(e).key = e.key /\ later(e).val = e.val
  BY NodeAssumption DEF Item
<1>3. /\ t \in Seq(Item) /\ OneEach(t) /\ Len(t) = Len(s)
      /\ \A i \in DOMAIN s : t[i] = later(s[i])
  BY <1>1, <1>2, OlderProperties
<1>4. DOMAIN t = DOMAIN s /\ \A i \in DOMAIN s : s[i] \in Item
  BY <1>1, <1>3, LenProperties, ElementOfSeq
<1> HIDE DEF later, t
<1>5. \A e \in ToSet(t) : \E f \in ToSet(s) : e.key = f.key /\ e.val = f.val
  BY <1>2, <1>3, <1>4 DEF ToSet
<1>6. \A e \in ToSet(t) : EntryGood(n, e)
  BY <1>5 DEF NodeGood, EntryGood
<1> QED
  BY <1>3, <1>6 DEF NodeGood, t

\* In Redis, what has expired is gone.
LEMMA ExpiredGood ==
    ASSUME NEW n, NEW s, NodeGood(n, s), backend = "redis"
    PROVE  LET old == Older(s)
           IN  NodeGood(n, Chosen(old, {i \in DOMAIN old : ~Expired(old[i])}))
<1> DEFINE later(e) == [e EXCEPT !.left = IF @ < 0 THEN @ ELSE @ - 1]
           old == Older(s)
           I == {i \in DOMAIN old : ~Expired(old[i])}
           t == Chosen(old, I)
<1>1. s \in Seq(Item) /\ OneEach(s) /\ DOMAIN s = 1 .. Len(s)
  BY LenProperties DEF NodeGood
<1>2. \A e \in Item : later(e) \in Item /\ later(e).key = e.key /\ later(e).val = e.val
  BY NodeAssumption DEF Item
<1>3. /\ old \in Seq(Item) /\ OneEach(old) /\ Len(old) = Len(s)
      /\ \A i \in DOMAIN s : old[i] = later(s[i])
  BY <1>1, <1>2, OlderProperties
<1>4. DOMAIN old = DOMAIN s /\ \A i \in DOMAIN s : s[i] \in Item /\ old[i] \in Item
  BY <1>1, <1>2, <1>3, LenProperties, ElementOfSeq
<1> HIDE DEF later, old
<1>5. /\ t \in Seq(Item) /\ ToSet(t) = {old[i] : i \in I}
      /\ \A a, b \in DOMAIN t : a < b => \E i, j \in I : /\ i < j
                                                    /\ t[a] = old[i] /\ t[b] = old[j]
  <2>1. I \in SUBSET DOMAIN old
    OBVIOUS
  <2> HIDE DEF I
  <2> QED
    BY <1>3, <2>1, ChosenProperties
<1> HIDE DEF t
<1>6. \A i \in I : i \in DOMAIN s /\ i \in Int /\ old[i].left >= 0
  BY <1>1, <1>4 DEF Expired, Item
<1>7. OneEach(t)
  <2>1. ASSUME NEW a \in DOMAIN t, NEW b \in DOMAIN t, a < b PROVE t[a].key # t[b].key
    <3>1. PICK i \in I, j \in I : i < j /\ t[a] = old[i] /\ t[b] = old[j]
      BY <1>5, <2>1
    <3>2. i # j /\ i \in DOMAIN old /\ j \in DOMAIN old
      BY <1>6, <3>1
    <3> QED
      BY <1>3, <3>1, <3>2 DEF OneEach
  <2>2. \A a, b \in DOMAIN t : a = b \/ a < b \/ b < a
    BY <1>5, LenProperties
  <2> QED
    BY <2>1, <2>2 DEF OneEach
<1>8. ASSUME NEW e \in ToSet(t) PROVE EntryGood(n, e)
  <2>1. PICK i \in I : e = old[i]
    BY <1>5
  <2>2. s[i] \in ToSet(s) /\ e.key = s[i].key /\ e.val = s[i].val /\ e.left >= 0
    BY <1>2, <1>3, <1>4, <1>6, <2>1 DEF ToSet
  <2> QED
    BY <2>2 DEF NodeGood, EntryGood
<1> QED
  BY <1>5, <1>7, <1>8 DEF NodeGood, t, old

LEMMA TickCacheInv == CacheInv /\ Tick => CacheInv'
<1> SUFFICES ASSUME CacheInv, Tick PROVE CacheInv'
  OBVIOUS
<1>1. UNCHANGED <<ringVars, backend, up, write, pending>>
  BY DEF Tick
<1>2. \A n \in NodeId : NodeGood(n, cache[n])
  BY DEF CacheInv, CacheGood
<1>3. write' = [x \in Request |-> write'[x]] /\ \A x \in Request : WriteGood(write'[x])
  BY <1>1 DEF CacheInv, CacheGood
<1>4. CASE backend = "memory"
  <2>1. cache' = [n \in NodeId |-> Older(cache[n])]
    BY <1>4 DEF Tick
  <2>2. cache' = [n \in NodeId |-> cache'[n]] /\ \A n \in NodeId : NodeGood(n, cache'[n])
    BY <1>2, <1>4, <2>1, OlderGood
  <2>3. CASE up
    BY <1>1, <1>3, <2>2, <2>3, CacheStep
  <2>4. CASE ~up
    <3>1. \A n \in NodeId : cache'[n] = <<>>
      <4>1. \A n \in NodeId : cache[n] = <<>>
        BY <1>4, <2>4 DEF CacheInv, ProcessOK
      <4>2. Older(<<>>) = <<>>
        BY DEF Older
      <4> QED
        BY <2>1, <4>1, <4>2
    <3>2. ProcessOK'
      BY <1>1, <3>1 DEF CacheInv, ProcessOK
    <3> QED
      BY <1>1, <1>3, <2>2, <3>2, SameProcess DEF CacheInv, CacheGood
  <2> QED
    BY <2>3, <2>4
<1>5. CASE backend = "redis"
  <2>1. cache' = [n \in NodeId |->
                    LET old == Older(cache[n])
                    IN  Chosen(old, {i \in DOMAIN old : ~Expired(old[i])})]
    BY <1>5 DEF Tick
  <2>2. cache' = [n \in NodeId |-> cache'[n]] /\ \A n \in NodeId : NodeGood(n, cache'[n])
    BY <1>2, <1>5, <2>1, ExpiredGood
  <2> QED
    BY <1>1, <1>3, <1>5, <2>2, CacheStep
<1> QED
  BY <1>4, <1>5 DEF CacheInv, ProcessOK

-----------------------------------------------------------------------------
(* Steps that give the entries new values, and restarts.                   *)

\* A node whose entries get new values.
LEMMA NewValues ==
    ASSUME NEW s \in Seq(Item), OneEach(s), NEW t, t = [i \in DOMAIN s |-> t[i]],
           \A i \in DOMAIN s : t[i].val \in Value /\ t[i] = [s[i] EXCEPT !.val = t[i].val]
    PROVE  /\ t \in Seq(Item) /\ OneEach(t) /\ Len(t) = Len(s) /\ DOMAIN t = DOMAIN s
           /\ \A i \in DOMAIN s : s[i] \in Item /\ t[i].key = s[i].key /\ t[i].left = s[i].left
<1>1. \A i \in DOMAIN s : s[i] \in Item
  BY LenProperties, ElementOfSeq
<1>2. ASSUME NEW i \in DOMAIN s
      PROVE  t[i] \in Item /\ t[i].key = s[i].key /\ t[i].left = s[i].left
  <2> DEFINE v == t[i].val
  <2>1. s[i] \in Item /\ v \in Value /\ t[i] = [s[i] EXCEPT !.val = v]
    BY <1>1
  <2> HIDE DEF v
  <2> QED
    BY <2>1 DEF Item
<1>3. /\ t \in Seq(Item) /\ OneEach(t) /\ Len(t) = Len(s) /\ DOMAIN t = DOMAIN s
      /\ Keys(t) = Keys(s)
  BY <1>2, SameKeys
<1> QED
  BY <1>1, <1>2, <1>3

LEMMA RevaluedInv ==
    ASSUME CacheInv, backend' = backend, RingInv', ProcessOK',
           cache' = [n \in NodeId |-> cache'[n]],
           \A n \in NodeId :
              /\ cache'[n] = [i \in DOMAIN cache[n] |-> cache'[n][i]]
              /\ \A i \in DOMAIN cache[n] :
                    /\ cache'[n][i].val \in Value
                    /\ cache'[n][i] = [cache[n][i] EXCEPT !.val = cache'[n][i].val],
           (\A n \in NodeId : \A i \in DOMAIN cache[n] : EntryGood(n, cache[n][i]))',
           write' = [r \in Request |-> write'[r]],
           (\A r \in Request : WriteGood(write[r]))'
    PROVE  CacheInv'
<1>1. ASSUME NEW n \in NodeId PROVE NodeGood(n, cache[n])'
  <2>1. NodeGood(n, cache[n])
    BY DEF CacheInv, CacheGood
  <2>2. /\ cache'[n] \in Seq(Item) /\ OneEach(cache'[n]) /\ Len(cache'[n]) = Len(cache[n])
        /\ DOMAIN cache'[n] = DOMAIN cache[n]
    BY <2>1, NewValues DEF NodeGood
  <2>3. (\A e \in ToSet(cache[n]) : EntryGood(n, e))'
    BY DEF ToSet
  <2> QED
    BY <2>1, <2>2, <2>3 DEF NodeGood
<1> QED
  BY <1>1 DEF CacheInv, CacheGood

LEMMA OutdatedProperties ==
    ASSUME NEW e, e.val \in Value, NEW ks
    PROVE  /\ Outdated(e, ks) \in Value
           /\ Outdated(e, ks).stale <=> e.val.stale \/ e.key \in ks
           /\ Outdated(e, ks).fault = e.val.fault
BY DEF Outdated, Value

LEMMA ChangeInv == CacheInv /\ (\E ks \in SUBSET Key : Change(ks)) => CacheInv'
<1> SUFFICES ASSUME CacheInv, NEW ks \in SUBSET Key, Change(ks) PROVE CacheInv'
  OBVIOUS
<1>1. /\ up /\ pending = {} /\ pending' = ks /\ UNCHANGED <<ringVars, backend, up>>
  BY DEF Change
<1>2. /\ RingInv' /\ ProcessOK' /\ \A k : Route(k)' = Route(k)
  <2>1. RingInv'
    BY <1>1, RingInvStep DEF CacheInv
  <2>2. ProcessOK'
    BY <1>1 DEF CacheInv, ProcessOK
  <2>3. \A k : Route(k)' = Route(k)
    BY <1>1 DEF Route, ringVars
  <2> QED
    BY <2>1, <2>2, <2>3
<1>3. /\ cache' = [n \in NodeId |-> [i \in DOMAIN cache[n] |->
                     [cache[n][i] EXCEPT !.val = Outdated(cache[n][i], ks)]]]
      /\ write' = [r \in Request |-> IF write[r] = NoWrite THEN NoWrite
                     ELSE [write[r] EXCEPT !.val = Outdated(write[r], ks)]]
  BY DEF Change, Revalued, Rewritten
<1>4. ASSUME NEW n \in NodeId, NEW i \in DOMAIN cache[n]
      PROVE  /\ cache'[n][i].val \in Value
             /\ cache'[n][i] = [cache[n][i] EXCEPT !.val = cache'[n][i].val]
             /\ EntryGood(n, cache[n][i])'
  <2> DEFINE e == cache[n][i]
  <2>1. e \in Item /\ EntryGood(n, e)
    BY LenProperties, ElementOfSeq DEF CacheInv, CacheGood, NodeGood, ToSet
  <2>2. cache'[n][i] = [e EXCEPT !.val = Outdated(e, ks)]
    BY <1>3
  <2> HIDE DEF e
  <2>3. /\ Outdated(e, ks) \in Value
        /\ Outdated(e, ks).stale <=> e.val.stale \/ e.key \in ks
        /\ Outdated(e, ks).fault = e.val.fault
    BY <2>1, OutdatedProperties DEF Item
  <2>4. /\ cache'[n][i].key = e.key /\ cache'[n][i].left = e.left
        /\ cache'[n][i].val = Outdated(e, ks)
    BY <2>1, <2>2 DEF Item
  <2>5. EntryGood(n, cache[n][i])'
    BY <1>1, <1>2, <2>1, <2>3, <2>4 DEF EntryGood
  <2> QED
    BY <2>2, <2>3, <2>4, <2>5 DEF e
<1>5. ASSUME NEW r \in Request PROVE WriteGood(write[r])'
  <2> DEFINE w == write[r]
  <2>1. CASE w = NoWrite
    <3>1. write'[r] = NoWrite
      BY <1>3, <2>1
    <3> QED
      BY <3>1 DEF WriteGood
  <2>2. CASE w # NoWrite
    <3>1. w \in Writing /\ WriteGood(w)
      BY <2>2, WriteUnderWay
    <3>2. write'[r] = [w EXCEPT !.val = Outdated(w, ks)]
      BY <1>3, <2>2
    <3>3. w.val \in Value /\ w.node \in NodeId /\ w.key \in Key
      BY <3>1 DEF Writing
    <3>4. Outdated(w, ks) \in Value /\ Outdated(w, ks).fault = w.val.fault
      BY <3>3, OutdatedProperties
    <3>5. /\ write'[r] \in Writing /\ write'[r].node = w.node /\ write'[r].key = w.key
          /\ write'[r].val.fault = w.val.fault
      BY <3>1, <3>2, <3>4 DEF Writing
    <3> QED
      BY <1>1, <1>2, <2>2, <3>1, <3>5 DEF WriteGood
  <2> QED
    BY <2>1, <2>2
<1>6. /\ cache' = [n \in NodeId |-> cache'[n]]
      /\ \A n \in NodeId : cache'[n] = [i \in DOMAIN cache[n] |-> cache'[n][i]]
      /\ write' = [r \in Request |-> write'[r]]
  BY <1>3
<1>7. (\A n \in NodeId : \A i \in DOMAIN cache[n] : EntryGood(n, cache[n][i]))'
  <2>1. \A n \in NodeId : DOMAIN cache'[n] = DOMAIN cache[n]
    BY <1>3
  <2> QED
    BY <1>4, <2>1
<1> QED
  BY <1>1, <1>2, <1>4, <1>5, <1>6, <1>7, RevaluedInv

\* Taking a key from pending: no entry of it may be stale without a reason,
\* where the key is routed to.
LEMMA KeyDone ==
    ASSUME CacheInv, NEW k \in pending, pending' = pending \ {k},
           UNCHANGED <<ringVars, backend, up, write>>
    PROVE  /\ RingInv' /\ ProcessOK' /\ up /\ k \in Key
           /\ \A m : Route(m)' = Route(m)
           /\ write' = [r \in Request |-> write'[r]]
           /\ (\A r \in Request : WriteGood(write[r]))'
           /\ \A n, e : /\ EntryGood(n, e)
                        /\ e.key = k /\ n = Route(k) /\ e.val.stale => e.val.fault # "none"
                        => EntryGood(n, e)'
<1>1. k \in Key /\ up
  BY DEF CacheInv, ProcessOK
<1>2. RingInv'
  BY RingInvStep DEF CacheInv
<1>3. ProcessOK'
  BY <1>1 DEF CacheInv, ProcessOK
<1>4. \A m : Route(m)' = Route(m)
  BY DEF Route, ringVars
<1>5. \A w : WriteGood(w) => WriteGood(w)'
  BY <1>4 DEF WriteGood
<1>6. write' = [r \in Request |-> write'[r]] /\ (\A r \in Request : WriteGood(write[r]))'
  BY <1>5 DEF CacheInv, CacheGood
<1>7. ASSUME NEW n, NEW e, EntryGood(n, e),
             e.key = k /\ n = Route(k) /\ e.val.stale => e.val.fault # "none"
      PROVE  EntryGood(n, e)'
  <2>1. up' /\ e.val.stale /\ e.key \notin pending' => e.val.fault # "none"
    <3>1. CASE e.key = k /\ n # Route(k)
      BY <1>1, <1>7, <3>1 DEF EntryGood
    <3>2. CASE e.key = k /\ n = Route(k)
      BY <1>7, <3>2
    <3>3. CASE e.key # k
      BY <1>1, <1>7, <3>3 DEF EntryGood
    <3> QED
      BY <3>1, <3>2, <3>3
  <2> QED
    BY <1>4, <1>7, <2>1 DEF EntryGood
<1> QED
  BY <1>1, <1>2, <1>3, <1>4, <1>6, <1>7

LEMMA InvalidateInv == CacheInv /\ (\E k \in Key : Invalidate(k)) => CacheInv'
<1> SUFFICES ASSUME CacheInv, NEW k \in Key, Invalidate(k) PROVE CacheInv'
  OBVIOUS
<1> DEFINE Settled(n, e) == e.key = k /\ n = Route(k) /\ e.val.stale => e.val.fault # "none"
<1>1. k \in pending /\ pending' = pending \ {k} /\ UNCHANGED <<ringVars, backend, up, write>>
  BY DEF Invalidate
<1>2. /\ RingInv' /\ ProcessOK' /\ write' = [r \in Request |-> write'[r]]
      /\ (\A r \in Request : WriteGood(write[r]))' /\ \A m : Route(m)' = Route(m)
      /\ \A n, e : EntryGood(n, e) /\ Settled(n, e) => EntryGood(n, e)'
  BY <1>1, KeyDone
<1>3. /\ cache = [n \in NodeId |-> cache[n]] /\ \A n \in NodeId : NodeGood(n, cache[n])
  BY DEF CacheInv, CacheGood
<1>4. \A n, s : NodeGood(n, s) /\ (\A e \in ToSet(s) : Settled(n, e)) => NodeGood(n, s)'
  <2> HIDE DEF Settled
  <2>1. \A n, s : NodeGood(n, s) /\ (\A e \in ToSet(s) : Settled(n, e))
                  => (\A e \in ToSet(s) : EntryGood(n, e)')
    BY <1>2 DEF NodeGood
  <2> QED
    BY <1>1, <2>1 DEF NodeGood
<1>5. ASSUME cache' = [n \in NodeId |-> cache'[n]],
             \A n \in NodeId : /\ NodeGood(n, cache'[n])
                               /\ \A e \in ToSet(cache'[n]) : Settled(n, e)
      PROVE  CacheInv'
  <2> HIDE DEF Settled
  <2>1. (\A n \in NodeId : NodeGood(n, cache[n]))'
    BY <1>4, <1>5
  <2> QED
    BY <1>2, <1>5, <2>1 DEF CacheInv, CacheGood
<1>6. CASE Route(k) = None /\ cache' = cache
  <2>1. \A n \in NodeId : n # Route(k)
    BY <1>6, RingAssumption DEF None
  <2> QED
    BY <1>3, <1>5, <1>6, <2>1
<1>7. CASE cache' = [cache EXCEPT ![Route(k)] = Without(@, k)]
  <2>1. \A n \in NodeId :
          /\ NodeGood(n, Without(cache[n], k))
          /\ \A e \in ToSet(Without(cache[n], k)) : e.key # k
    <3>1. \A n \in NodeId : cache[n] \in Seq(Item) /\ OneEach(cache[n])
      BY <1>3 DEF NodeGood
    <3>2. \A n \in NodeId :
            ToSet(Without(cache[n], k)) = {e \in ToSet(cache[n]) : e.key # k}
      BY <3>1, WithoutProperties
    <3> QED
      BY <1>3, <3>2, WithoutGood
  <2>2. cache' = [n \in NodeId |-> cache'[n]]
    BY <1>3, <1>7
  <2>3. ASSUME NEW n \in NodeId
        PROVE  NodeGood(n, cache'[n]) /\ \A e \in ToSet(cache'[n]) : Settled(n, e)
    <3>1. CASE n = Route(k)
      <4>1. cache'[n] = Without(cache[n], k)
        BY <1>3, <1>7, <3>1
      <4> QED
        BY <2>1, <4>1
    <3>2. CASE n # Route(k)
      <4>1. cache'[n] = cache[n]
        BY <1>3, <1>7, <3>2
      <4> QED
        BY <1>3, <3>2, <4>1
    <3> QED
      BY <3>1, <3>2
  <2> HIDE DEF Settled
  <2> QED
    BY <1>5, <2>2, <2>3
<1>8. CASE /\ backend = "redis"
           /\ cache' = Revalued(LAMBDA m, e :
                IF m = Route(k) /\ e.key = k /\ e.val.stale /\ e.val.fault = "none"
                THEN [e.val EXCEPT !.fault = "undeleted"] ELSE e.val)
  <2> DEFINE value(m, e) == IF m = Route(k) /\ e.key = k /\ e.val.stale /\ e.val.fault = "none"
                            THEN [e.val EXCEPT !.fault = "undeleted"] ELSE e.val
  <2>1. cache' = [n \in NodeId |-> [i \in DOMAIN cache[n] |->
                    [cache[n][i] EXCEPT !.val = value(n, cache[n][i])]]]
    BY <1>8 DEF Revalued
  <2>2. ASSUME NEW n \in NodeId, NEW i \in DOMAIN cache[n]
        PROVE  /\ cache'[n][i].val \in Value
               /\ cache'[n][i] = [cache[n][i] EXCEPT !.val = cache'[n][i].val]
               /\ EntryGood(n, cache[n][i])'
    <3> DEFINE e == cache[n][i]
               v == value(n, e)
               f == [e EXCEPT !.val = v]
    <3>1. e \in Item /\ EntryGood(n, e)
      BY <1>3, LenProperties, ElementOfSeq DEF NodeGood, ToSet
    <3>2. cache'[n][i] = f
      BY <2>1
    <3> HIDE DEF e
    <3>3. /\ v \in Value /\ v.stale = e.val.stale
          /\ v = e.val \/ (v.fault = "undeleted" /\ e.val.fault = "none" /\ n = Route(k))
          /\ n = Route(k) /\ e.key = k /\ v.stale => v.fault # "none"
      <4>1. e.val \in Value
        BY <3>1 DEF Item
      <4>2. CASE n = Route(k) /\ e.key = k /\ e.val.stale /\ e.val.fault = "none"
        <5>1. v = [e.val EXCEPT !.fault = "undeleted"]
          BY <4>2
        <5> HIDE DEF v
        <5> QED
          BY <4>1, <4>2, <5>1 DEF Value
      <4>3. CASE ~(n = Route(k) /\ e.key = k /\ e.val.stale /\ e.val.fault = "none")
        <5>1. v = e.val
          BY <4>3
        <5> HIDE DEF v
        <5> QED
          BY <4>1, <4>3, <5>1
      <4> QED
        BY <4>2, <4>3
    <3> HIDE DEF v
    <3>4. f.key = e.key /\ f.left = e.left /\ f.val = v
      BY <3>1 DEF Item
    <3>5. up' /\ v.stale /\ e.key \notin pending' => v.fault # "none"
      BY <1>1, <3>1, <3>3 DEF EntryGood
    <3>6. up' /\ n # Route(e.key) => v.fault = "outlived"
      BY <1>1, <3>1, <3>3 DEF EntryGood
    <3>7. /\ cache'[n][i].key = e.key /\ cache'[n][i].left = e.left /\ cache'[n][i].val = v
      BY <3>2, <3>4
    <3>8. EntryGood(n, cache[n][i])'
      BY <1>1, <1>2, <1>8, <3>1, <3>5, <3>6, <3>7 DEF EntryGood
    <3> QED
      BY <3>2, <3>3, <3>7, <3>8 DEF f, e
  <2>3. /\ cache' = [n \in NodeId |-> cache'[n]]
        /\ \A n \in NodeId : cache'[n] = [i \in DOMAIN cache[n] |-> cache'[n][i]]
    BY <2>1
  <2>4. (\A n \in NodeId : \A i \in DOMAIN cache[n] : EntryGood(n, cache[n][i]))'
    <3>1. \A n \in NodeId : DOMAIN cache'[n] = DOMAIN cache[n]
      BY <2>1
    <3> QED
      BY <2>2, <3>1
  <2> QED
    BY <1>1, <1>2, <2>2, <2>3, <2>4, RevaluedInv
<1> QED
  BY <1>6, <1>7, <1>8 DEF Invalidate

\* Nothing cached and nothing under way.
LEMMA EmptyGood ==
    (cache = [n \in NodeId |-> <<>>] /\ write = [r \in Request |-> NoWrite] => CacheGood)
<1> SUFFICES ASSUME cache = [n \in NodeId |-> <<>>], write = [r \in Request |-> NoWrite]
             PROVE  CacheGood
  OBVIOUS
<1>1. \A n : NodeGood(n, <<>>)
  <2>1. <<>> \in Seq(Item) /\ OneEach(<<>>) /\ Len(<<>>) = 0 /\ ToSet(<<>>) = {}
    BY DEF OneEach, ToSet
  <2> QED
    BY <2>1, NodeAssumption DEF NodeGood
<1>2. WriteGood(NoWrite)
  BY DEF WriteGood
<1> QED
  BY <1>1, <1>2 DEF CacheGood

\* The process ends: its memory is gone, Redis keeps what it has.
LEMMA DownInv == CacheInv /\ Down => CacheInv'
<1> SUFFICES ASSUME CacheInv, Down PROVE CacheInv'
  OBVIOUS
<1>1. /\ UNCHANGED <<ringVars, backend>> /\ up' = FALSE /\ pending' = {}
      /\ backend = "memory" =>
           cache' = [n \in NodeId |-> <<>>] /\ write' = [r \in Request |-> NoWrite]
      /\ backend # "memory" => UNCHANGED <<cache, write>>
  BY DEF Down
<1>2. RingInv'
  BY <1>1, RingInvStep DEF CacheInv
<1>3. ProcessOK'
  BY <1>1 DEF CacheInv, ProcessOK
<1>4. CASE backend = "memory"
  <2>1. (cache = [n \in NodeId |-> <<>>] /\ write = [r \in Request |-> NoWrite])'
    BY <1>1, <1>4
  <2>2. CacheGood'
    BY <2>1, EmptyGood, PTL
  <2> QED
    BY <1>2, <1>3, <2>2 DEF CacheInv
<1>5. CASE backend # "memory"
  <2>1. \A n, e : EntryGood(n, e) => EntryGood(n, e)'
    BY <1>1 DEF EntryGood
  <2>2. \A n, s : NodeGood(n, s) => NodeGood(n, s)'
    BY <1>1, <2>1 DEF NodeGood
  <2>3. \A w : WriteGood(w) => WriteGood(w)'
    BY <1>1 DEF WriteGood
  <2> QED
    BY <1>1, <1>2, <1>3, <1>5, <2>2, <2>3 DEF CacheInv, CacheGood
<1> QED
  BY <1>4, <1>5

LEMMA ReconfigureInv == CacheInv /\ Reconfigure => CacheInv'
<1> SUFFICES ASSUME CacheInv, Reconfigure PROVE CacheInv'
  OBVIOUS
<1>1. ~up /\ RingNext /\ UNCHANGED <<backend, up, cache, write, pending>>
  BY DEF Reconfigure, cacheVars
<1>2. RingInv'
  BY <1>1, RingInvStep DEF CacheInv
<1>3. ProcessOK'
  BY <1>1 DEF CacheInv, ProcessOK
<1>4. \A n, e : EntryGood(n, e) => EntryGood(n, e)'
  BY <1>1 DEF EntryGood
<1>5. \A n, s : NodeGood(n, s) => NodeGood(n, s)'
  BY <1>1, <1>4 DEF NodeGood
<1>6. \A w : WriteGood(w) => WriteGood(w)'
  BY <1>1 DEF WriteGood
<1> QED
  BY <1>1, <1>2, <1>3, <1>5, <1>6 DEF CacheInv, CacheGood

\* The process starts: with Redis, what is stale by now or lies where the new
\* ring does not look has outlived the process that wrote it.
LEMMA StartInv == CacheInv /\ (\E ks \in SUBSET Key : Start(ks)) => CacheInv'
<1> SUFFICES ASSUME CacheInv, NEW ks \in SUBSET Key, Start(ks) PROVE CacheInv'
  OBVIOUS
<1> DEFINE outlived(n, e) ==
             [Outdated(e, ks) EXCEPT
                !.fault = IF Outdated(e, ks).stale \/ n # Route(e.key) THEN "outlived" ELSE "none"]
<1>1. ~up /\ up' /\ UNCHANGED <<ringVars, backend, pending>> /\ pending = {}
  BY DEF Start, CacheInv, ProcessOK
<1>2. /\ RingInv' /\ ProcessOK' /\ \A k : Route(k)' = Route(k)
  <2>1. RingInv'
    BY <1>1, RingInvStep DEF CacheInv
  <2>2. ProcessOK'
    BY <1>1 DEF CacheInv, ProcessOK
  <2>3. \A k : Route(k)' = Route(k)
    BY <1>1 DEF Route, ringVars
  <2> QED
    BY <2>1, <2>2, <2>3
<1>3. /\ cache' = [n \in NodeId |-> [i \in DOMAIN cache[n] |->
                     [cache[n][i] EXCEPT !.val = outlived(n, cache[n][i])]]]
      /\ write' = [r \in Request |-> IF write[r] = NoWrite THEN NoWrite
                     ELSE [write[r] EXCEPT !.val = outlived(write[r].node, write[r])]]
  BY DEF Start, Revalued, Rewritten
<1>4. ASSUME NEW n, NEW e, e.val \in Value
      PROVE  /\ outlived(n, e) \in Value
             /\ outlived(n, e).stale => outlived(n, e).fault = "outlived"
             /\ n # Route(e.key) => outlived(n, e).fault = "outlived"
  <2> DEFINE v == Outdated(e, ks)
  <2>1. v \in Value
    BY <1>4, OutdatedProperties
  <2>2. outlived(n, e) = [v EXCEPT !.fault = IF v.stale \/ n # Route(e.key)
                                             THEN "outlived" ELSE "none"]
    OBVIOUS
  <2> HIDE DEF v, outlived
  <2> QED
    BY <2>1, <2>2 DEF Value
<1> HIDE DEF outlived
<1>5. backend = "memory" =>
        (\A n \in NodeId : cache[n] = <<>>) /\ (\A r \in Request : write[r] = NoWrite)
  BY <1>1 DEF CacheInv, ProcessOK
<1>6. ASSUME NEW n \in NodeId, NEW i \in DOMAIN cache[n]
      PROVE  /\ cache'[n][i].val \in Value
             /\ cache'[n][i] = [cache[n][i] EXCEPT !.val = cache'[n][i].val]
             /\ EntryGood(n, cache[n][i])'
  <2> DEFINE e == cache[n][i]
             v == outlived(n, e)
  <2>1. e \in Item /\ EntryGood(n, e) /\ backend # "memory"
    <3>1. e \in Item /\ EntryGood(n, e)
      BY LenProperties, ElementOfSeq DEF CacheInv, CacheGood, NodeGood, ToSet
    <3>2. backend # "memory"
      BY <1>5
    <3> QED
      BY <3>1, <3>2
  <2>2. cache'[n][i] = [e EXCEPT !.val = v]
    BY <1>3
  <2> HIDE DEF e
  <2>3. e.val \in Value
    BY <2>1 DEF Item
  <2>4. /\ v \in Value
        /\ v.stale => v.fault = "outlived"
        /\ n # Route(e.key) => v.fault = "outlived"
    BY <1>4, <2>3
  <2> HIDE DEF v
  <2>5. /\ cache'[n][i].key = e.key /\ cache'[n][i].left = e.left /\ cache'[n][i].val = v
    BY <2>1, <2>2 DEF Item
  <2>6. EntryGood(n, cache[n][i])'
    BY <1>1, <1>2, <2>1, <2>4, <2>5 DEF EntryGood
  <2> QED
    BY <2>2, <2>4, <2>5, <2>6 DEF e
<1>7. ASSUME NEW r \in Request PROVE WriteGood(write[r])'
  <2> DEFINE w == write[r]
             v == outlived(w.node, w)
  <2>1. CASE w = NoWrite
    <3>1. write'[r] = NoWrite
      BY <1>3, <2>1
    <3> QED
      BY <3>1 DEF WriteGood
  <2>2. CASE w # NoWrite
    <3>1. w \in Writing /\ backend # "memory"
      BY <1>5, <2>2, WriteUnderWay
    <3>2. write'[r] = [w EXCEPT !.val = v]
      BY <1>3, <2>2
    <3>3. w.val \in Value
      BY <3>1 DEF Writing
    <3>4. v \in Value
      BY <1>4, <3>3
    <3>5. w.node # Route(w.key) => v.fault = "outlived"
      BY <1>4, <3>3
    <3> HIDE DEF v
    <3>6. /\ write'[r] \in Writing /\ write'[r].node = w.node /\ write'[r].key = w.key
          /\ write'[r].val = v
      BY <3>1, <3>2, <3>4 DEF Writing
    <3> QED
      BY <1>1, <1>2, <2>2, <3>1, <3>5, <3>6 DEF WriteGood
  <2> QED
    BY <2>1, <2>2
<1>8. /\ cache' = [n \in NodeId |-> cache'[n]]
      /\ \A n \in NodeId : cache'[n] = [i \in DOMAIN cache[n] |-> cache'[n][i]]
      /\ write' = [r \in Request |-> write'[r]]
  BY <1>3
<1>9. (\A n \in NodeId : \A i \in DOMAIN cache[n] : EntryGood(n, cache[n][i]))'
  <2>1. \A n \in NodeId : DOMAIN cache'[n] = DOMAIN cache[n]
    BY <1>3
  <2> QED
    BY <1>6, <2>1
<1> QED
  BY <1>1, <1>2, <1>6, <1>7, <1>8, <1>9, RevaluedInv

LEMMA CacheInvInit == CacheInit => CacheInv
<1> SUFFICES ASSUME CacheInit PROVE CacheInv
  OBVIOUS
<1>1. RingInv
  BY RingInvInit DEF CacheInit
<1>2. ProcessOK
  BY DEF CacheInit, ProcessOK
<1>3. CacheGood
  BY EmptyGood DEF CacheInit
<1> QED
  BY <1>1, <1>2, <1>3 DEF CacheInv

LEMMA CacheStutter == CacheInv /\ UNCHANGED distributedVars => CacheInv'
<1> SUFFICES ASSUME CacheInv, UNCHANGED distributedVars PROVE CacheInv'
  OBVIOUS
<1>1. UNCHANGED <<ringVars, backend, up, pending>> /\ UNCHANGED <<cache, write>>
  BY DEF distributedVars, cacheVars
<1>2. RingInv' /\ CacheGood'
  BY <1>1, SameProcess DEF CacheInv, CacheGood
<1>3. ProcessOK'
  BY <1>1 DEF CacheInv, ProcessOK
<1> QED
  BY <1>2, <1>3 DEF CacheInv

LEMMA CacheInvariant == CacheSpec => []CacheInv
<1>1. CacheInv /\ [CacheNext]_distributedVars => CacheInv'
  BY GetInv, SetArrivesInv, SetFailsInv, ChangeInv, StartInv, InvalidateInv, EvictInv,
     TickCacheInv, DownInv, ReconfigureInv, CacheStutter DEF CacheNext
<1> QED
  BY <1>1, CacheInvInit, PTL DEF CacheSpec

-----------------------------------------------------------------------------
(* What the invariant gives.                                               *)

\* A node never holds two entries for one key, nor more than its capacity,
\* whatever is read, written, expired, evicted or configured.
THEOREM CacheTypeCorrect == CacheSpec => []CacheTypeOK
<1>1. CacheInv => CacheTypeOK
  <2> SUFFICES ASSUME CacheInv PROVE CacheTypeOK
    OBVIOUS
  <2>1. backend \in {"memory", "redis"} /\ up \in BOOLEAN
    BY DEF CacheInv, ProcessOK
  <2>2. pending \subseteq Key /\ (~up => pending = {})
    BY DEF CacheInv, ProcessOK
  <2>3. ASSUME NEW n \in NodeId
        PROVE  /\ Cardinality(Keys(cache[n])) = Len(cache[n])
               /\ backend = "memory" => Len(cache[n]) <= MaxKeys
               /\ \A e \in ToSet(cache[n]) :
                    /\ e.key \in Key /\ e.val \in Value
                    /\ e.left \in (IF backend = "memory" THEN -1 ELSE 0) .. TTL
    <3>1. NodeGood(n, cache[n])
      BY DEF CacheInv, CacheGood
    <3>2. Cardinality(Keys(cache[n])) = Len(cache[n])
      BY <3>1, KeysCount DEF NodeGood
    <3>3. ASSUME NEW e \in ToSet(cache[n])
          PROVE  /\ e.key \in Key /\ e.val \in Value
                 /\ e.left \in (IF backend = "memory" THEN -1 ELSE 0) .. TTL
      <4>1. e \in Item /\ EntryGood(n, e)
        BY <3>1, LenProperties, ElementOfSeq DEF NodeGood, ToSet
      <4>2. e.key \in Key /\ e.val \in Value /\ e.left \in -1 .. TTL
        BY <4>1 DEF Item
      <4>3. backend # "memory" => e.left >= 0
        BY <2>1, <4>1 DEF EntryGood
      <4> QED
        BY <4>2, <4>3, NodeAssumption
    <3> QED
      BY <3>1, <3>2, <3>3 DEF NodeGood
  <2>4. \A r \in Request :
          write[r] # NoWrite =>
            write[r].node \in NodeId /\ write[r].key \in Key /\ write[r].val \in Value
    BY WriteUnderWay DEF Writing
  <2> QED
    BY <2>1, <2>2, <2>3, <2>4 DEF CacheTypeOK
<1> QED
  BY <1>1, CacheInvariant, PTL

\* Between flushes a stale hit has a reason: in the process, only that its
\* write was overtaken by the change; in Redis, also a Del that failed or a
\* restart.
THEOREM StaleHasReason == CacheSpec => []OnlyFaultsLeaveStale
<1>1. CacheInv => OnlyFaultsLeaveStale
  <2> SUFFICES ASSUME CacheInv, NEW k \in Key \ pending, HitNow(k), Answer(k).stale
               PROVE  Answer(k).fault \in
                        (IF backend = "memory" THEN {"late"} ELSE {"late", "undeleted", "outlived"})
    BY DEF OnlyFaultsLeaveStale
  <2> DEFINE n == Route(k)
             e == EntryOf(cache[n], k)
  <2>1. n \in NodeId /\ up /\ k \in Keys(cache[n])
    BY RouteProperties DEF CacheInv, HitNow, Hit
  <2>2. e \in ToSet(cache[n]) /\ e.key = k
    BY <2>1, EntryOfProperties
  <2>3. NodeGood(n, cache[n])
    BY <2>1 DEF CacheInv, CacheGood
  <2>4. Answer(k) = e.val
    BY DEF Answer
  <2> HIDE DEF e, n
  <2>5. EntryGood(n, e) /\ e \in Item
    BY <2>2, <2>3, LenProperties, ElementOfSeq DEF NodeGood, ToSet
  <2>6. e.val.fault # "none" /\ e.val.fault \in {"none", "late", "undeleted", "outlived"}
    BY <2>1, <2>2, <2>4, <2>5 DEF EntryGood, Item, Value
  <2>7. backend = "memory" => e.val.fault \in {"none", "late"}
    BY <2>5 DEF EntryGood
  <2> QED
    BY <2>4, <2>6, <2>7
<1> QED
  BY <1>1, CacheInvariant, PTL

\* What lies on a node that its key is not routed to was there before the
\* process started.
THEOREM StrayEntriesAreOld == CacheSpec => []ElsewhereIsOld
<1>1. CacheInv => ElsewhereIsOld
  BY DEF CacheInv, CacheGood, NodeGood, EntryGood, ElsewhereIsOld
<1> QED
  BY <1>1, CacheInvariant, PTL

\* The cache changes the ring only by the ring's operations, so that what is
\* proved of RingSpec holds of it.
THEOREM CacheUsesRing == CacheSpec => RingSpec
<1>1. CacheInit => RingInit
  BY DEF CacheInit
<1>2. [CacheNext]_distributedVars => [RingNext]_ringVars
  <2> SUFFICES ASSUME [CacheNext]_distributedVars PROVE RingNext \/ UNCHANGED ringVars
    OBVIOUS
  <2>1. CASE UNCHANGED distributedVars
    BY <2>1 DEF distributedVars
  <2>2. CASE CacheNext
    BY <2>2 DEF CacheNext, Get, SetArrives, SetFails, Change, Start, Invalidate, Evict, Tick,
                Down, Reconfigure
  <2> QED
    BY <2>1, <2>2
<1> QED
  BY <1>1, <1>2, PTL DEF CacheSpec, RingSpec

\* So the ring of a running cache is sorted, gives each key its nearest node,
\* and moves few keys, under every configuration it goes through.
COROLLARY RingOfTheCache ==
    CacheSpec => []RingTypeOK /\ []OwnerIsNearest /\ MinimalDisruption
BY CacheUsesRing, RingStaysSorted, OwnerFollowsFromNodes, FewKeysMove, PTL

=============================================================================
