------------------------------ MODULE TrieProofs ------------------------------
(***************************************************************************)
(* Proofs about the trie, for every set of queries, every shape of the     *)
(* tree and every list length: merging the children's lists gives the best *)
(* of each subtree, and bubbling a query up its path keeps the lists.      *)
(***************************************************************************)
EXTENDS TrieBuild, FiniteSetTheorems, FunctionTheorems, TLAPS

\* Entries of the trie: at most one per query.
IsEntries(E) ==
    /\ \A r \in E : r \in [query : Nat, count : Nat]
    /\ \A r, s \in E : r.query = s.query => r = s

Beaters(E, r) == {s \in E : Beats(s, r)}
RankIn(E, r) == Cardinality(Beaters(E, r))

-----------------------------------------------------------------------------
(* The sort order is total, so that the ranks of a finite set of entries   *)
(* are 0, 1, ..., each once.                                               *)

LEMMA BeatsIsOrder ==
    ASSUME NEW E, IsEntries(E)
    PROVE  /\ \A r \in E : ~Beats(r, r)
           /\ \A r, s \in E : r = s \/ Beats(r, s) \/ Beats(s, r)
           /\ \A r, s \in E : ~(Beats(r, s) /\ Beats(s, r))
           /\ \A r, s, t \in E : Beats(r, s) /\ Beats(s, t) => Beats(r, t)
           /\ \A r, s \in E : Beats(r, s) => r.count >= s.count
           /\ \A r, s \in E : ~Beats(r, s) => s.count >= r.count
BY DEF IsEntries, Beats

LEMMA RankOrder ==
    ASSUME NEW E, IsEntries(E), IsFiniteSet(E), NEW r \in E, NEW s \in E,
           Beats(r, s)
    PROVE  RankIn(E, r) < RankIn(E, s)
<1>1. Beaters(E, r) \subseteq Beaters(E, s)
  BY BeatsIsOrder DEF Beaters
<1>2. r \in Beaters(E, s) /\ r \notin Beaters(E, r)
  BY BeatsIsOrder DEF Beaters
<1>3. IsFiniteSet(Beaters(E, s)) /\ IsFiniteSet(Beaters(E, r))
  BY FS_Subset DEF Beaters
<1>4. Cardinality(Beaters(E, r)) <= Cardinality(Beaters(E, s))
      /\ Cardinality(Beaters(E, r)) # Cardinality(Beaters(E, s))
  BY <1>1, <1>2, <1>3, FS_Subset
<1> QED
  BY <1>3, <1>4, FS_CardinalityType DEF RankIn

LEMMA RankRange ==
    ASSUME NEW E, IsEntries(E), IsFiniteSet(E), NEW r \in E
    PROVE  RankIn(E, r) \in 0 .. Cardinality(E) - 1
<1>1. Beaters(E, r) \subseteq E \ {r}
  BY BeatsIsOrder DEF Beaters
<1>2. IsFiniteSet(E \ {r}) /\ Cardinality(E \ {r}) = Cardinality(E) - 1
  BY FS_RemoveElement
<1>3. IsFiniteSet(Beaters(E, r)) /\ Cardinality(Beaters(E, r)) <= Cardinality(E) - 1
  BY <1>1, <1>2, FS_Subset
<1> QED
  BY <1>3, FS_CardinalityType DEF RankIn

\* Every rank below the number of entries is taken.
LEMMA RankTaken ==
    ASSUME NEW E, IsEntries(E), IsFiniteSet(E), NEW i \in 0 .. Cardinality(E) - 1
    PROVE  \E r \in E : RankIn(E, r) = i
<1> DEFINE ranks == 0 .. Cardinality(E) - 1
           rank == [r \in E |-> RankIn(E, r)]
           taken == {rank[r] : r \in E}
<1>1. rank \in [E -> ranks]
  BY RankRange
<1>2. \A r, s \in E : rank[r] = rank[s] => r = s
  BY BeatsIsOrder, RankOrder, RankRange
<1>3. Cardinality(E) \in Nat
  BY FS_CardinalityType
<1>4. IsFiniteSet(ranks) /\ Cardinality(ranks) = Cardinality(E)
  <2>1. 0 \in Int /\ Cardinality(E) - 1 \in Int
    BY <1>3
  <2> QED
    BY <1>3, <2>1, FS_Interval
<1>5. taken \subseteq ranks
  BY <1>1
<1>6. rank \in Bijection(E, taken)
  <2>1. rank \in [E -> taken]
    BY <1>1
  <2>2. \A t \in taken : \E r \in E : rank[r] = t
    OBVIOUS
  <2> HIDE DEF rank, taken
  <2> QED
    BY <1>2, <2>1, <2>2, Fun_IsBij
<1>7. Cardinality(taken) = Cardinality(E)
  <2> HIDE DEF rank, taken
  <2>1. ExistsBijection(E, taken)
    BY <1>6 DEF ExistsBijection
  <2> QED
    BY <2>1, FS_Bijection
<1>8. taken = ranks
  <2> HIDE DEF taken, ranks
  <2> QED
    BY <1>4, <1>5, <1>7, FS_Subset
<1> QED
  BY <1>8

\* What sort-and-truncate computes.
LEMMA BestIsTopK ==
    ASSUME NEW E, IsEntries(E), IsFiniteSet(E)
    PROVE  IsTopK(Best(E, K), E) /\ IsFiniteSet(Best(E, K))
<1> DEFINE B == Best(E, K)
           rank == [r \in B |-> RankIn(E, r)]
           ranks == 0 .. K - 1
<1>1. K \in Nat \ {0}
  BY ShapeAssumption
<1>2. B = {r \in E : RankIn(E, r) < K}
  BY DEF Best, RankIn, Beaters
<1>3. \A r \in E : RankIn(E, r) \in 0 .. Cardinality(E) - 1
  BY RankRange
<1>4. Cardinality(E) \in Nat /\ IsFiniteSet(B) /\ Cardinality(B) \in Nat
  BY <1>2, FS_CardinalityType, FS_Subset
<1> HIDE DEF B
<1>5. /\ rank \in [B -> ranks]
      /\ \A r, s \in B : rank[r] = rank[s] => r = s
  <2>1. \A r \in B : rank[r] \in ranks
    BY <1>1, <1>2, <1>3, <1>4
  <2>2. \A r, s \in B : rank[r] = rank[s] => r = s
    BY <1>2, <1>3, <1>4, BeatsIsOrder, RankOrder
  <2> QED
    BY <2>1, <2>2
<1>6. IsFiniteSet(ranks) /\ Cardinality(ranks) = K
  <2>1. 0 \in Int /\ K - 1 \in Int /\ (K - 1) - 0 + 1 = K /\ 0 <= K - 1
    BY <1>1
  <2> QED
    BY <2>1, FS_Interval
<1>7. Cardinality(B) <= K
  <2> HIDE DEF rank, ranks
  <2>1. rank \in Injection(B, ranks)
    BY <1>5, Fun_IsInj
  <2> QED
    BY <1>6, <2>1, FS_Injection
<1>8. ASSUME NEW s \in E \ B
      PROVE  Cardinality(B) = K /\ \A r \in B : r.count >= s.count
  <2>1. RankIn(E, s) >= K /\ K <= Cardinality(E) - 1
    BY <1>1, <1>2, <1>3, <1>4
  <2>2. ASSUME NEW r \in B PROVE r.count >= s.count
    <3>1. r \in E /\ RankIn(E, r) < K
      BY <1>2
    <3>2. ~Beats(s, r)
      BY <1>1, <1>3, <1>4, <2>1, <3>1, RankOrder
    <3> QED
      BY <3>1, <3>2, BeatsIsOrder
  <2>3. \A i \in ranks : \E r \in B : rank[r] = i
    <3> SUFFICES ASSUME NEW i \in ranks PROVE \E r \in B : rank[r] = i
      OBVIOUS
    <3>1. i \in 0 .. Cardinality(E) - 1 /\ i < K
      BY <1>1, <1>4, <2>1
    <3>2. PICK r \in E : RankIn(E, r) = i
      BY <3>1, RankTaken
    <3> QED
      BY <1>2, <3>1, <3>2
  <2>4. Cardinality(B) = K
    <3> HIDE DEF rank, ranks
    <3>1. ExistsBijection(B, ranks)
      BY <1>5, <2>3, Fun_IsBij DEF ExistsBijection
    <3> QED
      BY <1>4, <1>6, <3>1, FS_Bijection
  <2> QED
    BY <2>2, <2>4
<1> QED
  BY <1>2, <1>4, <1>7, <1>8 DEF B, IsTopK

\* A non-empty list has a last entry.
LEMMA LastProperties ==
    ASSUME NEW L, IsEntries(L), IsFiniteSet(L), Cardinality(L) > 0
    PROVE  /\ LastOf(L) \in L
           /\ \A r \in L : r = LastOf(L) \/ Beats(r, LastOf(L))
<1>1. Cardinality(L) \in Nat
  BY FS_CardinalityType
<1>2. PICK l \in L : RankIn(L, l) = Cardinality(L) - 1
  <2>1. Cardinality(L) - 1 \in 0 .. Cardinality(L) - 1
    BY <1>1
  <2> QED
    BY <2>1, RankTaken
<1>3. Beaters(L, l) = L \ {l}
  <2>1. Beaters(L, l) \subseteq L \ {l}
    BY BeatsIsOrder DEF Beaters
  <2>2. IsFiniteSet(L \ {l}) /\ Cardinality(L \ {l}) = Cardinality(L) - 1
    BY FS_RemoveElement
  <2> QED
    BY <1>2, <2>1, <2>2, FS_Subset DEF RankIn
<1>4. \A s \in L : s = l \/ Beats(s, l)
  BY <1>3 DEF Beaters
<1> QED
  BY <1>4 DEF LastOf

-----------------------------------------------------------------------------
(* Upsert.  E are the entries below a node before the count of q changes,  *)
(* and Raised the entries afterwards.                                      *)

Raised(E, q, c) == {r \in E : r.query # q} \cup {Entry(q, c)}

LEMMA UpsertKeepsTopK ==
    ASSUME NEW E, IsEntries(E), NEW L, IsFiniteSet(L), IsTopK(L, E),
           NEW q \in Nat, NEW c \in Nat, \A r \in E : r.query = q => r.count < c
    PROVE  /\ IsTopK(Upsert(L, q, c), Raised(E, q, c))
           /\ IsFiniteSet(Upsert(L, q, c))
<1> DEFINE e == Entry(q, c)
           U == Upsert(L, q, c)
           F == Raised(E, q, c)
<1>1. /\ e.query = q /\ e.count = c /\ e \in F
      /\ \A r \in F : r = e \/ (r \in E /\ r.query # q)
      /\ \A r \in E : r.query # q => r \in F
  BY DEF Entry, Raised
<1>2. /\ L \subseteq E /\ Cardinality(L) <= K /\ IsEntries(L)
      /\ Cardinality(L) \in Nat /\ K \in Nat \ {0}
  BY FS_CardinalityType, ShapeAssumption DEF IsTopK, IsEntries
<1>3. \A r \in E : r.query \in Nat /\ r.count \in Nat
  BY DEF IsEntries
<1>4. ASSUME NEW s \in E \ L
      PROVE  Cardinality(L) = K /\ \A r \in L : r.count >= s.count
  BY DEF IsTopK
<1> HIDE DEF e, F
<1>5. CASE Listed(L, q)
  <2>1. PICK o \in L : o.query = q
    BY <1>5 DEF Listed
  <2>2. {r \in L : r.query # q} = L \ {o}
    BY <1>2, <2>1 DEF IsEntries
  <2>3. U = (L \ {o}) \cup {e} /\ e \notin L \ {o}
    BY <1>1, <1>5, <2>2 DEF Upsert, e
  <2>4. IsFiniteSet(L \ {o}) /\ Cardinality(L \ {o}) = Cardinality(L) - 1
    BY FS_RemoveElement
  <2>5. IsFiniteSet(U) /\ Cardinality(U) = Cardinality(L)
    BY <1>2, <2>3, <2>4, FS_AddElement
  <2>6. U \subseteq F
    BY <1>1, <1>2, <2>2, <2>3
  <2>7. ASSUME NEW s \in F \ U
        PROVE  Cardinality(U) = K /\ \A r \in U : r.count >= s.count
    <3>1. s \in E \ L /\ s.query # q
      BY <1>1, <2>1, <2>3, <2>7
    <3>2. Cardinality(L) = K /\ \A r \in L : r.count >= s.count
      BY <3>1, <1>4
    <3>3. c >= s.count
      BY <1>2, <1>3, <2>1, <3>1, <3>2
    <3> QED
      BY <1>1, <2>3, <2>5, <3>2, <3>3
  <2> QED
    BY <1>2, <2>5, <2>6, <2>7 DEF IsTopK, F
<1>6. CASE ~Listed(L, q) /\ Cardinality(L) < K
  <2>1. U = L \cup {e} /\ e \notin L
    BY <1>1, <1>6 DEF Upsert, Listed, e
  <2>2. IsFiniteSet(U) /\ Cardinality(U) = Cardinality(L) + 1
    BY <2>1, FS_AddElement
  <2>3. U \subseteq F
    BY <1>1, <1>2, <1>6, <2>1 DEF Listed
  <2>4. ASSUME NEW s \in F \ U PROVE FALSE
    BY <1>1, <1>2, <1>4, <1>6, <2>1, <2>4
  <2> QED
    BY <1>2, <1>6, <2>2, <2>3, <2>4 DEF IsTopK, F
<1>7. CASE ~Listed(L, q) /\ Cardinality(L) = K
  <2> DEFINE l == LastOf(L)
  <2>1. l \in L /\ \A r \in L : r = l \/ Beats(r, l)
    BY <1>2, <1>7, LastProperties
  <2>2. \A r \in L : r.count >= l.count
    BY <1>2, <1>3, <2>1, BeatsIsOrder
  <2> HIDE DEF l
  <2>3. L \subseteq F /\ e \notin L
    BY <1>1, <1>2, <1>7 DEF Listed
  <2>4. CASE c > l.count
    <3>1. U = (L \ {l}) \cup {e} /\ e \notin L \ {l}
      BY <1>2, <1>7, <2>3, <2>4 DEF Upsert, e, l
    <3>2. IsFiniteSet(L \ {l}) /\ Cardinality(L \ {l}) = Cardinality(L) - 1
      BY <2>1, FS_RemoveElement
    <3>3. IsFiniteSet(U) /\ Cardinality(U) = K
      BY <1>2, <1>7, <3>1, <3>2, FS_AddElement
    <3>4. ASSUME NEW s \in F \ U, NEW r \in U PROVE r.count >= s.count
      <4>1. s \in E /\ (s = l \/ s \in E \ L)
        BY <1>1, <1>2, <2>1, <3>1, <3>4
      <4>2. s.count <= l.count
        BY <1>3, <1>4, <2>1, <4>1
      <4>3. r.count >= l.count /\ r.count \in Nat /\ l.count \in Nat
        BY <1>1, <1>2, <1>3, <2>1, <2>2, <2>4, <3>1
      <4> QED
        BY <1>3, <4>1, <4>2, <4>3
    <3>5. U \subseteq F
      BY <1>1, <2>3, <3>1
    <3> QED
      BY <1>2, <3>3, <3>4, <3>5 DEF IsTopK, F
  <2>5. CASE ~(c > l.count)
    <3>1. U = L
      BY <1>2, <1>7, <2>5 DEF Upsert, l
    <3>2. ASSUME NEW s \in F \ L, NEW r \in L PROVE r.count >= s.count
      <4>1. CASE s = e
        BY <1>1, <1>2, <1>3, <2>1, <2>2, <2>5, <4>1
      <4>2. CASE s \in E \ L
        BY <1>4, <4>2
      <4> QED
        BY <1>1, <3>2, <4>1, <4>2
    <3> QED
      BY <1>2, <1>7, <2>3, <3>1, <3>2 DEF IsTopK, F
  <2> QED
    BY <2>4, <2>5
<1> QED
  BY <1>2, <1>5, <1>6, <1>7

\* What the list becomes is as long, and nothing in it is below the entry
\* that a full list gives up.
LEMMA UpsertImproves ==
    ASSUME NEW E, IsEntries(E), NEW L, IsFiniteSet(L), IsTopK(L, E),
           NEW q \in Nat, NEW c \in Nat, \A r \in E : r.query = q => r.count < c
    PROVE  /\ Cardinality(L) <= Cardinality(Upsert(L, q, c))
           /\ Cardinality(L) = K =>
                \A r \in Upsert(L, q, c) : \E s \in L : s.count <= r.count
<1> DEFINE e == Entry(q, c)
           U == Upsert(L, q, c)
<1>1. /\ L \subseteq E /\ Cardinality(L) <= K /\ IsEntries(L)
      /\ Cardinality(L) \in Nat /\ K \in Nat \ {0}
      /\ \A r \in L : r.count \in Nat
  BY FS_CardinalityType, ShapeAssumption DEF IsTopK, IsEntries
<1>2. e.query = q /\ e.count = c
  BY DEF Entry
<1> HIDE DEF e
<1>3. ASSUME NEW o \in L, U = (L \ {o}) \cup {e}, e \notin L \ {o}, o.count <= c
      PROVE  /\ Cardinality(L) <= Cardinality(U)
             /\ \A r \in U : \E s \in L : s.count <= r.count
  <2> HIDE DEF U
  <2>1. IsFiniteSet(L \ {o}) /\ Cardinality(L \ {o}) = Cardinality(L) - 1
    BY FS_RemoveElement
  <2>2. Cardinality(U) = Cardinality(L)
    <3>1. Cardinality((L \ {o}) \cup {e}) = Cardinality(L \ {o}) + 1
      BY <1>3, <2>1, FS_AddElement
    <3> QED
      BY <1>1, <1>3, <2>1, <3>1
  <2>3. ASSUME NEW r \in U PROVE \E s \in L : s.count <= r.count
    BY <1>1, <1>2, <1>3
  <2> QED
    BY <1>1, <2>2, <2>3
<1>4. CASE Listed(L, q)
  <2>1. PICK o \in L : o.query = q
    BY <1>4 DEF Listed
  <2>2. {r \in L : r.query # q} = L \ {o}
    BY <1>1, <2>1 DEF IsEntries
  <2>3. U = (L \ {o}) \cup {e} /\ e \notin L \ {o} /\ o.count <= c
    BY <1>1, <1>2, <1>4, <2>1, <2>2 DEF Upsert, e
  <2> QED
    BY <1>3, <2>3
<1>5. CASE ~Listed(L, q) /\ Cardinality(L) < K
  <2>1. U = L \cup {e} /\ e \notin L
    BY <1>2, <1>5 DEF Upsert, Listed, e
  <2>2. Cardinality(U) = Cardinality(L) + 1
    BY <2>1, FS_AddElement
  <2> HIDE DEF U
  <2> QED
    BY <1>1, <1>5, <2>2 DEF U
<1>6. CASE ~Listed(L, q) /\ Cardinality(L) = K
  <2> DEFINE l == LastOf(L)
  <2>1. l \in L
    BY <1>1, <1>6, LastProperties
  <2> HIDE DEF l
  <2>2. CASE c > l.count
    <3>1. U = (L \ {l}) \cup {e} /\ e \notin L \ {l} /\ l.count <= c
      BY <1>1, <1>2, <1>6, <2>1, <2>2 DEF Upsert, Listed, e, l
    <3> QED
      BY <1>3, <2>1, <3>1
  <2>3. CASE ~(c > l.count)
    <3>1. U = L
      BY <1>1, <1>6, <2>3 DEF Upsert, l
    <3> HIDE DEF U
    <3>2. \A r \in L : r.count <= r.count
      BY <1>1
    <3> QED
      BY <1>1, <3>1, <3>2 DEF U
  <2> QED
    BY <2>2, <2>3
<1> QED
  BY <1>1, <1>4, <1>5, <1>6

-----------------------------------------------------------------------------
(* The invariant: types, and finite lists that are top-k.                  *)

TrieTypes ==
    /\ count \in [Query -> Nat]
    /\ todo \in [Query -> Nat]
    /\ DOMAIN top = Node
    /\ \A n \in Inner : IsFiniteSet(top[n])

TrieInv == TrieTypes /\ ListsAreTopK

LEMMA StoredAreEntries ==
    ASSUME NEW f \in [Query -> Nat], NEW n \in Node
    PROVE  IsEntries(Stored(f, n))
BY ShapeAssumption DEF IsEntries, Stored, Entry, Below

\* Raising the count of q raises its entry in the nodes on its path, and
\* changes nothing elsewhere.
LEMMA StoredRaised ==
    ASSUME NEW f \in [Query -> Nat], NEW q \in Query, NEW c \in Nat, c > f[q],
           NEW n \in Inner
    PROVE  LET g == [f EXCEPT ![q] = c]
           IN  /\ n \in OnPath(q) => Stored(g, n) = Raised(Stored(f, n), q, c)
               /\ n \notin OnPath(q) => Stored(g, n) = Stored(f, n)
<1> DEFINE g == [f EXCEPT ![q] = c]
<1>1. n # Root /\ Below(n) = {p \in Query : n \in OnPath(p)}
  BY ShapeAssumption DEF Below, Inner
<1>2. g \in [Query -> Nat] /\ g[q] = c /\ c > 0
      /\ \A p \in Query : p # q => g[p] = f[p]
  OBVIOUS
<1> HIDE DEF g
<1>3. ASSUME n \in OnPath(q) PROVE Stored(g, n) = Raised(Stored(f, n), q, c)
  <2>1. Stored(g, n) \subseteq Raised(Stored(f, n), q, c)
    BY <1>1, <1>2, <1>3 DEF Stored, Raised, Entry
  <2>2. Raised(Stored(f, n), q, c) \subseteq Stored(g, n)
    BY <1>1, <1>2, <1>3 DEF Stored, Raised, Entry
  <2> QED
    BY <2>1, <2>2
<1>4. ASSUME n \notin OnPath(q) PROVE Stored(g, n) = Stored(f, n)
  BY <1>1, <1>2, <1>4 DEF Stored
<1> QED
  BY <1>3, <1>4 DEF g

LEMMA TrieInvStep == TrieInv /\ [TrieNext]_trieVars => TrieInv'
<1> SUFFICES ASSUME TrieInv, [TrieNext]_trieVars PROVE TrieInv'
  OBVIOUS
<1>1. ASSUME NEW deltas \in Deltas, ApplyBatch(deltas) PROVE TrieInv'
  <2>1. deltas \in [Query -> Nat]
    BY TrieAssumption
  <2> QED
    BY <1>1, <2>1 DEF ApplyBatch, TrieInv, TrieTypes, ListsAreTopK
<1>2. ASSUME NEW q \in Query, ApplyOne(q) PROVE TrieInv'
  <2> DEFINE c == count[q] + todo[q]
  <2>1. /\ count \in [Query -> Nat] /\ todo \in [Query -> Nat]
        /\ c \in Nat /\ c > count[q] /\ q \in Nat
        /\ count' = [count EXCEPT ![q] = c]
    BY <1>2, ShapeAssumption DEF ApplyOne, TrieInv, TrieTypes
  <2>2. /\ count' \in [Query -> Nat] /\ todo' \in [Query -> Nat]
        /\ DOMAIN top' = Node
    BY <1>2, <2>1 DEF ApplyOne
  <2>3. ASSUME NEW n \in Inner
        PROVE  IsFiniteSet(top'[n]) /\ IsTopK(top'[n], Stored(count', n))
    <3>1. /\ n \in Node /\ IsFiniteSet(top[n])
          /\ IsTopK(top[n], Stored(count, n))
      BY DEF TrieInv, TrieTypes, ListsAreTopK, Node
    <3>2. CASE n \notin OnPath(q)
      <4>1. top'[n] = top[n]
        BY <1>2, <3>1, <3>2 DEF ApplyOne
      <4>2. Stored(count', n) = Stored(count, n)
        <5> HIDE DEF c
        <5>1. Stored([count EXCEPT ![q] = c], n) = Stored(count, n)
          BY <2>1, <3>2, StoredRaised
        <5> QED
          BY <2>1, <5>1
      <4> QED
        BY <3>1, <4>1, <4>2
    <3>3. CASE n \in OnPath(q)
      <4>1. top'[n] = Upsert(top[n], q, c)
        BY <1>2, <3>1, <3>3 DEF ApplyOne
      <4>2. Stored(count', n) = Raised(Stored(count, n), q, c)
        <5> HIDE DEF c
        <5>1. Stored([count EXCEPT ![q] = c], n) = Raised(Stored(count, n), q, c)
          BY <2>1, <3>3, StoredRaised
        <5> QED
          BY <2>1, <5>1
      <4>3. \A r \in Stored(count, n) : r.query = q => r.count < c
        BY <2>1 DEF Stored, Entry
      <4>4. IsEntries(Stored(count, n))
        BY <2>1, <3>1, StoredAreEntries
      <4> HIDE DEF c
      <4> QED
        BY <2>1, <3>1, <4>1, <4>2, <4>3, <4>4, UpsertKeepsTopK
    <3> QED
      BY <3>2, <3>3
  <2> QED
    BY <2>2, <2>3 DEF TrieInv, TrieTypes, ListsAreTopK
<1>3. CASE UNCHANGED trieVars
  BY <1>3 DEF trieVars, TrieInv, TrieTypes, ListsAreTopK
<1> QED
  BY <1>1, <1>2, <1>3 DEF TrieNext

LEMMA TrieInvInit == TrieInit => TrieInv
<1> SUFFICES ASSUME TrieInit PROVE TrieInv
  OBVIOUS
<1>1. /\ count \in Stores /\ count \in [Query -> Nat] /\ todo = NoDelta
      /\ top = [n \in Node |-> Best(Stored(count, n), K)]
  BY TrieAssumption DEF TrieInit, Finalized
<1>2. ASSUME NEW n \in Inner
      PROVE  IsFiniteSet(top[n]) /\ IsTopK(top[n], Stored(count, n))
  <2>1. n \in Node /\ top[n] = Best(Stored(count, n), K)
    BY <1>1 DEF Node
  <2>2. IsFiniteSet(Stored(count, n))
    BY <1>1, <2>1, TrieAssumption
  <2> QED
    BY <1>1, <2>1, <2>2, StoredAreEntries, BestIsTopK
<1> QED
  BY <1>1, <1>2 DEF TrieInv, TrieTypes, ListsAreTopK, NoDelta

Better(n) ==
    /\ Cardinality(top[n]) <= Cardinality(top'[n])
    /\ Cardinality(top[n]) = K =>
         \A r \in top'[n] : \E s \in top[n] : s.count <= r.count

\* A batch, one query after the other, makes no list worse.
LEMMA BatchImproves == TrieInv /\ [TrieNext]_trieVars => [\A n \in Inner : Better(n)]_trieVars
<1>1. ASSUME TrieInv, NEW n \in Inner
      PROVE  /\ n \in Node /\ IsFiniteSet(top[n])
             /\ IsTopK(top[n], Stored(count, n)) /\ IsEntries(Stored(count, n))
  BY <1>1, StoredAreEntries DEF TrieInv, TrieTypes, ListsAreTopK, Node
<1>2. ASSUME TrieInv, NEW n \in Inner, top'[n] = top[n]
      PROVE  Better(n)
  <2>1. /\ Cardinality(top[n]) \in Nat
        /\ \A r \in top[n] : r.count \in Nat
    BY <1>1, <1>2, FS_CardinalityType DEF IsTopK, IsEntries
  <2>2. \A r \in top[n] : r.count <= r.count
    BY <2>1
  <2> QED
    BY <1>2, <2>1, <2>2 DEF Better
<1>3. ASSUME TrieInv, TrieNext, NEW n \in Inner PROVE Better(n)
  <2>1. CASE \E deltas \in Deltas : ApplyBatch(deltas)
    <3>1. top'[n] = top[n]
      BY <2>1 DEF ApplyBatch
    <3> QED
      BY <1>2, <1>3, <3>1
  <2>2. ASSUME NEW q \in Query, ApplyOne(q) PROVE Better(n)
    <3> DEFINE c == count[q] + todo[q]
    <3>1. /\ q \in Nat /\ c \in Nat /\ c > count[q]
      BY <1>3, <2>2, ShapeAssumption DEF ApplyOne, TrieInv, TrieTypes
    <3>2. top'[n] = IF n \in OnPath(q) THEN Upsert(top[n], q, c) ELSE top[n]
      BY <1>1, <1>3, <2>2 DEF ApplyOne
    <3>3. CASE n \notin OnPath(q)
      <4> QED
        BY <1>2, <1>3, <3>2, <3>3
    <3>4. CASE n \in OnPath(q)
      <4>1. \A r \in Stored(count, n) : r.query = q => r.count < c
        BY <3>1 DEF Stored, Entry
      <4> HIDE DEF c
      <4>2. /\ Cardinality(top[n]) <= Cardinality(Upsert(top[n], q, c))
            /\ Cardinality(top[n]) = K =>
                 \A r \in Upsert(top[n], q, c) : \E s \in top[n] : s.count <= r.count
        BY <1>1, <1>3, <3>1, <4>1, UpsertImproves
      <4> QED
        BY <3>2, <3>4, <4>2 DEF Better
    <3> QED
      BY <3>3, <3>4
  <2> QED
    BY <1>3, <2>1, <2>2 DEF TrieNext
<1> QED
  BY <1>3

-----------------------------------------------------------------------------
(* Finalize.                                                               *)

\* Sorting and truncating what holds the best K of E gives the best K of E.
LEMMA BestOfPart ==
    ASSUME NEW E, IsEntries(E), IsFiniteSet(E), NEW A \in SUBSET E, Best(E, K) \subseteq A
    PROVE  Best(A, K) = Best(E, K)
<1> DEFINE B == Best(E, K)
<1>1. /\ B = {r \in E : RankIn(E, r) < K}
      /\ Best(A, K) = {r \in A : RankIn(A, r) < K}
  BY DEF Best, RankIn, Beaters
<1>2. ASSUME NEW r \in A
      PROVE  /\ IsFiniteSet(Beaters(A, r)) /\ IsFiniteSet(Beaters(E, r))
             /\ RankIn(A, r) \in Nat /\ RankIn(E, r) \in Nat
             /\ RankIn(A, r) <= RankIn(E, r)
  <2>1. Beaters(A, r) \subseteq Beaters(E, r) /\ Beaters(E, r) \subseteq E
    BY DEF Beaters
  <2> QED
    BY <2>1, FS_Subset, FS_CardinalityType DEF RankIn
<1>3. K \in Nat
  BY ShapeAssumption
<1>4. B \subseteq Best(A, K)
  BY <1>1, <1>2, <1>3
<1>5. ASSUME NEW r \in A, r \notin B PROVE ~(RankIn(A, r) < K)
  <2>1. IsTopK(B, E) /\ IsFiniteSet(B)
    BY BestIsTopK
  <2>2. Cardinality(B) = K
    BY <1>5, <2>1 DEF IsTopK
  <2>3. ASSUME NEW s \in B PROVE s \in Beaters(A, r)
    <3>1. s \in E /\ r \in E /\ s # r /\ s \in A
      BY <1>1, <1>5
    <3>2. ~Beats(r, s)
      <4> SUFFICES ASSUME Beats(r, s) PROVE FALSE
        OBVIOUS
      <4>1. RankIn(E, r) < RankIn(E, s)
        BY <3>1, RankOrder
      <4>2. RankIn(E, s) < K /\ RankIn(E, s) \in Nat /\ RankIn(E, r) \in Nat
        BY <1>1, <1>2, <2>3, <3>1
      <4>3. RankIn(E, r) < K
        BY <1>3, <4>1, <4>2
      <4> QED
        BY <1>1, <1>5, <4>3
    <3> QED
      BY <3>1, <3>2, BeatsIsOrder DEF Beaters
  <2>4. B \subseteq Beaters(A, r)
    BY <2>3
  <2>5. Cardinality(B) <= RankIn(A, r)
    BY <1>2, <2>4, FS_Subset DEF RankIn
  <2> QED
    BY <1>2, <1>3, <2>2, <2>5
<1>6. Best(A, K) \subseteq B
  BY <1>1, <1>5
<1> QED
  BY <1>4, <1>6

LEMMA PathProperties ==
    ASSUME NEW q \in Query
    PROVE  /\ Len(Path[q]) \in Nat \ {0} /\ DOMAIN Path[q] = 1 .. Len(Path[q])
           /\ \A i \in 1 .. Len(Path[q]) :
                Path[q][i] \in OnPath(q) /\ Path[q][i] \in Inner /\ Path[q][i] # Root
<1>1. Path[q] \in Seq(Inner) /\ Path[q] # <<>>
  BY BuildAssumption
<1>2. Len(Path[q]) \in Nat \ {0} /\ DOMAIN Path[q] = 1 .. Len(Path[q])
  BY <1>1
<1>3. \A i \in 1 .. Len(Path[q]) : Path[q][i] \in OnPath(q)
  BY <1>2 DEF OnPath
<1>4. OnPath(q) \subseteq Inner /\ Root \notin OnPath(q)
  BY ShapeAssumption DEF Inner
<1> QED
  BY <1>2, <1>3, <1>4

\* How many characters the prefix has.
Depth(n) ==
    IF n = Root THEN 0
    ELSE CHOOSE i : \E q \in Query : i \in 1 .. Len(Path[q]) /\ Path[q][i] = n

LEMMA DepthIs ==
    ASSUME NEW q \in Query, NEW i \in 1 .. Len(Path[q])
    PROVE  Depth(Path[q][i]) = i
<1> DEFINE n == Path[q][i]
           d == CHOOSE j : \E p \in Query : j \in 1 .. Len(Path[p]) /\ Path[p][j] = n
<1>1. \E j : \E p \in Query : j \in 1 .. Len(Path[p]) /\ Path[p][j] = n
  OBVIOUS
<1>2. PICK p \in Query : d \in 1 .. Len(Path[p]) /\ Path[p][d] = n
  BY <1>1
<1> HIDE DEF d
<1>3. d = i
  BY <1>2, PathProperties, BuildAssumption
<1>4. n # Root
  BY PathProperties
<1> QED
  BY <1>3, <1>4 DEF Depth, d

LEMMA ChildIs ==
    ASSUME NEW n \in Node, NEW c \in Children(n)
    PROVE  \E q \in Query : \E i \in 1 .. Len(Path[q]) :
             /\ c = Path[q][i]
             /\ IF n = Root THEN i = 1 ELSE i - 1 \in 1 .. Len(Path[q]) /\ n = Path[q][i - 1]
<1>1. CASE n = Root
  BY <1>1, PathProperties DEF Children
<1>2. CASE n # Root
  <2>1. PICK q \in Query, j \in Nat : /\ j \in 1 .. Len(Path[q]) - 1
                                   /\ Path[q][j] = n /\ c = Path[q][j + 1]
    BY <1>2 DEF Children
  <2>2. Len(Path[q]) \in Nat /\ j \in 1 .. Len(Path[q]) - 1
    BY <2>1, PathProperties
  <2>3. /\ j + 1 \in 1 .. Len(Path[q]) /\ (j + 1) - 1 \in 1 .. Len(Path[q]) /\ (j + 1) - 1 = j
    BY <2>2
  <2> QED
    BY <1>2, <2>1, <2>3
<1> QED
  BY <1>1, <1>2

LEMMA ChildDepth ==
    ASSUME NEW n \in Node, NEW c \in Children(n)
    PROVE  c \in Inner /\ c \in Node /\ Depth(n) \in Nat /\ Depth(c) = Depth(n) + 1
<1>1. PICK q \in Query, i \in Nat :
        /\ i \in 1 .. Len(Path[q])
        /\ c = Path[q][i]
        /\ IF n = Root THEN i = 1 ELSE i - 1 \in 1 .. Len(Path[q]) /\ n = Path[q][i - 1]
  BY ChildIs
<1>2. c \in Inner /\ Depth(c) = i /\ i \in Nat \ {0}
  BY <1>1, PathProperties, DepthIs
<1>3. Depth(n) = i - 1
  <2>1. CASE n = Root
    BY <1>1, <2>1 DEF Depth
  <2>2. CASE n # Root
    BY <1>1, <2>2, DepthIs
  <2> QED
    BY <2>1, <2>2
<1>4. i - 1 \in Nat
  BY <1>2
<1> QED
  BY <1>2, <1>3, <1>4 DEF Node

LEMMA DepthIsNat ==
    ASSUME NEW n \in Node
    PROVE  Depth(n) \in Nat
<1>1. CASE n = Root
  BY <1>1 DEF Depth
<1>2. CASE n # Root
  <2>1. PICK q \in Query : n \in OnPath(q)
    BY <1>2 DEF Node, Inner
  <2>2. PICK i \in 1 .. Len(Path[q]) : n = Path[q][i]
    BY <2>1, PathProperties DEF OnPath
  <2> QED
    BY <2>2, DepthIs
<1> QED
  BY <1>1, <1>2

\* The queries below a node are its own and those below its children.
LEMMA BelowSplit ==
    ASSUME NEW n \in Node
    PROVE  Below(n) = {p \in Query : Path[p][Len(Path[p])] = n}
                          \cup UNION {Below(c) : c \in Children(n)}
<1>0. \A c \in Inner : Below(c) = {q \in Query : c \in OnPath(q)}
  BY ShapeAssumption DEF Below, Inner
<1>1. ASSUME NEW q \in Below(n), Path[q][Len(Path[q])] # n
      PROVE  \E c \in Children(n) : q \in Below(c)
  <2>1. q \in Query
    BY DEF Below
  <2>2. CASE n = Root
    <3>1. Path[q][1] \in Children(n)
      BY <2>1, <2>2 DEF Children
    <3>2. 1 \in 1 .. Len(Path[q])
      BY <2>1, PathProperties
    <3> QED
      BY <1>0, <2>1, <3>1, <3>2, PathProperties
  <2>3. CASE n # Root
    <3>1. PICK i \in 1 .. Len(Path[q]) : Path[q][i] = n
      BY <2>1, <2>3, PathProperties DEF Below, OnPath
    <3>2. i \in 1 .. Len(Path[q]) - 1 /\ i + 1 \in 1 .. Len(Path[q])
      BY <1>1, <2>1, <3>1, PathProperties
    <3>3. Path[q][i + 1] \in Children(n)
      BY <2>1, <2>3, <3>1, <3>2 DEF Children
    <3> QED
      BY <1>0, <2>1, <3>2, <3>3, PathProperties
  <2> QED
    BY <2>2, <2>3
<1>2. ASSUME NEW q \in Query, Path[q][Len(Path[q])] = n PROVE q \in Below(n)
  <2>1. Len(Path[q]) \in 1 .. Len(Path[q])
    BY PathProperties
  <2> QED
    BY <1>2, <2>1, PathProperties DEF Below
<1>3. ASSUME NEW c \in Children(n), NEW q \in Below(c) PROVE q \in Below(n)
  <2>1. PICK p \in Query, i \in Nat :
          /\ i \in 1 .. Len(Path[p])
          /\ c = Path[p][i]
          /\ IF n = Root THEN i = 1 ELSE i - 1 \in 1 .. Len(Path[p]) /\ n = Path[p][i - 1]
    BY ChildIs
  <2>2. q \in Query /\ c \in OnPath(q)
    BY <1>0, ChildDepth
  <2>3. PICK j \in 1 .. Len(Path[q]) : Path[q][j] = c
    BY <2>2, PathProperties DEF OnPath
  <2>4. j = i /\ \A k \in 1 .. i : Path[p][k] = Path[q][k]
    BY <2>1, <2>2, <2>3, PathProperties, BuildAssumption
  <2>5. CASE n = Root
    BY <2>2, <2>5 DEF Below
  <2>6. CASE n # Root
    <3>1. i - 1 \in 1 .. i /\ i - 1 \in 1 .. Len(Path[q]) /\ Path[q][i - 1] = n
      <4>1. i - 1 \in Nat \ {0} /\ n = Path[p][i - 1] /\ i \in 1 .. Len(Path[q])
            /\ Len(Path[q]) \in Nat
        BY <2>1, <2>2, <2>3, <2>4, <2>6, PathProperties
      <4>2. i - 1 \in 1 .. i /\ i - 1 \in 1 .. Len(Path[q])
        BY <4>1
      <4> QED
        BY <2>4, <4>1, <4>2
    <3>2. n \in OnPath(q)
      BY <2>2, <3>1, PathProperties
    <3> QED
      BY <2>2, <2>6, <3>2 DEF Below
  <2> QED
    BY <2>5, <2>6
<1> QED
  BY <1>1, <1>2, <1>3 DEF Below

LEMMA StoredSplit ==
    ASSUME NEW n \in Node
    PROVE  Stored(rows, n) = Own(n) \cup UNION {Stored(rows, c) : c \in Children(n)}
<1>1. ASSUME NEW r \in Stored(rows, n)
      PROVE  r \in Own(n) \/ \E c \in Children(n) : r \in Stored(rows, c)
  BY BelowSplit DEF Stored, Own, Below
<1>2. Own(n) \subseteq Stored(rows, n)
  BY BelowSplit DEF Stored, Own
<1>3. ASSUME NEW c \in Children(n) PROVE Stored(rows, c) \subseteq Stored(rows, n)
  BY BelowSplit DEF Stored
<1> QED
  BY <1>1, <1>2, <1>3

LEMMA ImageFinite ==
    ASSUME NEW S, IsFiniteSet(S), NEW f
    PROVE  IsFiniteSet({f[x] : x \in S})
<1> DEFINE T == {f[x] : x \in S}
           g == [x \in S |-> f[x]]
<1>1. g \in [S -> T] /\ \A t \in T : \E x \in S : g[x] = t
  OBVIOUS
<1> HIDE DEF g, T
<1>2. g \in Surjection(S, T)
  BY <1>1, Fun_IsSurj
<1> QED
  BY <1>2, FS_Surjection DEF T

LEMMA StoredFinite ==
    ASSUME NEW f, NEW n \in Node
    PROVE  IsFiniteSet(Stored(f, n))
<1>1. {p \in Below(n) : f[p] > 0} \subseteq Query
  BY DEF Below
<1>2. IsFiniteSet({p \in Below(n) : f[p] > 0})
  BY <1>1, BuildAssumption, FS_Subset
<1> QED
  <2> DEFINE S == {p \in Below(n) : f[p] > 0}
             e == [p \in S |-> Entry(p, f[p])]
  <2>1. Stored(f, n) = {e[p] : p \in S}
    BY DEF Stored
  <2> HIDE DEF e
  <2>2. IsFiniteSet({e[p] : p \in S})
    BY <1>2, ImageFinite
  <2> QED
    BY <2>1, <2>2

\* Merging the best K of each child gives the best K of the subtree: what is
\* among the best of the subtree is among the best of the child it is below.
LEMMA MergeIsBest ==
    ASSUME rows \in [Query -> Nat], NEW n \in Node
    PROVE  Merge(n, {Best(Stored(rows, c), K) : c \in Children(n)}) = Best(Stored(rows, n), K)
<1> DEFINE E == Stored(rows, n)
           A == Own(n) \cup UNION {Best(Stored(rows, c), K) : c \in Children(n)}
<1>1. IsEntries(E) /\ IsFiniteSet(E)
  BY StoredAreEntries, StoredFinite
<1>2. \A c \in Children(n) : Best(Stored(rows, c), K) \subseteq Stored(rows, c)
  BY DEF Best
<1>3. A \subseteq E
  BY <1>2, StoredSplit
<1>4. ASSUME NEW r \in Best(E, K) PROVE r \in A
  <2>1. r \in E /\ Cardinality(Beaters(E, r)) < K
    BY DEF Best, Beaters
  <2>2. CASE r \in Own(n)
    BY <2>2
  <2>3. ASSUME NEW c \in Children(n), r \in Stored(rows, c) PROVE r \in Best(Stored(rows, c), K)
    <3>1. /\ Stored(rows, c) \subseteq E
      BY StoredSplit
    <3>2. Beaters(Stored(rows, c), r) \subseteq Beaters(E, r) /\ Beaters(E, r) \subseteq E
      BY <3>1 DEF Beaters
    <3> HIDE DEF E
    <3>3. /\ Cardinality(Beaters(Stored(rows, c), r)) <= Cardinality(Beaters(E, r))
          /\ Cardinality(Beaters(Stored(rows, c), r)) \in Nat
          /\ Cardinality(Beaters(E, r)) \in Nat
      BY <1>1, <3>2, FS_Subset, FS_CardinalityType
    <3>4. Cardinality(Beaters(Stored(rows, c), r)) < K
      BY <2>1, <3>3, ShapeAssumption
    <3> QED
      BY <2>3, <3>4 DEF Best, Beaters
  <2> QED
    BY <2>1, <2>2, <2>3, StoredSplit
<1>5. Merge(n, {Best(Stored(rows, c), K) : c \in Children(n)}) = Best(A, K)
  BY DEF Merge
<1> HIDE DEF A, E
<1>6. Best(A, K) = Best(E, K)
  BY <1>1, <1>3, <1>4, BestOfPart
<1> QED
  BY <1>5, <1>6 DEF E

LEMMA NodesFinite == IsFiniteSet(Node)
<1>1. ASSUME NEW q \in Query PROVE IsFiniteSet(OnPath(q))
  <2>1. DOMAIN Path[q] = 1 .. Len(Path[q]) /\ 1 \in Int /\ Len(Path[q]) \in Int
    BY PathProperties
  <2>2. IsFiniteSet(DOMAIN Path[q])
    BY <2>1, FS_Interval
  <2> QED
    BY <2>2, ImageFinite DEF OnPath
<1>2. IsFiniteSet({OnPath(q) : q \in Query})
  <2> DEFINE paths == [q \in Query |-> OnPath(q)]
  <2>1. {OnPath(q) : q \in Query} = {paths[q] : q \in Query}
    OBVIOUS
  <2> HIDE DEF paths
  <2>2. IsFiniteSet({paths[q] : q \in Query})
    BY BuildAssumption, ImageFinite
  <2> QED
    BY <2>1, <2>2
<1>3. IsFiniteSet(Inner)
  BY <1>1, <1>2, FS_UNION DEF Inner
<1> QED
  BY <1>3, FS_AddElement DEF Node

\* A set of natural numbers has a least one, unless it is empty.
LEMMA LeastNatural ==
    ASSUME NEW S \in SUBSET Nat, NEW n \in S
    PROVE  \E m \in S : \A k \in S : m <= k
<1> DEFINE R == OpToRel(<, Nat)
<1>1. IsWellFoundedOn(R, Nat)
  BY NatLessThanWellFounded
<1>2. \A k, m \in Nat : k < m => <<k, m>> \in R
  BY DEF OpToRel
<1> HIDE DEF R
<1>3. PICK m \in S : \A k \in S : <<k, m>> \notin R
  BY <1>1, WFMin
<1>4. ASSUME NEW k \in S PROVE m <= k
  <2>1. k \in Nat /\ m \in Nat /\ ~(k < m)
    BY <1>2, <1>3
  <2> QED
    BY <2>1
<1> QED
  BY <1>4

AreLists(f) == f = [n \in Node |-> Merge(n, {f[c] : c \in Children(n)})]

\* The walk computes the list of every node from those of its children, which
\* determines them: among the nodes where two walks differ take a deepest one.
LEMMA ListsAreBest ==
    ASSUME rows \in [Query -> Nat]
    PROVE  Lists = [n \in Node |-> Best(Stored(rows, n), K)]
<1> DEFINE best == [n \in Node |-> Best(Stored(rows, n), K)]
<1>1. \A n \in Node : \A c \in Children(n) : c \in Node
  BY ChildDepth
<1>2. AreLists(best)
  <2>1. ASSUME NEW n \in Node PROVE best[n] = Merge(n, {best[c] : c \in Children(n)})
    <3>1. {best[c] : c \in Children(n)} = {Best(Stored(rows, c), K) : c \in Children(n)}
      BY <1>1
    <3> QED
      BY <3>1, MergeIsBest
  <2>2. best = [n \in Node |-> best[n]]
    OBVIOUS
  <2> HIDE DEF best
  <2> QED
    BY <2>1, <2>2 DEF AreLists
<1>3. AreLists(Lists)
  BY <1>2 DEF Lists, AreLists
<1> HIDE DEF best
<1> DEFINE Bad == {n \in Node : Lists[n] # best[n]}
           Deeper(n) == {m \in Node : Depth(m) >= Depth(n)}
<1>4. ASSUME NEW n \in Bad PROVE \E c \in Children(n) : c \in Bad
  <2> SUFFICES ASSUME \A c \in Children(n) : Lists[c] = best[c]
               PROVE  FALSE
    BY <1>1
  <2>1. {Lists[c] : c \in Children(n)} = {best[c] : c \in Children(n)}
    OBVIOUS
  <2> QED
    BY <1>2, <1>3, <2>1 DEF AreLists
<1>5. Bad = {}
  <2> SUFFICES ASSUME Bad # {} PROVE FALSE
    OBVIOUS
  <2> DEFINE Sizes == {Cardinality(Deeper(n)) : n \in Bad}
  <2>0. \A n \in Node : IsFiniteSet(Deeper(n)) /\ Cardinality(Deeper(n)) \in Nat
    <3> SUFFICES ASSUME NEW n \in Node
                 PROVE  IsFiniteSet(Deeper(n)) /\ Cardinality(Deeper(n)) \in Nat
      OBVIOUS
    <3>1. Deeper(n) \subseteq Node
      OBVIOUS
    <3> QED
      BY <3>1, NodesFinite, FS_Subset, FS_CardinalityType
  <2>1. PICK n \in Bad : \A m \in Bad : Cardinality(Deeper(n)) <= Cardinality(Deeper(m))
    <3>1. Sizes \in SUBSET Nat /\ Sizes # {}
      BY <2>0
    <3> HIDE DEF Sizes
    <3>2. PICK least \in Sizes : \A k \in Sizes : least <= k
      BY <3>1, LeastNatural
    <3> USE DEF Sizes
    <3> HIDE DEF Bad, Deeper
    <3> QED
      BY <3>2
  <2>2. PICK c \in Children(n) : c \in Bad
    BY <1>4
  <2>3. n \in Node /\ c \in Node /\ Depth(n) \in Nat /\ Depth(c) = Depth(n) + 1
    BY ChildDepth
  <2>4. /\ Deeper(c) \subseteq Deeper(n) /\ n \in Deeper(n) /\ n \notin Deeper(c)
    <3>1. ASSUME NEW m \in Node, Depth(m) >= Depth(c) PROVE Depth(m) >= Depth(n)
      <4>1. Depth(m) \in Nat
        BY DepthIsNat
      <4> QED
        BY <2>3, <3>1, <4>1
    <3> QED
      BY <2>3, <3>1
  <2> HIDE DEF Bad, Deeper
  <2>5. Cardinality(Deeper(c)) < Cardinality(Deeper(n))
    <3>1. Cardinality(Deeper(c)) <= Cardinality(Deeper(n)) /\ Cardinality(Deeper(c)) # Cardinality(Deeper(n))
      BY <2>0, <2>3, <2>4, FS_Subset
    <3> QED
      BY <2>0, <2>3, <3>1
  <2> QED
    BY <2>0, <2>1, <2>2, <2>3, <2>5
<1>6. Lists = [n \in Node |-> Lists[n]]
  BY <1>3 DEF AreLists
<1>7. \A n \in Node : Lists[n] = best[n]
  BY <1>5
<1> QED
  BY <1>6, <1>7 DEF best

\* Before Finalize the trie is empty; from then on it is as TrieInv says.
BuildInv ==
    /\ rows \in [Query -> Nat]
    /\ ~finalized => todo = NoDelta /\ \A n \in Inner : top[n] = {}
    /\ TrieInv

LEMMA BuildInvInit == BuildInit => BuildInv
<1> SUFFICES ASSUME BuildInit PROVE BuildInv
  OBVIOUS
<1>1. \A n \in Inner : n \in Node /\ top[n] = {} /\ Stored(count, n) = {}
  BY DEF BuildInit, NoDelta, Stored, Node, Below
<1>2. IsFiniteSet({}) /\ IsTopK({}, {})
  BY FS_EmptySet, ShapeAssumption DEF IsTopK
<1>3. ListsAreTopK /\ \A n \in Inner : IsFiniteSet(top[n])
  BY <1>1, <1>2 DEF ListsAreTopK
<1>4. /\ count \in [Query -> Nat] /\ todo \in [Query -> Nat] /\ rows \in [Query -> Nat]
      /\ todo = NoDelta /\ DOMAIN top = Node
  BY DEF BuildInit, NoDelta
<1> QED
  BY <1>1, <1>3, <1>4 DEF BuildInv, TrieInv, TrieTypes

LEMMA FinalizeInv ==
    ASSUME BuildInv, Finalize
    PROVE  /\ \A n \in Node : top'[n] = Best(Stored(rows, n), K)
           /\ BuildInv'
<1>1. rows \in [Query -> Nat] /\ top' = [n \in Node |-> Best(Stored(rows, n), K)]
  BY ListsAreBest DEF BuildInv, Finalize
<1>2. count' = rows /\ todo' = todo /\ rows' = NoDelta /\ finalized'
  BY DEF Finalize
<1>3. ASSUME NEW n \in Inner
      PROVE  IsFiniteSet(top'[n]) /\ IsTopK(top'[n], Stored(count', n))
  <2>1. n \in Node
    BY DEF Node
  <2>2. IsEntries(Stored(rows, n)) /\ IsFiniteSet(Stored(rows, n))
    BY <1>1, <2>1, StoredAreEntries, StoredFinite
  <2> QED
    BY <1>1, <1>2, <2>1, <2>2, BestIsTopK
<1>4. ListsAreTopK' /\ DOMAIN top' = Node
  BY <1>1, <1>3 DEF ListsAreTopK
<1>5. TrieInv'
  BY <1>1, <1>2, <1>3, <1>4 DEF BuildInv, TrieInv, TrieTypes
<1>6. rows' \in [Query -> Nat]
  BY <1>2 DEF NoDelta
<1> QED
  BY <1>1, <1>2, <1>5, <1>6 DEF BuildInv

LEMMA BuildInvStep == BuildInv /\ [BuildNext]_buildVars => BuildInv'
<1> SUFFICES ASSUME BuildInv, [BuildNext]_buildVars PROVE BuildInv'
  OBVIOUS
<1>1. ASSUME NEW q \in Query, NEW c \in 1 .. MaxCount, Insert(q, c) PROVE BuildInv'
  <2>1. rows' \in [Query -> Nat] /\ UNCHANGED <<trieVars, finalized>>
    BY <1>1, TrieAssumption DEF Insert
  <2>2. TrieInv'
    BY <2>1, TrieInvStep DEF BuildInv
  <2> QED
    BY <2>1, <2>2 DEF BuildInv, trieVars
<1>2. CASE Finalize
  BY <1>2, FinalizeInv
<1>3. CASE Serve
  BY <1>3, TrieInvStep DEF Serve, BuildInv
<1>4. CASE UNCHANGED buildVars
  <2>1. UNCHANGED <<trieVars, rows, finalized>>
    BY <1>4 DEF buildVars
  <2>2. TrieInv'
    BY <2>1, TrieInvStep DEF BuildInv
  <2> QED
    BY <2>1, <2>2 DEF BuildInv, trieVars
<1> QED
  BY <1>1, <1>2, <1>3, <1>4 DEF BuildNext

\* Finalize gives every node, the root included, the best K queries of its
\* whole subtree, although it merges no more than K queries of each child: for
\* any tree, any list length and any rows.
THEOREM FinalizeIsCorrect == BuildSpec => FinalizeIsTopK
<1>1. BuildInv /\ [BuildNext]_buildVars =>
        [finalized' /\ ~finalized => \A n \in Node : top'[n] = Best(Stored(rows, n), K)]_buildVars
  <2> SUFFICES ASSUME BuildInv, BuildNext, finalized', ~finalized
               PROVE  \A n \in Node : top'[n] = Best(Stored(rows, n), K)
    OBVIOUS
  <2>1. Finalize
    BY DEF BuildNext, Insert, Serve
  <2> QED
    BY <2>1, FinalizeInv
<1> QED
  BY <1>1, BuildInvInit, BuildInvStep, PTL DEF BuildSpec, FinalizeIsTopK

\* After any sequence of batches, applied in any order, every list a lookup
\* can reach is a top-k of its subtree with current counts, although no list
\* is ever computed again from the lists below it: in a trie that serves, and
\* from the first row inserted on.
THEOREM ListsStayTopK == (TrieSpec => []ListsAreTopK) /\ (BuildSpec => []ListsAreTopK)
<1>1. TrieInv => ListsAreTopK
  BY DEF TrieInv
<1>2. TrieSpec => []ListsAreTopK
  BY <1>1, TrieInvInit, TrieInvStep, PTL DEF TrieSpec
<1>3. BuildInv => ListsAreTopK
  BY <1>1 DEF BuildInv
<1>4. BuildSpec => []ListsAreTopK
  BY <1>3, BuildInvInit, BuildInvStep, PTL DEF BuildSpec
<1> QED
  BY <1>2, <1>4

\* What a lookup loses from a list it loses to something better: no list gets
\* shorter, and a full one only exchanges entries for larger counts.
THEOREM ListsKeepImproving == (TrieSpec => ListsOnlyImprove) /\ (BuildSpec => ListsOnlyImprove)
<1>1. (\A n \in Inner : Better(n)) <=>
        \A n \in Inner :
          /\ Cardinality(top[n]) <= Cardinality(top'[n])
          /\ Cardinality(top[n]) = K =>
               \A r \in top'[n] : \E s \in top[n] : s.count <= r.count
  BY DEF Better
<1>2. TrieSpec => ListsOnlyImprove
  BY <1>1, BatchImproves, TrieInvInit, TrieInvStep, PTL DEF TrieSpec, ListsOnlyImprove
<1>3. BuildInv /\ [BuildNext]_buildVars => [\A n \in Inner : Better(n)]_trieVars
  <2> SUFFICES ASSUME BuildInv, [BuildNext]_buildVars, ~UNCHANGED trieVars
               PROVE  \A n \in Inner : Better(n)
    OBVIOUS
  <2>1. Finalize \/ TrieNext
    BY DEF BuildNext, Insert, Serve, buildVars
  <2>2. ASSUME Finalize, NEW n \in Inner PROVE Better(n)
    <3>1. top[n] = {} /\ Cardinality(top[n]) = 0 /\ K # 0
      BY <2>2, FS_EmptySet, ShapeAssumption DEF BuildInv, Finalize
    <3>2. Cardinality(top'[n]) \in Nat
      BY <2>2, FinalizeInv, FS_CardinalityType DEF BuildInv, TrieInv, TrieTypes
    <3> QED
      BY <3>1, <3>2 DEF Better
  <2> QED
    BY <2>1, <2>2, BatchImproves DEF BuildInv
<1>4. BuildSpec => ListsOnlyImprove
  BY <1>1, <1>3, BuildInvInit, BuildInvStep, PTL DEF BuildSpec, ListsOnlyImprove
<1> QED
  BY <1>2, <1>4

===============================================================================
