--------------------------- MODULE MemoryNodeProofs ---------------------------
(***************************************************************************)
(* What the operations of a cache node do to its entries, for any entries  *)
(* with a key, any capacity and any lifetime.  A node is sound when no two *)
(* of its entries have one key; its entries are then the set ToSet(node).  *)
(***************************************************************************)
EXTENDS MemoryNode, FiniteSetTheorems, FunctionTheorems, SequenceTheorems, TLAPS

\* No two entries of the node have one key, as the map of the code sees to.
OneEach(node) == \A i, j \in DOMAIN node : node[i].key = node[j].key => i = j

\* A sequence without one of its elements keeps the others in order.
LEMMA RemoveAtProperties ==
    ASSUME NEW S, NEW s \in Seq(S), NEW i \in 1 .. Len(s)
    PROVE  /\ RemoveAt(s, i) \in Seq(S)
           /\ Len(RemoveAt(s, i)) = Len(s) - 1
           /\ \A j \in 1 .. Len(s) - 1 :
                RemoveAt(s, i)[j] = IF j < i THEN s[j] ELSE s[j + 1]
<1> DEFINE front == SubSeq(s, 1, i - 1)
           back == SubSeq(s, i + 1, Len(s))
<1>1. /\ front \in Seq(S) /\ Len(front) = i - 1
      /\ \A j \in 1 .. i - 1 : front[j] = s[j]
  BY SubSeqProperties, LenProperties
<1>2. /\ back \in Seq(S) /\ Len(back) = Len(s) - i
      /\ \A j \in 1 .. Len(s) - i : back[j] = s[i + j]
  BY SubSeqProperties, LenProperties
<1> HIDE DEF front, back
<1>3. Len(s) \in Nat
  BY LenProperties
<1>4. /\ front \o back \in Seq(S)
      /\ Len(front \o back) = Len(front) + Len(back)
      /\ \A j \in 1 .. Len(front) + Len(back) :
           (front \o back)[j] = IF j <= Len(front) THEN front[j]
                                ELSE back[j - Len(front)]
  BY <1>1, <1>2, ConcatProperties
<1>5. Len(front) + Len(back) = Len(s) - 1
  BY <1>1, <1>2, <1>3
<1>6. ASSUME NEW j \in 1 .. Len(s) - 1
      PROVE  (front \o back)[j] = IF j < i THEN s[j] ELSE s[j + 1]
  <2>1. CASE j < i
    BY <2>1, <1>1, <1>3, <1>4, <1>5
  <2>2. CASE ~(j < i)
    <3>1. j - (i - 1) \in 1 .. Len(s) - i /\ i + (j - (i - 1)) = j + 1
      BY <2>2, <1>3
    <3>2. (front \o back)[j] = back[j - (i - 1)]
      BY <2>2, <1>1, <1>3, <1>4, <1>5
    <3> QED
      BY <2>2, <3>1, <3>2, <1>2
  <2> QED
    BY <2>1, <2>2
<1>7. RemoveAt(s, i) = front \o back
  BY DEF RemoveAt, front, back
<1> QED
  BY <1>4, <1>5, <1>6, <1>7

\* Delete takes the entry of the key out, and no other.
LEMMA WithoutProperties ==
    ASSUME NEW E, NEW node \in Seq(E), OneEach(node), NEW k
    PROVE  /\ Without(node, k) \in Seq(E) /\ OneEach(Without(node, k))
           /\ Len(Without(node, k)) =
                Len(node) - (IF k \in Keys(node) THEN 1 ELSE 0)
           /\ ToSet(Without(node, k)) = {e \in ToSet(node) : e.key # k}
<1>0. Len(node) \in Nat /\ DOMAIN node = 1 .. Len(node)
  BY LenProperties
<1>1. CASE k \notin Keys(node)
  BY <1>0, <1>1 DEF Without, Keys, ToSet
<1>2. CASE k \in Keys(node)
  <2> DEFINE i == Place(node, k)
             w == Without(node, k)
  <2>1. i \in 1 .. Len(node) /\ node[i].key = k
    BY <1>0, <1>2 DEF Keys, Place
  <2>2. /\ w \in Seq(E) /\ Len(w) = Len(node) - 1
        /\ \A j \in 1 .. Len(node) - 1 : w[j] = IF j < i THEN node[j] ELSE node[j + 1]
    BY <1>2, <2>1, RemoveAtProperties DEF Without
  <2>3. DOMAIN w = 1 .. Len(node) - 1
    BY <2>2, LenProperties
  <2> HIDE DEF i, w
  <2>4. OneEach(w)
    <3> SUFFICES ASSUME NEW a \in DOMAIN w, NEW b \in DOMAIN w, w[a].key = w[b].key
                 PROVE  a = b
      BY DEF OneEach
    <3> DEFINE at(j) == IF j < i THEN j ELSE j + 1
    <3>1. at(a) \in DOMAIN node /\ at(b) \in DOMAIN node
      BY <1>0, <2>1, <2>3
    <3>2. node[at(a)].key = node[at(b)].key
      BY <2>2, <2>3
    <3>3. at(a) = at(b)
      BY <3>1, <3>2 DEF OneEach
    <3> QED
      BY <3>3, <1>0, <2>1, <2>3
  <2>5. ASSUME NEW e \in ToSet(w)
        PROVE  e \in ToSet(node) /\ e.key # k
    <3>1. PICK a \in DOMAIN w : e = w[a]
      BY DEF ToSet
    <3> DEFINE c == IF a < i THEN a ELSE a + 1
    <3>2. c \in DOMAIN node /\ c # i /\ e = node[c]
      BY <3>1, <1>0, <2>1, <2>2, <2>3
    <3> QED
      BY <3>2, <2>1, <1>0 DEF ToSet, OneEach
  <2>6. ASSUME NEW e \in ToSet(node), e.key # k
        PROVE  e \in ToSet(w)
    <3>1. PICK c \in DOMAIN node : e = node[c]
      BY DEF ToSet
    <3>2. c # i
      BY <3>1, <2>1, <2>6
    <3> DEFINE a == IF c < i THEN c ELSE c - 1
    <3>3. a \in DOMAIN w /\ w[a] = e
      BY <3>1, <3>2, <1>0, <2>1, <2>2, <2>3
    <3> QED
      BY <3>3 DEF ToSet
  <2> QED
    BY <2>2, <2>4, <2>5, <2>6, <1>2 DEF w
<1> QED
  BY <1>1, <1>2

\* An entry put at the front of a node that has none for its key.
LEMMA PushProperties ==
    ASSUME NEW E, NEW node \in Seq(E), OneEach(node), NEW e \in E,
           \A f \in ToSet(node) : f.key # e.key
    PROVE  /\ <<e>> \o node \in Seq(E) /\ OneEach(<<e>> \o node)
           /\ Len(<<e>> \o node) = Len(node) + 1
           /\ ToSet(<<e>> \o node) = {e} \cup ToSet(node)
           /\ \A i \in 1 .. Len(node) + 1 :
                (<<e>> \o node)[i] = IF i = 1 THEN e ELSE node[i - 1]
<1> DEFINE s == <<e>> \o node
<1>0. Len(node) \in Nat /\ DOMAIN node = 1 .. Len(node)
  BY LenProperties
<1>1. <<e>> \in Seq(E) /\ Len(<<e>>) = 1 /\ <<e>>[1] = e
  OBVIOUS
<1>2. /\ s \in Seq(E) /\ Len(s) = Len(node) + 1
      /\ \A i \in 1 .. Len(node) + 1 : s[i] = IF i = 1 THEN e ELSE node[i - 1]
  BY <1>0, <1>1, ConcatProperties
<1>3. DOMAIN s = 1 .. Len(node) + 1
  BY <1>2, LenProperties
<1> HIDE DEF s
<1>4. \A i \in DOMAIN s : i # 1 => i - 1 \in DOMAIN node /\ s[i] = node[i - 1]
  BY <1>0, <1>2, <1>3
<1>5. \A i \in DOMAIN node : i + 1 \in DOMAIN s /\ s[i + 1] = node[i]
  BY <1>0, <1>2, <1>3
<1>6. 1 \in DOMAIN s /\ s[1] = e
  BY <1>0, <1>2, <1>3
<1>7. ToSet(s) = {e} \cup ToSet(node)
  BY <1>4, <1>5, <1>6 DEF ToSet
<1>8. OneEach(s)
  <2> SUFFICES ASSUME NEW i \in DOMAIN s, NEW j \in DOMAIN s, s[i].key = s[j].key
               PROVE  i = j
    BY DEF OneEach
  <2>1. CASE i = 1 /\ j # 1
    BY <2>1, <1>4, <1>6 DEF ToSet
  <2>2. CASE i # 1 /\ j = 1
    BY <2>2, <1>4, <1>6 DEF ToSet
  <2>3. CASE i # 1 /\ j # 1
    <3>1. i - 1 = j - 1
      BY <2>3, <1>4 DEF OneEach
    <3> QED
      BY <3>1, <1>0, <1>3
  <2> QED
    BY <2>1, <2>2, <2>3
<1> QED
  BY <1>2, <1>7, <1>8 DEF s

\* The entry of a key that the node has.
LEMMA EntryOfProperties ==
    ASSUME NEW node, NEW k \in Keys(node)
    PROVE  EntryOf(node, k) \in ToSet(node) /\ EntryOf(node, k).key = k
BY DEF EntryOf, Place, Keys, ToSet

\* A key that is not there after Get was not there, or its entry had expired;
\* the entries that stay are the ones that were there.
LEMMA AfterGetProperties ==
    ASSUME NEW E, NEW node \in Seq(E), OneEach(node), NEW k
    PROVE  /\ AfterGet(node, k) \in Seq(E) /\ OneEach(AfterGet(node, k))
           /\ Len(AfterGet(node, k)) <= Len(node)
           /\ ToSet(AfterGet(node, k)) \subseteq ToSet(node)
<1> DEFINE w == Without(node, k)
           e == EntryOf(node, k)
<1>1. /\ w \in Seq(E) /\ OneEach(w)
      /\ Len(w) = Len(node) - (IF k \in Keys(node) THEN 1 ELSE 0)
      /\ ToSet(w) = {f \in ToSet(node) : f.key # k}
  BY WithoutProperties
<1>2. Len(node) \in Nat /\ DOMAIN node = 1 .. Len(node) /\ ToSet(node) \subseteq E
  BY LenProperties, ElementOfSeq DEF ToSet
<1> HIDE DEF w, e
<1>3. CASE Hit(node, k)
  <2>1. k \in Keys(node)
    BY <1>3 DEF Hit
  <2>2. e \in ToSet(node) /\ e.key = k
    BY <2>1, EntryOfProperties DEF e
  <2>3. AfterGet(node, k) = <<e>> \o w
    BY <1>3 DEF AfterGet, e, w
  <2>4. e \in E /\ \A f \in ToSet(w) : f.key # e.key
    BY <2>2, <1>1, <1>2
  <2>5. /\ <<e>> \o w \in Seq(E) /\ OneEach(<<e>> \o w)
        /\ Len(<<e>> \o w) = Len(w) + 1 /\ ToSet(<<e>> \o w) = {e} \cup ToSet(w)
    BY <1>1, <2>4, PushProperties
  <2>6. Len(<<e>> \o w) <= Len(node)
    BY <1>1, <1>2, <2>1, <2>5
  <2>7. ToSet(<<e>> \o w) \subseteq ToSet(node)
    BY <1>1, <2>2, <2>5
  <2> QED
    BY <2>3, <2>5, <2>6, <2>7
<1>4. CASE ~Hit(node, k)
  <2>1. AfterGet(node, k) = w
    BY <1>4 DEF AfterGet, w
  <2>2. Len(w) <= Len(node)
    <3>1. CASE k \in Keys(node)
      BY <3>1, <1>1, <1>2
    <3>2. CASE k \notin Keys(node)
      BY <3>2, <1>1, <1>2
    <3> QED
      BY <3>1, <3>2
  <2>3. ToSet(w) \subseteq ToSet(node)
    BY <1>1
  <2> QED
    BY <1>1, <2>1, <2>2, <2>3
<1> QED
  BY <1>3, <1>4

\* A new entry replaces the one of its key; the other entries are untouched.
LEMMA ReplaceProperties ==
    ASSUME NEW E, NEW node \in Seq(E), OneEach(node), NEW e \in E
    PROVE  LET s == <<e>> \o Without(node, e.key)
           IN  /\ s \in Seq(E) /\ OneEach(s) /\ Len(s) <= Len(node) + 1
               /\ ToSet(s) = {e} \cup {f \in ToSet(node) : f.key # e.key}
<1> DEFINE w == Without(node, e.key)
<1>1. /\ w \in Seq(E) /\ OneEach(w)
      /\ Len(w) = Len(node) - (IF e.key \in Keys(node) THEN 1 ELSE 0)
      /\ ToSet(w) = {f \in ToSet(node) : f.key # e.key}
  BY WithoutProperties
<1>2. Len(node) \in Nat
  BY LenProperties
<1> HIDE DEF w
<1>3. /\ <<e>> \o w \in Seq(E) /\ OneEach(<<e>> \o w)
      /\ Len(<<e>> \o w) = Len(w) + 1 /\ ToSet(<<e>> \o w) = {e} \cup ToSet(w)
  BY <1>1, PushProperties
<1> QED
  BY <1>1, <1>2, <1>3 DEF w

\* Set leaves the new entry, and of the others what the capacity allows.
LEMMA AfterSetProperties ==
    ASSUME NEW E, NEW node \in Seq(E), OneEach(node), NEW k, NEW v, NewEntry(k, v) \in E
    PROVE  /\ AfterSet(node, k, v) \in Seq(E) /\ OneEach(AfterSet(node, k, v))
           /\ Len(AfterSet(node, k, v)) <= MaxKeys
           /\ ToSet(AfterSet(node, k, v)) \subseteq
                {NewEntry(k, v)} \cup {f \in ToSet(node) : f.key # k}
<1> DEFINE e == NewEntry(k, v)
           s == <<e>> \o Without(node, k)
           n == IF Len(s) > MaxKeys THEN MaxKeys ELSE Len(s)
<1>1. e.key = k
  BY DEF NewEntry
<1>2. /\ s \in Seq(E) /\ OneEach(s)
      /\ ToSet(s) = {e} \cup {f \in ToSet(node) : f.key # k}
  BY <1>1, ReplaceProperties
<1>3. AfterSet(node, k, v) = SubSeq(s, 1, n)
  BY DEF AfterSet
<1> HIDE DEF e, s
<1>4. Len(s) \in Nat /\ DOMAIN s = 1 .. Len(s) /\ MaxKeys \in Nat
  BY <1>2, LenProperties, NodeAssumption
<1>5. n \in 0 .. Len(s) /\ n <= MaxKeys
  BY <1>4
<1> HIDE DEF n
<1>6. /\ SubSeq(s, 1, n) \in Seq(E) /\ Len(SubSeq(s, 1, n)) = n
      /\ \A i \in 1 .. n : SubSeq(s, 1, n)[i] = s[i]
  BY <1>2, <1>4, <1>5, SubSeqProperties
<1>7. DOMAIN SubSeq(s, 1, n) = 1 .. n /\ 1 .. n \subseteq DOMAIN s
  BY <1>4, <1>5, <1>6, LenProperties
<1>8. ToSet(SubSeq(s, 1, n)) \subseteq ToSet(s)
  BY <1>6, <1>7 DEF ToSet
<1>9. OneEach(SubSeq(s, 1, n))
  BY <1>2, <1>6, <1>7 DEF OneEach
<1> QED
  BY <1>2, <1>3, <1>5, <1>6, <1>8, <1>9 DEF e

\* A node as long as it has keys.
LEMMA KeysCount ==
    ASSUME NEW E, NEW node \in Seq(E), OneEach(node)
    PROVE  IsFiniteSet(Keys(node)) /\ Cardinality(Keys(node)) = Len(node)
<1> DEFINE f == [i \in 1 .. Len(node) |-> node[i].key]
<1>1. Len(node) \in Nat /\ DOMAIN node = 1 .. Len(node)
  BY LenProperties
<1>2. f \in Bijection(1 .. Len(node), Keys(node))
  BY <1>1 DEF Bijection, Injection, IsInjective, Surjection, OneEach, Keys
<1>3. IsFiniteSet(1 .. Len(node)) /\ Cardinality(1 .. Len(node)) = Len(node)
  BY <1>1, FS_Interval
<1>4. ExistsBijection(1 .. Len(node), Keys(node))
  BY <1>2 DEF ExistsBijection
<1> QED
  BY <1>3, <1>4, FS_Bijection

\* The clock changes the lifetimes alone.
LEMMA OlderProperties ==
    ASSUME NEW E, NEW node \in Seq(E), OneEach(node), NEW F,
           \A e \in E : /\ [e EXCEPT !.left = IF @ < 0 THEN @ ELSE @ - 1] \in F
                        /\ [e EXCEPT !.left = IF @ < 0 THEN @ ELSE @ - 1].key = e.key
    PROVE  /\ Older(node) \in Seq(F) /\ OneEach(Older(node))
           /\ Len(Older(node)) = Len(node)
           /\ \A i \in DOMAIN node :
                Older(node)[i] = [node[i] EXCEPT !.left = IF @ < 0 THEN @ ELSE @ - 1]
<1>1. Len(node) \in Nat /\ DOMAIN node = 1 .. Len(node)
  BY LenProperties
<1>2. \A i \in DOMAIN node : node[i] \in E
  BY <1>1, ElementOfSeq
<1>3. /\ DOMAIN Older(node) = 1 .. Len(node)
      /\ \A i \in 1 .. Len(node) :
            /\ Older(node)[i] = [node[i] EXCEPT !.left = IF @ < 0 THEN @ ELSE @ - 1]
            /\ Older(node)[i] \in F /\ Older(node)[i].key = node[i].key
  BY <1>1, <1>2 DEF Older
<1>4. Older(node) \in [1 .. Len(node) -> F]
  BY <1>3 DEF Older
<1>5. Older(node) \in Seq(F)
  BY <1>1, <1>4, SeqDef
<1>6. Len(Older(node)) = Len(node)
  BY <1>1, <1>3, <1>5, LenProperties
<1> QED
  BY <1>1, <1>3, <1>5, <1>6 DEF OneEach

\* New values under the old keys.
LEMMA SameKeys ==
    ASSUME NEW E, NEW node \in Seq(E), OneEach(node), NEW F, NEW m,
           m = [i \in DOMAIN node |-> m[i]],
           \A i \in DOMAIN node : m[i] \in F /\ m[i].key = node[i].key
    PROVE  /\ m \in Seq(F) /\ OneEach(m) /\ Len(m) = Len(node) /\ DOMAIN m = DOMAIN node
           /\ Keys(m) = Keys(node)
<1>1. Len(node) \in Nat /\ DOMAIN node = 1 .. Len(node)
  BY LenProperties
<1>2. m \in [1 .. Len(node) -> F]
  BY <1>1
<1>3. m \in Seq(F)
  BY <1>1, <1>2, SeqDef
<1>4. DOMAIN m = DOMAIN node /\ Len(m) = Len(node)
  BY <1>1, <1>2, <1>3, LenProperties
<1>5. OneEach(m) /\ Keys(m) = Keys(node)
  BY <1>4 DEF OneEach, Keys
<1> QED
  BY <1>3, <1>4, <1>5

=============================================================================
