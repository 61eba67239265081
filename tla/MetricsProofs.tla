---------------------------- MODULE MetricsProofs ----------------------------
(***************************************************************************)
(* A page of metrics agrees with itself, no sample is lost, and a quantile *)
(* falls short of its share by less than a sample, unless it is the last   *)
(* bound: for any number of requests, any histogram and any interleaving   *)
(* of its requests with the handler that reads it.                         *)
(***************************************************************************)
EXTENDS Metrics, FiniteSetTheorems, TLAPS

\* The requests between cache.Get and Observe.
Ranked(k) == {r \in Request : request[r].at = "ranked" /\ request[r].kind = k}

CountersOK ==
    /\ tally \in [Kind -> Nat] /\ count \in [Kind -> Nat]
    /\ request \in [Request -> [at : {"idle", "ranked", "counted"}, kind : Kind, us : Nat]]

PageOK ==
    /\ page.part \in 1 .. 5
    /\ page.read \in [{"cached", "cold", "hits", "misses"} -> Nat]
    /\ page = [part |-> page.part, read |-> page.read]

\* Every read is counted in a histogram, or about to be.
AllObserved == \A k \in Kind : tally[k] = count[k] + Cardinality(Ranked(k))

\* What the page has read.  The counts it reads only grow, and the cache's
\* are read after those of the histograms.
ReadSoFar ==
    /\ \A k \in Kind : page.read[k] <= count[k]
    /\ page.part > 3 => page.read["cached"] <= page.read["hits"]
    /\ page.part > 4 => page.read["cold"] <= page.read["misses"]

MetricsInv == CountersOK /\ PageOK /\ AllObserved /\ ReadSoFar

LEMMA PartsAre ==
    /\ Len(Parts) = 4
    /\ Parts[1] = "cached" /\ Parts[2] = "cold" /\ Parts[3] = "hits" /\ Parts[4] = "misses"
    /\ ToSet(Parts) = {"cached", "cold", "hits", "misses"}
<1>1. /\ Len(Parts) = 4 /\ DOMAIN Parts = 1 .. 4
      /\ Parts[1] = "cached" /\ Parts[2] = "cold" /\ Parts[3] = "hits" /\ Parts[4] = "misses"
  BY DEF Parts
<1>2. ToSet(Parts) = {Parts[1], Parts[2], Parts[3], Parts[4]}
  BY <1>1 DEF ToSet
<1> QED
  BY <1>1, <1>2

LEMMA RankedFinite ==
    ASSUME NEW k
    PROVE  IsFiniteSet(Ranked(k)) /\ Cardinality(Ranked(k)) \in Nat
<1>1. IsFiniteSet(Request) /\ Ranked(k) \subseteq Request
  BY MetricsAssumption DEF Ranked
<1> QED
  BY <1>1, FS_Subset, FS_CardinalityType

LEMMA MetricsInvInit == MetricsInit => MetricsInv
<1> SUFFICES ASSUME MetricsInit
             PROVE  MetricsInv
  OBVIOUS
<1> USE DEF MetricsInit
<1>1. CountersOK
  BY DEF CountersOK, Kind, Idle
<1>2. PageOK
  BY PartsAre DEF PageOK
<1>3. \A k \in Kind : Cardinality(Ranked(k)) = 0
  <2>1. \A k \in Kind : Ranked(k) = {}
    BY DEF Ranked, Idle
  <2> QED
    BY <2>1, FS_EmptySet
<1>4. AllObserved
  BY <1>3 DEF AllObserved
<1>5. ReadSoFar
  BY PartsAre DEF ReadSoFar, Kind
<1> QED
  BY <1>1, <1>2, <1>4, <1>5 DEF MetricsInv

LEMMA LookupInv ==
    ASSUME MetricsInv, NEW r \in Request, NEW k \in Kind, Lookup(r, k)
    PROVE  MetricsInv'
<1> USE DEF MetricsInv, Lookup
<1>1. CountersOK'
  BY DEF CountersOK
<1>2. PageOK' /\ ReadSoFar'
  BY DEF PageOK, ReadSoFar
<1>3. AllObserved'
  <2>1. Ranked(k)' = Ranked(k) \cup {r} /\ r \notin Ranked(k)
    BY DEF CountersOK, Ranked
  <2>2. \A m \in Kind \ {k} : Ranked(m)' = Ranked(m)
    BY DEF CountersOK, Ranked
  <2>3. Cardinality(Ranked(k)') = Cardinality(Ranked(k)) + 1
    BY <2>1, RankedFinite, FS_AddElement
  <2> QED
    BY <2>2, <2>3, RankedFinite DEF CountersOK, AllObserved
<1> QED
  BY <1>1, <1>2, <1>3

LEMMA CountSampleInv ==
    ASSUME MetricsInv, NEW r \in Request, NEW us \in Latency, CountSample(r, us)
    PROVE  MetricsInv'
<1> USE MetricsAssumption DEF MetricsInv, CountSample
<1> DEFINE k == request[r].kind
<1>1. k \in Kind /\ CountersOK'
  BY DEF CountersOK
<1>2. PageOK'
  BY DEF PageOK
<1>3. ReadSoFar'
  <2>1. \A m \in Kind : count[m] \in Nat /\ count'[m] >= count[m]
    BY DEF CountersOK
  <2>2. page' = page /\ \A m \in Kind : page.read[m] \in Nat
    BY DEF PageOK, Kind
  <2> QED
    BY <1>1, <2>1, <2>2 DEF CountersOK, ReadSoFar
<1>4. AllObserved'
  <2>1. Ranked(k)' = Ranked(k) \ {r} /\ r \in Ranked(k)
    BY DEF CountersOK, Ranked
  <2>2. \A m \in Kind \ {k} : Ranked(m)' = Ranked(m)
    BY DEF CountersOK, Ranked
  <2>3. Cardinality(Ranked(k)') = Cardinality(Ranked(k)) - 1
    <3>1. IsFiniteSet(Ranked(k))
      BY RankedFinite
    <3> QED
      BY <2>1, <3>1, FS_RemoveElement
  <2> QED
    BY <1>1, <2>2, <2>3, RankedFinite DEF CountersOK, AllObserved
<1> QED
  BY <1>1, <1>2, <1>3, <1>4

LEMMA FillBucketInv ==
    ASSUME MetricsInv, NEW r \in Request, FillBucket(r)
    PROVE  MetricsInv'
<1> USE DEF MetricsInv, FillBucket, Idle
<1>1. CountersOK'
  BY DEF CountersOK, Kind
<1>2. PageOK' /\ ReadSoFar'
  BY DEF PageOK, ReadSoFar
<1>3. \A k \in Kind : Ranked(k)' = Ranked(k)
  BY DEF CountersOK, Ranked
<1>4. AllObserved'
  BY <1>3 DEF AllObserved
<1> QED
  BY <1>1, <1>2, <1>4

\* The handler only reads.
LEMMA PageStepInv ==
    ASSUME MetricsInv, Ask \/ LoadCount \/ LoadBucket \/ LoadTally
    PROVE  MetricsInv'
<1> USE DEF MetricsInv
<1>1. UNCHANGED <<tally, count, request>>
  BY DEF Ask, LoadCount, LoadBucket, LoadTally, counters
<1>2. CountersOK' /\ AllObserved'
  BY <1>1 DEF CountersOK, AllObserved, Ranked
<1>3. CASE Ask
  <2>1. page' = [page EXCEPT !.part = 1]
    BY <1>3 DEF Ask
  <2>2. PageOK' /\ ReadSoFar'
    BY <1>1, <2>1 DEF PageOK, ReadSoFar
  <2> QED
    BY <1>2, <2>2
<1>4. CASE LoadCount
  <2>1. page.part \in {1, 2} /\ Part \in Kind /\ count[Part] \in Nat
    BY <1>4, PartsAre DEF LoadCount, Reading, Part, PageOK, CountersOK, Kind
  <2>2. /\ page'.part \in {page.part, page.part + 1}
        /\ page'.read = [page.read EXCEPT ![Part] = count[Part]]
        /\ PageOK'
    BY <1>4, <2>1 DEF LoadCount, PageOK, Kind
  <2>3. ReadSoFar'
    BY <1>1, <2>1, <2>2 DEF PageOK, ReadSoFar, Kind
  <2> QED
    BY <1>2, <2>2, <2>3
<1>5. CASE LoadBucket
  <2>1. page.part \in {1, 2}
    BY <1>5, PartsAre DEF LoadBucket, Reading, Part, PageOK, Kind
  <2>2. page'.part \in {page.part, page.part + 1} /\ page'.read = page.read /\ PageOK'
    BY <1>5, <2>1 DEF LoadBucket, EndQuantile, NextPart, PageOK
  <2>3. ReadSoFar'
    BY <1>1, <2>1, <2>2 DEF ReadSoFar
  <2> QED
    BY <1>2, <2>2, <2>3
<1>6. CASE LoadTally
  <2>1. \/ page.part = 3 /\ Part = "hits"
        \/ page.part = 4 /\ Part = "misses"
    BY <1>6, PartsAre DEF LoadTally, Reading, Part, PageOK
  <2>2. \A k \in Kind : tally[k] \in Nat /\ page.read[k] <= tally[k]
    BY RankedFinite DEF CountersOK, PageOK, AllObserved, ReadSoFar, Kind
  <2>3. /\ page'.part = page.part + 1
        /\ page'.read = [page.read EXCEPT
                           ![Part] = tally[IF Part = "hits" THEN "cached" ELSE "cold"]]
        /\ PageOK'
    BY <1>6, <2>1, <2>2 DEF LoadTally, PageOK, Kind
  <2>4. ReadSoFar'
    BY <1>1, <2>1, <2>2, <2>3 DEF PageOK, ReadSoFar, Kind
  <2> QED
    BY <1>2, <2>3, <2>4
<1> QED
  BY <1>3, <1>4, <1>5, <1>6

LEMMA MetricsInvHolds == MetricsSpec => []MetricsInv
<1>1. MetricsInv /\ [MetricsNext]_metricsVars => MetricsInv'
  <2> SUFFICES ASSUME MetricsInv, [MetricsNext]_metricsVars
               PROVE  MetricsInv'
    OBVIOUS
  <2>1. CASE UNCHANGED metricsVars
    BY <2>1 DEF metricsVars, MetricsInv, CountersOK, PageOK, AllObserved, ReadSoFar, Ranked
  <2>2. CASE MetricsNext
    BY <2>2, LookupInv, CountSampleInv, FillBucketInv, PageStepInv DEF MetricsNext
  <2> QED
    BY <2>1, <2>2
<1> QED
  BY <1>1, MetricsInvInit, PTL DEF MetricsSpec

-----------------------------------------------------------------------------
(* Sums over buckets, by induction along them.                             *)

\* A set of natural numbers has a least one, unless it is empty.
LEMMA LeastNatural ==
    ASSUME NEW S \in SUBSET Nat, NEW n \in S
    PROVE  \E m \in S : \A k \in S : m <= k
<1> DEFINE R == OpToRel(<, Nat)
<1>1. IsWellFoundedOn(R, Nat)
  BY NatLessThanWellFounded
<1>2. \A k, m \in Nat : k < m => <<k, m>> \in R
  BY DEF OpToRel
<1> HIDE DEF R
<1>3. PICK m \in S : \A k \in S : <<k, m>> \notin R
  BY <1>1, WFMin
<1>4. ASSUME NEW k \in S PROVE m <= k
  <2>1. k \in Nat /\ m \in Nat /\ ~(k < m)
    BY <1>2, <1>3
  <2> QED
    BY <2>1
<1> QED
  BY <1>4

\* What holds of 0, and of a number if of the one before, holds of all: the
\* numbers of which it holds are given as a set.
LEMMA SetInduction ==
    ASSUME NEW N \in Nat, NEW S, 0 \in S, \A i \in 1 .. N : i - 1 \in S => i \in S
    PROVE  \A i \in 0 .. N : i \in S
<1> DEFINE Bad == {i \in 0 .. N : i \notin S}
<1> SUFFICES ASSUME NEW j \in Bad PROVE FALSE
  OBVIOUS
<1>1. PICK m \in Bad : \A k \in Bad : m <= k
  <2>1. Bad \in SUBSET Nat
    OBVIOUS
  <2> HIDE DEF Bad
  <2> QED
    BY <2>1, LeastNatural
<1>2. m \in 1 .. N /\ m - 1 \notin Bad
  BY <1>1
<1> QED
  BY <1>2

LEMMA BoundsAre == Len(Bounds) \in Nat /\ Overflow \in Nat /\ Overflow > 1 /\ Bucket = 1 .. Overflow
<1>1. Len(Bounds) \in Nat /\ Len(Bounds) > 0
  BY MetricsAssumption
<1> QED
  BY <1>1 DEF Overflow, Bucket

IsPartial(b, n, g) == g = [i \in 0 .. n |-> IF i = 0 THEN 0 ELSE g[i - 1] + b[i]]

LEMMA PartialExists ==
    ASSUME NEW b, NEW N \in Nat
    PROVE  \E g : IsPartial(b, N, g)
<1> DEFINE S == {n \in 0 .. N : \E g : IsPartial(b, n, g)}
<1>1. 0 \in S
  <2> DEFINE g == [i \in 0 .. 0 |-> 0]
  <2>1. IsPartial(b, 0, g)
    BY DEF IsPartial
  <2> HIDE DEF g
  <2> QED
    BY <2>1
<1>2. ASSUME NEW n \in 1 .. N, n - 1 \in S PROVE n \in S
  <2>1. PICK g : IsPartial(b, n - 1, g)
    BY <1>2
  <2> DEFINE h == [i \in 0 .. n |-> IF i = n THEN g[n - 1] + b[n] ELSE g[i]]
  <2>2. \A i \in 0 .. n - 1 : h[i] = g[i] /\ g[i] = IF i = 0 THEN 0 ELSE g[i - 1] + b[i]
    BY <2>1 DEF IsPartial
  <2>3. h[n] = h[n - 1] + b[n]
    BY <2>2
  <2>4. \A i \in 0 .. n : h[i] = IF i = 0 THEN 0 ELSE h[i - 1] + b[i]
    <3> SUFFICES ASSUME NEW i \in 0 .. n PROVE h[i] = IF i = 0 THEN 0 ELSE h[i - 1] + b[i]
      OBVIOUS
    <3>1. CASE i = n
      BY <2>3, <3>1
    <3>2. CASE i # n
      <4>1. i \in 0 .. n - 1 /\ (i # 0 => i - 1 \in 0 .. n - 1)
        BY <3>2
      <4> HIDE DEF h
      <4> QED
        BY <2>2, <4>1
    <3> QED
      BY <3>1, <3>2
  <2>5. DOMAIN h = 0 .. n /\ h = [i \in DOMAIN h |-> h[i]]
    OBVIOUS
  <2> HIDE DEF h
  <2>6. IsPartial(b, n, h)
    BY <2>4, <2>5 DEF IsPartial
  <2> QED
    BY <2>6
<1> HIDE DEF S
<1>3. N \in S
  BY <1>1, <1>2, SetInduction
<1> QED
  BY <1>3 DEF S

LEMMA UpToEquations ==
    ASSUME NEW b
    PROVE  /\ UpTo(b, 0) = 0
           /\ \A i \in 1 .. Overflow : UpTo(b, i) = UpTo(b, i - 1) + b[i]
<1> DEFINE g == CHOOSE h : IsPartial(b, Overflow, h)
<1>1. IsPartial(b, Overflow, g)
  BY BoundsAre, PartialExists
<1>2. \A i : UpTo(b, i) = g[i]
  BY DEF UpTo, IsPartial
<1> HIDE DEF g
<1>3. \A i \in 0 .. Overflow : g[i] = IF i = 0 THEN 0 ELSE g[i - 1] + b[i]
  BY <1>1 DEF IsPartial
<1>4. /\ 0 \in 0 .. Overflow
      /\ \A i \in 1 .. Overflow : i \in 0 .. Overflow /\ i # 0
  BY BoundsAre
<1> QED
  BY <1>2, <1>3, <1>4

LEMMA UpToIsNat ==
    ASSUME NEW b \in [Bucket -> Nat]
    PROVE  \A i \in 0 .. Overflow : UpTo(b, i) \in Nat
<1> DEFINE S == {i \in 0 .. Overflow : UpTo(b, i) \in Nat}
<1>1. 0 \in S
  BY BoundsAre, UpToEquations
<1>2. ASSUME NEW i \in 1 .. Overflow, i - 1 \in S PROVE i \in S
  <2>1. UpTo(b, i) = UpTo(b, i - 1) + b[i] /\ b[i] \in Nat /\ i \in 0 .. Overflow
    BY BoundsAre, UpToEquations
  <2> QED
    BY <1>2, <2>1
<1> HIDE DEF S
<1>3. \A i \in 0 .. Overflow : i \in S
  BY <1>1, <1>2, BoundsAre, SetInduction
<1> QED
  BY <1>3 DEF S

\* Sums grow with the buckets.
LEMMA UpToGrows ==
    ASSUME NEW b \in [Bucket -> Nat], NEW c \in [Bucket -> Nat],
           \A j \in Bucket : b[j] <= c[j]
    PROVE  \A i \in 0 .. Overflow : UpTo(b, i) <= UpTo(c, i)
<1> DEFINE S == {i \in 0 .. Overflow : UpTo(b, i) <= UpTo(c, i)}
<1>1. 0 \in S
  BY BoundsAre, UpToEquations
<1>2. ASSUME NEW i \in 1 .. Overflow, i - 1 \in S PROVE i \in S
  <2>1. /\ UpTo(b, i) = UpTo(b, i - 1) + b[i] /\ UpTo(c, i) = UpTo(c, i - 1) + c[i]
        /\ i \in 0 .. Overflow /\ i - 1 \in 0 .. Overflow
    <3>1. UpTo(b, i) = UpTo(b, i - 1) + b[i]
      BY UpToEquations
    <3>2. UpTo(c, i) = UpTo(c, i - 1) + c[i]
      BY UpToEquations
    <3> QED
      BY <3>1, <3>2, BoundsAre
  <2>2. b[i] \in Nat /\ c[i] \in Nat /\ b[i] <= c[i]
    BY BoundsAre
  <2>3. UpTo(b, i - 1) \in Nat /\ UpTo(c, i - 1) \in Nat
    BY <2>1, UpToIsNat
  <2>4. UpTo(b, i - 1) <= UpTo(c, i - 1)
    BY <1>2
  <2> QED
    BY <2>1, <2>2, <2>3, <2>4
<1> HIDE DEF S
<1>3. \A i \in 0 .. Overflow : i \in S
  BY <1>1, <1>2, BoundsAre, SetInduction
<1> QED
  BY <1>3 DEF S

\* One more sample.
LEMMA UpToBump ==
    ASSUME NEW b \in [Bucket -> Nat], NEW j \in Bucket
    PROVE  UpTo([b EXCEPT ![j] = @ + 1], Overflow) = UpTo(b, Overflow) + 1
<1> DEFINE c == [b EXCEPT ![j] = @ + 1]
           S == {i \in 0 .. Overflow : UpTo(c, i) = UpTo(b, i) + (IF j <= i THEN 1 ELSE 0)}
<1>0. j \in 1 .. Overflow /\ c[j] = b[j] + 1 /\ \A i \in Bucket \ {j} : c[i] = b[i]
  BY BoundsAre
<1> HIDE DEF c
<1>1. 0 \in S
  <2>1. UpTo(b, 0) = 0 /\ UpTo(c, 0) = 0
    BY UpToEquations
  <2> QED
    BY <1>0, <2>1, BoundsAre
<1>2. ASSUME NEW i \in 1 .. Overflow, i - 1 \in S PROVE i \in S
  <2>1. /\ UpTo(b, i) = UpTo(b, i - 1) + b[i] /\ UpTo(c, i) = UpTo(c, i - 1) + c[i]
        /\ i \in 0 .. Overflow /\ i - 1 \in 0 .. Overflow
    <3>1. UpTo(b, i) = UpTo(b, i - 1) + b[i]
      BY UpToEquations
    <3>2. UpTo(c, i) = UpTo(c, i - 1) + c[i]
      BY UpToEquations
    <3> QED
      BY <3>1, <3>2, BoundsAre
  <2>2. b[i] \in Nat /\ c[i] = b[i] + (IF i = j THEN 1 ELSE 0)
    BY <1>0, BoundsAre
  <2>3. UpTo(b, i - 1) \in Nat
    BY <2>1, UpToIsNat
  <2>4. UpTo(c, i - 1) = UpTo(b, i - 1) + (IF j <= i - 1 THEN 1 ELSE 0)
    BY <1>2
  <2>5. UpTo(c, i) = UpTo(b, i) + (IF j <= i THEN 1 ELSE 0)
    BY <1>0, <2>1, <2>2, <2>3, <2>4
  <2> QED
    BY <2>1, <2>5
<1> HIDE DEF S
<1>3. \A i \in 0 .. Overflow : i \in S
  BY <1>1, <1>2, BoundsAre, SetInduction
<1>4. Overflow \in S /\ j <= Overflow
  BY <1>0, <1>3, BoundsAre
<1> QED
  BY <1>4 DEF S, c

\* If no sample is in a bucket after m, all are in the buckets up to m.
LEMMA UpToRest ==
    ASSUME NEW b \in [Bucket -> Nat], NEW m \in 0 .. Overflow,
           \A j \in m + 1 .. Overflow : b[j] = 0
    PROVE  UpTo(b, Overflow) = UpTo(b, m)
<1> DEFINE S == {i \in 0 .. Overflow : i >= m => UpTo(b, i) = UpTo(b, m)}
<1>1. 0 \in S
  BY BoundsAre
<1>2. ASSUME NEW i \in 1 .. Overflow, i - 1 \in S PROVE i \in S
  <2> SUFFICES ASSUME i > m PROVE UpTo(b, i) = UpTo(b, m)
    BY BoundsAre
  <2>1. UpTo(b, i) = UpTo(b, i - 1) + b[i] /\ b[i] = 0 /\ i - 1 \in 0 .. Overflow
    <3>1. UpTo(b, i) = UpTo(b, i - 1) + b[i]
      BY UpToEquations
    <3>2. i \in m + 1 .. Overflow /\ i - 1 \in 0 .. Overflow
      BY BoundsAre
    <3> QED
      BY <3>1, <3>2
  <2>2. UpTo(b, i - 1) = UpTo(b, m) /\ UpTo(b, i - 1) \in Nat
    BY <1>2, <2>1, UpToIsNat
  <2> QED
    BY <2>1, <2>2
<1> HIDE DEF S
<1>3. \A i \in 0 .. Overflow : i \in S
  BY <1>1, <1>2, BoundsAre, SetInduction
<1> QED
  BY <1>3, BoundsAre DEF S

LEMMA BucketOfIsBucket ==
    ASSUME NEW us \in Nat
    PROVE  BucketOf(us) \in Bucket
<1> DEFINE S == {i \in 1 .. Len(Bounds) : us <= Bounds[i]} \cup {Overflow}
<1>1. S \subseteq Bucket /\ S \in SUBSET Nat /\ Overflow \in S
  BY BoundsAre DEF Overflow
<1>2. BucketOf(us) = Min(S)
  BY DEF BucketOf
<1> HIDE DEF S
<1>3. PICK m \in S : \A k \in S : m <= k
  BY <1>1, LeastNatural
<1>4. Min(S) \in S
  BY <1>3 DEF Min
<1> QED
  BY <1>1, <1>2, <1>4

-----------------------------------------------------------------------------
(* The histograms.                                                         *)

\* No sample is lost.
BucketsOK ==
    /\ buckets \in [Kind -> [Bucket -> Nat]]
    /\ \A k \in Kind : count[k] = UpTo(buckets[k], Overflow) + Cardinality(Filling(k))

Scans ==
    [total : Nat, q : DOMAIN Percents, i : 0 .. Len(Bounds), cum : Nat,
     start : [Bucket -> Nat] \cup {<<>>}]

\* What the loop of quantile knows of the buckets before scan.i: what it has
\* added up is between what they held at its start and what they hold now,
\* and has not reached the target.
ScanOK ==
    /\ scan \in Scans
    /\ scan.i > 0 =>
         /\ page.part \in {1, 2}
         /\ scan.start \in [Bucket -> Nat]
         /\ \A j \in Bucket : scan.start[j] <= buckets[Part][j]
         /\ UpTo(scan.start, scan.i - 1) <= scan.cum
         /\ scan.cum <= UpTo(buckets[Part], scan.i - 1)
         /\ scan.i > 1 => scan.cum < Target
         /\ scan.total > 0

AnswerOK ==
    /\ answer.kind \in Kind /\ answer.index \in 0 .. Len(Bounds)
    /\ answer.index > 0 => answer.percent \in 1 .. 100 /\ answer.total \in Nat
    /\ QuantileWithinASample

HistogramInv == BucketsOK /\ ScanOK /\ AnswerOK

LEMMA ScanFields ==
    ASSUME NEW s \in Scans
    PROVE  /\ s.total \in Nat /\ s.q \in DOMAIN Percents /\ s.i \in 0 .. Len(Bounds)
           /\ s.cum \in Nat
           /\ s = [total |-> s.total, q |-> s.q, i |-> s.i, cum |-> s.cum,
                   start |-> s.start]
BY DEF Scans

LEMMA ScanFromFields ==
    ASSUME NEW n \in Nat, NEW q \in DOMAIN Percents, NEW i \in 0 .. Len(Bounds),
           NEW c \in Nat, NEW b \in [Bucket -> Nat]
    PROVE  [total |-> n, q |-> q, i |-> i, cum |-> c, start |-> b] \in Scans
BY DEF Scans

LEMMA FillingFinite ==
    ASSUME NEW k
    PROVE  IsFiniteSet(Filling(k)) /\ Cardinality(Filling(k)) \in Nat
<1>1. IsFiniteSet(Request) /\ Filling(k) \subseteq Request
  BY MetricsAssumption DEF Filling
<1> QED
  BY <1>1, FS_Subset, FS_CardinalityType

LEMMA PartKind ==
    /\ page.part \in {1, 2} => Part \in Kind
    /\ PageOK /\ Reading(Kind) => page.part \in {1, 2}
BY PartsAre DEF Part, Kind, Reading, PageOK

\* The target is the share, rounded down.
LEMMA TargetIsShare ==
    ASSUME ScanOK
    PROVE  /\ Percents[scan.q] \in 1 .. 100 /\ scan.total \in Nat /\ Target \in Nat
           /\ Percents[scan.q] * scan.total \in Nat
           /\ 100 * Target <= Percents[scan.q] * scan.total
           /\ 100 * Target > Percents[scan.q] * scan.total - 100
<1>1. scan.total \in Nat /\ Percents[scan.q] \in 1 .. 100
  <2>1. scan.total \in Nat /\ scan.q \in DOMAIN Percents
    BY ScanFields DEF ScanOK
  <2>2. \A i \in DOMAIN Percents : Percents[i] \in 1 .. 100
    <3> DEFINE P == 1 .. 100
    <3>1. Percents \in Seq(P)
      BY MetricsAssumption
    <3> HIDE DEF P
    <3>2. \A i \in DOMAIN Percents : Percents[i] \in P
      BY <3>1
    <3> QED
      BY <3>2 DEF P
  <2> QED
    BY <2>1, <2>2
<1> DEFINE share == Percents[scan.q] * scan.total
<1>2. share \in Nat
  BY <1>1
<1> HIDE DEF share
<1>3. share \div 100 \in Nat /\ 100 * (share \div 100) <= share
      /\ 100 * (share \div 100) > share - 100
  BY <1>2
<1> QED
  BY <1>1, <1>2, <1>3 DEF Target, share

LEMMA HistogramInit == MetricsInit => HistogramInv
<1> SUFFICES ASSUME MetricsInit PROVE HistogramInv
  OBVIOUS
<1> DEFINE zero == [i \in Bucket |-> 0]
<1>1. UpTo(zero, Overflow) = 0
  <2>1. \A j \in 1 .. Overflow : zero[j] = 0
    BY BoundsAre
  <2>2. zero \in [Bucket -> Nat] /\ 0 \in 0 .. Overflow
    BY BoundsAre
  <2> HIDE DEF zero
  <2>3. UpTo(zero, Overflow) = UpTo(zero, 0)
    BY <2>1, <2>2, UpToRest
  <2> QED
    BY <2>3, UpToEquations
<1>2. \A k \in Kind : Filling(k) = {} /\ count[k] = 0 /\ buckets[k] = zero
  BY DEF MetricsInit, Filling, Idle
<1>3. BucketsOK
  <2>1. buckets \in [Kind -> [Bucket -> Nat]]
    BY DEF MetricsInit
  <2> HIDE DEF zero
  <2> QED
    BY <1>1, <1>2, <2>1, FS_EmptySet DEF BucketsOK
<1>4. ScanOK
  BY MetricsAssumption, BoundsAre DEF MetricsInit, NoScan, ScanOK, Scans
<1>5. AnswerOK
  BY BoundsAre DEF MetricsInit, NoAnswer, AnswerOK, QuantileWithinASample, Kind
<1> QED
  BY <1>3, <1>4, <1>5 DEF HistogramInv

\* A request changes the histograms, and neither the page nor the answer.
LEMMA RequestHistogram ==
    ASSUME MetricsInv, HistogramInv, NEW r \in Request,
           \/ \E k \in Kind : Lookup(r, k)
           \/ \E us \in Latency : CountSample(r, us)
           \/ FillBucket(r)
    PROVE  HistogramInv'
<1>1. UNCHANGED <<page, scan, answer>>
  BY DEF Lookup, CountSample, FillBucket
<1>2. request \in [Request -> [at : {"idle", "ranked", "counted"}, kind : Kind, us : Nat]]
      /\ count \in [Kind -> Nat]
  BY DEF MetricsInv, CountersOK
<1>3. /\ buckets' \in [Kind -> [Bucket -> Nat]]
      /\ \A k \in Kind : count'[k] = UpTo(buckets'[k], Overflow) + Cardinality(Filling(k)')
      /\ \A k \in Kind, j \in Bucket : buckets[k][j] <= buckets'[k][j]
  <2>0. \A k \in Kind : buckets[k] \in [Bucket -> Nat]
                        /\ count[k] = UpTo(buckets[k], Overflow) + Cardinality(Filling(k))
    BY DEF HistogramInv, BucketsOK
  <2>1. \A k \in Kind : UpTo(buckets[k], Overflow) \in Nat
    BY <2>0, UpToIsNat, BoundsAre
  <2>2. CASE \E k \in Kind : Lookup(r, k)
    <3>1. \A k \in Kind : Filling(k)' = Filling(k)
      BY <1>2, <2>2 DEF Lookup, Filling
    <3> QED
      BY <2>0, <2>2, <3>1 DEF Lookup, HistogramInv, BucketsOK
  <2>3. ASSUME NEW us \in Latency, CountSample(r, us)
        PROVE  /\ UNCHANGED buckets
               /\ \A k \in Kind : count'[k] = UpTo(buckets'[k], Overflow) + Cardinality(Filling(k)')
    <3>0. PICK m \in Kind : m = request[r].kind
      BY <1>2
    <3>1. count' = [count EXCEPT ![m] = @ + 1] /\ buckets' = buckets
      BY <2>3, <3>0 DEF CountSample
    <3>2. /\ Filling(m)' = Filling(m) \cup {r} /\ r \notin Filling(m)
          /\ \A k \in Kind \ {m} : Filling(k)' = Filling(k)
      BY <1>2, <2>3, <3>0 DEF CountSample, Filling
    <3>3. Cardinality(Filling(m)') = Cardinality(Filling(m)) + 1
      BY <3>2, FillingFinite, FS_AddElement
    <3>4. \A k \in Kind : Cardinality(Filling(k)) \in Nat
      BY FillingFinite
    <3>5. count'[m] = UpTo(buckets'[m], Overflow) + Cardinality(Filling(m)')
      BY <1>2, <2>0, <2>1, <3>1, <3>3, <3>4
    <3>6. \A k \in Kind \ {m} : count'[k] = UpTo(buckets'[k], Overflow) + Cardinality(Filling(k)')
      BY <1>2, <2>0, <3>1, <3>2
    <3>7. \A k \in Kind : count'[k] = UpTo(buckets'[k], Overflow) + Cardinality(Filling(k)')
      BY <3>5, <3>6
    <3> QED
      BY <3>1, <3>7
  <2>4. CASE FillBucket(r)
    <3>0. PICK m \in Kind, j \in Bucket : m = request[r].kind /\ j = BucketOf(request[r].us)
      BY <1>2, BucketOfIsBucket
    <3>1. PICK b : b = [buckets[m] EXCEPT ![j] = @ + 1]
      OBVIOUS
    <3>2. buckets' = [buckets EXCEPT ![m] = b] /\ count' = count
      BY <2>4, <3>0, <3>1 DEF FillBucket
    <3>3. /\ Filling(m)' = Filling(m) \ {r} /\ r \in Filling(m)
          /\ \A k \in Kind \ {m} : Filling(k)' = Filling(k)
      <4>1. /\ request'[r].at = "idle" /\ request[r].at = "counted"
            /\ \A s \in Request \ {r} : request'[s] = request[s]
        BY <1>2, <2>4 DEF FillBucket, Idle
      <4> QED
        BY <3>0, <4>1 DEF Filling
    <3>4. Cardinality(Filling(m)') = Cardinality(Filling(m)) - 1
      <4>1. IsFiniteSet(Filling(m))
        BY FillingFinite
      <4> QED
        BY <3>3, <4>1, FS_RemoveElement
    <3>5. UpTo(b, Overflow) = UpTo(buckets[m], Overflow) + 1
      BY <2>0, <3>1, UpToBump
    <3>6. /\ b \in [Bucket -> Nat]
          /\ \A i \in Bucket : buckets[m][i] <= b[i]
      BY <2>0, <3>1
    <3>7. \A k \in Kind : Cardinality(Filling(k)) \in Nat
      BY FillingFinite
    <3>8. buckets \in [Kind -> [Bucket -> Nat]]
      BY DEF HistogramInv, BucketsOK
    <3>9. /\ buckets' \in [Kind -> [Bucket -> Nat]]
          /\ buckets'[m] = b /\ \A k \in Kind \ {m} : buckets'[k] = buckets[k]
      BY <3>1, <3>2, <3>6, <3>8
    <3>10. \A k \in Kind, i \in Bucket : buckets[k][i] <= buckets'[k][i]
      <4> SUFFICES ASSUME NEW k \in Kind, NEW i \in Bucket
                   PROVE  buckets[k][i] <= buckets'[k][i]
        OBVIOUS
      <4>1. buckets[k][i] \in Nat
        BY <2>0
      <4> QED
        BY <3>6, <3>9, <4>1
    <3>11. count'[m] = UpTo(buckets'[m], Overflow) + Cardinality(Filling(m)')
      BY <2>0, <2>1, <3>1, <3>2, <3>4, <3>5, <3>7, <3>9
    <3>12. \A k \in Kind \ {m} : count'[k] = UpTo(buckets'[k], Overflow) + Cardinality(Filling(k)')
      BY <2>0, <3>2, <3>3, <3>9
    <3>13. \A k \in Kind : count'[k] = UpTo(buckets'[k], Overflow) + Cardinality(Filling(k)')
      BY <3>11, <3>12
    <3> QED
      BY <3>9, <3>10, <3>13
  <2> QED
    BY <2>0, <2>2, <2>3, <2>4 DEF HistogramInv, BucketsOK
<1>4. \A k \in Kind, i \in 0 .. Overflow :
        /\ UpTo(buckets[k], i) <= UpTo(buckets'[k], i)
        /\ UpTo(buckets[k], i) \in Nat /\ UpTo(buckets'[k], i) \in Nat
  <2> SUFFICES ASSUME NEW k \in Kind, NEW i \in 0 .. Overflow
               PROVE  /\ UpTo(buckets[k], i) <= UpTo(buckets'[k], i)
                      /\ UpTo(buckets[k], i) \in Nat /\ UpTo(buckets'[k], i) \in Nat
    OBVIOUS
  <2>1. buckets[k] \in [Bucket -> Nat] /\ buckets'[k] \in [Bucket -> Nat]
    BY <1>3 DEF HistogramInv, BucketsOK
  <2> QED
    BY <1>3, <2>1, UpToGrows, UpToIsNat
<1>5. ScanOK'
  <2>1. Part' = Part /\ Target' = Target
    BY <1>1 DEF Part, Target
  <2>2. CASE scan.i = 0
    BY <1>1, <2>2 DEF HistogramInv, ScanOK
  <2>3. CASE scan.i > 0
    <3>1. /\ Part \in Kind /\ scan.start \in [Bucket -> Nat]
          /\ scan.i - 1 \in 0 .. Overflow /\ scan.cum \in Nat
          /\ \A j \in Bucket : scan.start[j] <= buckets[Part][j]
          /\ scan.cum <= UpTo(buckets[Part], scan.i - 1)
      BY <2>3, PartKind, BoundsAre DEF HistogramInv, ScanOK, Scans, Overflow
    <3>2. \A j \in Bucket : scan.start[j] <= buckets'[Part][j]
      <4> SUFFICES ASSUME NEW j \in Bucket PROVE scan.start[j] <= buckets'[Part][j]
        OBVIOUS
      <4>1. scan.start[j] \in Nat /\ buckets[Part][j] \in Nat /\ buckets'[Part][j] \in Nat
        BY <1>3, <3>1 DEF HistogramInv, BucketsOK
      <4> QED
        BY <1>3, <3>1, <4>1
    <3>3. scan.cum <= UpTo(buckets'[Part], scan.i - 1)
      BY <1>4, <3>1
    <3> QED
      BY <1>1, <2>1, <3>2, <3>3 DEF HistogramInv, ScanOK
  <2> QED
    BY <2>2, <2>3, ScanFields DEF HistogramInv, ScanOK
<1>6. AnswerOK'
  <2>1. answer.index \in 0 .. Overflow /\ answer.kind \in Kind
    BY BoundsAre DEF HistogramInv, AnswerOK, Overflow
  <2>2. /\ UpTo(buckets[answer.kind], answer.index) <= UpTo(buckets'[answer.kind], answer.index)
        /\ UpTo(buckets[answer.kind], answer.index) \in Nat
        /\ UpTo(buckets'[answer.kind], answer.index) \in Nat
    BY <1>4, <2>1
  <2>3. CASE answer.index = 0
    BY <1>1, <2>3 DEF HistogramInv, AnswerOK, QuantileWithinASample
  <2>4. CASE answer.index > 0
    <3> DEFINE share == answer.percent * answer.total
    <3>1. share \in Nat
      <4>1. answer.percent \in 1 .. 100 /\ answer.total \in Nat
        BY <2>4 DEF HistogramInv, AnswerOK
      <4> QED
        BY <4>1
    <3>2. /\ \/ 100 * UpTo(buckets[answer.kind], answer.index) > share - 100
             \/ answer.index = Len(Bounds)
          /\ 100 * UpTo(answer.start, answer.index - 1) < share
      BY <2>4 DEF HistogramInv, AnswerOK, QuantileWithinASample
    <3> HIDE DEF share
    <3>3. \/ 100 * UpTo(buckets'[answer.kind], answer.index) > share - 100
          \/ answer.index = Len(Bounds)
      BY <2>2, <3>1, <3>2
    <3>4. QuantileWithinASample'
      BY <1>1, <2>4, <3>2, <3>3 DEF QuantileWithinASample, share
    <3> QED
      BY <1>1, <2>4, <3>4 DEF HistogramInv, AnswerOK
  <2> QED
    BY <2>1, <2>3, <2>4
<1> QED
  BY <1>3, <1>5, <1>6 DEF HistogramInv, BucketsOK

\* One bucket of quantile: it reaches the target with it, or goes on.
LEMMA LoadBucketHistogram ==
    ASSUME MetricsInv, HistogramInv, LoadBucket
    PROVE  ScanOK' /\ AnswerOK'
<1> DEFINE cum == scan.cum + buckets[Part][scan.i]
           end == cum >= Target \/ scan.i = Len(Bounds)
<1>1. /\ Part \in Kind /\ page.part \in {1, 2} /\ scan.i \in Nat /\ scan.i > 0
      /\ UNCHANGED <<count, buckets, request>>
  BY PartKind, BoundsAre, ScanFields DEF MetricsInv, HistogramInv, ScanOK, LoadBucket, counters
<1>2. /\ scan \in Scans
      /\ scan.start \in [Bucket -> Nat]
      /\ \A j \in Bucket : scan.start[j] <= buckets[Part][j]
      /\ UpTo(scan.start, scan.i - 1) <= scan.cum
      /\ scan.cum <= UpTo(buckets[Part], scan.i - 1)
      /\ scan.i > 1 => scan.cum < Target
      /\ scan.total > 0
  BY <1>1 DEF HistogramInv, ScanOK
<1> HIDE DEF cum
<1>fields. /\ scan.total \in Nat /\ scan.q \in DOMAIN Percents /\ scan.i \in 0 .. Len(Bounds)
      /\ scan.cum \in Nat
      /\ scan = [total |-> scan.total, q |-> scan.q, i |-> scan.i, cum |-> scan.cum,
                 start |-> scan.start]
  BY <1>2, ScanFields
<1>3. /\ scan.i \in 1 .. Len(Bounds) /\ scan.i \in 1 .. Overflow /\ scan.i \in Bucket
      /\ scan.i - 1 \in 0 .. Overflow /\ scan.i \in 0 .. Overflow
  BY <1>1, <1>fields, BoundsAre DEF Overflow
<1>4. buckets \in [Kind -> [Bucket -> Nat]] /\ buckets[Part] \in [Bucket -> Nat]
  BY <1>1 DEF HistogramInv, BucketsOK
<1>5. /\ cum \in Nat
      /\ UpTo(scan.start, scan.i) <= cum /\ cum <= UpTo(buckets[Part], scan.i)
      /\ UpTo(scan.start, scan.i - 1) \in Nat /\ UpTo(buckets[Part], scan.i) \in Nat
      /\ UpTo(scan.start, scan.i) \in Nat
  <2>1. /\ UpTo(scan.start, scan.i) = UpTo(scan.start, scan.i - 1) + scan.start[scan.i]
        /\ UpTo(buckets[Part], scan.i) = UpTo(buckets[Part], scan.i - 1) + buckets[Part][scan.i]
    BY <1>3, UpToEquations
  <2>2. /\ UpTo(scan.start, scan.i - 1) \in Nat /\ UpTo(buckets[Part], scan.i - 1) \in Nat
        /\ UpTo(scan.start, scan.i) \in Nat /\ UpTo(buckets[Part], scan.i) \in Nat
    BY <1>2, <1>3, <1>4, UpToIsNat
  <2>3. /\ scan.start[scan.i] \in Nat /\ buckets[Part][scan.i] \in Nat /\ scan.cum \in Nat
        /\ scan.start[scan.i] <= buckets[Part][scan.i]
    BY <1>2, <1>fields, <1>3, <1>4
  <2>4. cum = scan.cum + buckets[Part][scan.i]
    BY DEF cum
  <2>5. UpTo(scan.start, scan.i - 1) <= scan.cum /\ scan.cum <= UpTo(buckets[Part], scan.i - 1)
    BY <1>2
  <2> QED
    BY <2>1, <2>2, <2>3, <2>4, <2>5
<1>6. /\ Percents[scan.q] \in 1 .. 100 /\ scan.total \in Nat /\ Target \in Nat
      /\ Percents[scan.q] * scan.total \in Nat
      /\ 100 * Target <= Percents[scan.q] * scan.total
      /\ 100 * Target > Percents[scan.q] * scan.total - 100
  BY TargetIsShare DEF HistogramInv
<1>7. CASE ~end
  <2>1. scan' = [scan EXCEPT !.i = @ + 1, !.cum = cum] /\ UNCHANGED <<page, answer>>
    BY <1>7 DEF LoadBucket, cum
  <2>2. Part' = Part /\ Target' = Target
    BY <1>fields, <2>1 DEF Part, Target
  <2>3. scan.i + 1 \in 0 .. Len(Bounds) /\ cum < Target
    BY <1>3, <1>5, <1>6, <1>7, BoundsAre
  <2>4. /\ scan' \in Scans
        /\ scan'.i - 1 = scan.i /\ scan'.cum = cum /\ scan'.start = scan.start
        /\ scan'.total = scan.total
    <3>1. scan' = [total |-> scan.total, q |-> scan.q, i |-> scan.i + 1, cum |-> cum,
                   start |-> scan.start]
      BY <1>fields, <2>1
    <3>2. scan' \in Scans
      BY <1>2, <1>fields, <1>5, <2>3, <3>1, ScanFromFields
    <3> QED
      BY <1>1, <3>1, <3>2
  <2>5. ScanOK'
    BY <1>1, <1>2, <1>5, <2>1, <2>2, <2>3, <2>4 DEF ScanOK
  <2>6. AnswerOK'
    BY <1>1, <2>1 DEF HistogramInv, AnswerOK, QuantileWithinASample
  <2> QED
    BY <2>5, <2>6
<1>8. CASE end
  <2>1. EndQuantile
    BY <1>8 DEF LoadBucket, cum
  <2>2. AnswerOK'
    <3> DEFINE share == Percents[scan.q] * scan.total
    <3>1. /\ answer'.kind = Part /\ answer'.index = scan.i /\ answer'.start = scan.start
          /\ answer'.percent = Percents[scan.q] /\ answer'.total = scan.total
      BY <2>1 DEF EndQuantile
    <3>2. share \in Nat /\ 100 * Target <= share /\ 100 * Target > share - 100
      BY <1>6
    <3>3. share > 0
      <4>1. Percents[scan.q] > 0 /\ scan.total > 0
        BY <1>2, <1>6
      <4> QED
        BY <1>6, <4>1
    <3> HIDE DEF share
    <3>4. 100 * UpTo(buckets[Part], scan.i) > share - 100 \/ scan.i = Len(Bounds)
      BY <1>5, <1>6, <1>8, <3>2
    <3> HIDE DEF end
    <3>5. 100 * UpTo(scan.start, scan.i - 1) < share
      <4>1. CASE scan.i = 1
        BY <3>2, <3>3, <4>1, UpToEquations
      <4>2. CASE scan.i > 1
        <5>1. UpTo(scan.start, scan.i - 1) < Target
          BY <1>2, <1>fields, <1>5, <1>6, <4>2
        <5> QED
          BY <1>5, <1>6, <3>2, <5>1
      <4> QED
        BY <1>3, <4>1, <4>2
    <3>6. answer'.kind \in Kind /\ answer'.index \in 0 .. Len(Bounds)
          /\ answer'.percent \in 1 .. 100 /\ answer'.total \in Nat
      BY <1>1, <1>fields, <1>6, <3>1
    <3>7. QuantileWithinASample'
      BY <1>1, <3>1, <3>4, <3>5 DEF QuantileWithinASample, share
    <3> QED
      BY <3>6, <3>7 DEF AnswerOK
  <2>3. CASE scan.q < Len(Percents)
    <3>1. /\ scan' = [scan EXCEPT !.q = @ + 1, !.i = 1, !.cum = 0, !.start = buckets[Part]]
          /\ UNCHANGED page
      BY <2>1, <2>3 DEF EndQuantile
    <3>2. Part' = Part
      BY <3>1 DEF Part
    <3>3. scan.q + 1 \in DOMAIN Percents
      <4>1. DOMAIN Percents = 1 .. Len(Percents) /\ Len(Percents) \in Nat
        BY MetricsAssumption
      <4> QED
        BY <1>fields, <2>3, <4>1
    <3>4. UpTo(buckets[Part], 0) = 0
      BY UpToEquations
    <3>6. /\ scan' \in Scans
          /\ scan'.i = 1 /\ scan'.i - 1 = 0 /\ scan'.cum = 0 /\ scan'.start = buckets[Part]
          /\ scan'.total = scan.total
      <4>1. scan' = [total |-> scan.total, q |-> scan.q + 1, i |-> 1, cum |-> 0,
                     start |-> buckets[Part]]
        BY <1>fields, <3>1
      <4>2. 1 \in 0 .. Len(Bounds) /\ 0 \in Nat
        BY MetricsAssumption, BoundsAre
      <4>3. scan' \in Scans
        BY <1>fields, <1>4, <3>3, <4>1, <4>2, ScanFromFields
      <4> QED
        BY <4>1, <4>3
    <3>7. \A j \in Bucket : buckets[Part][j] <= buckets[Part][j]
      BY <1>4
    <3> HIDE DEF end
    <3>8. ScanOK'
      BY <1>1, <1>2, <1>4, <3>1, <3>2, <3>4, <3>6, <3>7 DEF ScanOK
    <3> QED
      BY <2>2, <3>8
  <2>4. CASE ~(scan.q < Len(Percents))
    <3>1. scan' = NoScan
      BY <2>1, <2>4 DEF EndQuantile
    <3>2. 1 \in DOMAIN Percents
      BY MetricsAssumption
    <3>3. ScanOK'
      BY <3>1, <3>2, BoundsAre DEF NoScan, ScanOK, Scans
    <3> QED
      BY <2>2, <3>3
  <2> QED
    BY <2>3, <2>4
<1> QED
  BY <1>7, <1>8

\* The handler reads the histograms.
LEMMA PageHistogram ==
    ASSUME MetricsInv, HistogramInv, Ask \/ LoadCount \/ LoadBucket \/ LoadTally
    PROVE  HistogramInv'
<1>1. UNCHANGED <<tally, count, buckets, request>>
  BY DEF Ask, LoadCount, LoadBucket, LoadTally, counters
<1>2. BucketsOK'
  BY <1>1 DEF HistogramInv, BucketsOK, Filling
<1>3. CASE Ask
  <2>1. scan.i = 0 /\ scan' = scan /\ answer' = NoAnswer
    BY <1>3, PartsAre, ScanFields DEF Ask, HistogramInv, ScanOK
  <2>2. ScanOK'
    BY <2>1 DEF HistogramInv, ScanOK
  <2>3. AnswerOK'
    BY <2>1, BoundsAre DEF NoAnswer, AnswerOK, QuantileWithinASample, Kind
  <2> QED
    BY <1>2, <2>2, <2>3 DEF HistogramInv
<1>4. CASE LoadCount
  <2>1. page.part \in {1, 2} /\ Part \in Kind /\ scan.i = 0 /\ answer' = answer
    BY <1>4, PartKind DEF LoadCount, MetricsInv
  <2>2. AnswerOK'
    BY <1>1, <2>1 DEF HistogramInv, AnswerOK, QuantileWithinASample
  <2>3. CASE count[Part] = 0
    <3>1. scan' = scan
      BY <1>4, <2>3 DEF LoadCount
    <3>2. ScanOK'
      BY <2>1, <3>1 DEF HistogramInv, ScanOK
    <3> QED
      BY <1>2, <2>2, <3>2 DEF HistogramInv
  <2>4. CASE count[Part] # 0
    <3>1. /\ page'.part = page.part
          /\ scan' = [NoScan EXCEPT !.total = count[Part], !.i = 1, !.start = buckets[Part]]
      BY <1>4, <2>4 DEF LoadCount
    <3>2. Part' = Part
      BY <3>1 DEF Part
    <3>3. count[Part] \in Nat /\ buckets[Part] \in [Bucket -> Nat]
      BY <2>1 DEF MetricsInv, CountersOK, HistogramInv, BucketsOK
    <3>4. count[Part] > 0
      BY <2>4, <3>3
    <3>5. UpTo(buckets[Part], 0) = 0
      BY UpToEquations
    <3>6. 1 \in DOMAIN Percents
      BY MetricsAssumption
    <3>7. scan' \in Scans
      <4>1. scan' = [total |-> count[Part], q |-> 1, i |-> 1, cum |-> 0,
                     start |-> buckets[Part]]
        BY <3>1 DEF NoScan
      <4>2. 1 \in 0 .. Len(Bounds) /\ 0 \in Nat
        BY MetricsAssumption, BoundsAre
      <4> QED
        BY <3>3, <3>6, <4>1, <4>2, ScanFromFields
    <3>8. /\ scan'.i = 1 /\ scan'.i - 1 = 0 /\ scan'.cum = 0 /\ scan'.start = buckets[Part]
          /\ scan'.total = count[Part]
      BY <3>1 DEF NoScan
    <3>9. \A j \in Bucket : buckets[Part][j] <= buckets[Part][j]
      BY <3>3
    <3>10. ScanOK'
      <4>1. UpTo(scan'.start, scan'.i - 1) <= scan'.cum
            /\ scan'.cum <= UpTo(buckets'[Part'], scan'.i - 1)
        BY <1>1, <3>2, <3>5, <3>8
      <4> QED
        BY <1>1, <2>1, <3>1, <3>2, <3>3, <3>4, <3>7, <3>8, <3>9, <4>1 DEF ScanOK
    <3> QED
      BY <1>2, <2>2, <3>10 DEF HistogramInv
  <2> QED
    BY <2>3, <2>4
<1>5. CASE LoadBucket
  BY <1>2, <1>5, LoadBucketHistogram DEF HistogramInv
<1>6. CASE LoadTally
  <2>1. scan.i = 0 /\ scan' = scan /\ answer' = answer
    <3>1. page.part \notin {1, 2}
      BY <1>6, PartsAre DEF LoadTally, Reading, Part
    <3> QED
      BY <1>6, <3>1, ScanFields DEF LoadTally, HistogramInv, ScanOK
  <2>2. ScanOK'
    BY <2>1 DEF HistogramInv, ScanOK
  <2>3. AnswerOK'
    BY <1>1, <2>1 DEF HistogramInv, AnswerOK, QuantileWithinASample
  <2> QED
    BY <1>2, <2>2, <2>3 DEF HistogramInv
<1> QED
  BY <1>3, <1>4, <1>5, <1>6

LEMMA HistogramInvHolds == MetricsSpec => []HistogramInv
<1>1. MetricsInv /\ HistogramInv /\ [MetricsNext]_metricsVars => HistogramInv'
  <2> SUFFICES ASSUME MetricsInv, HistogramInv, [MetricsNext]_metricsVars
               PROVE  HistogramInv'
    OBVIOUS
  <2>1. CASE UNCHANGED metricsVars
    <3>1. BucketsOK'
      BY <2>1 DEF metricsVars, HistogramInv, BucketsOK, Filling
    <3>2. ScanOK'
      BY <2>1 DEF metricsVars, HistogramInv, ScanOK, Part, Target
    <3>3. AnswerOK'
      BY <2>1 DEF metricsVars, HistogramInv, AnswerOK, QuantileWithinASample
    <3> QED
      BY <3>1, <3>2, <3>3 DEF HistogramInv
  <2>2. CASE MetricsNext
    <3>1. \/ \E r \in Request : \/ \E k \in Kind : Lookup(r, k)
                                \/ \E us \in Latency : CountSample(r, us)
                                \/ FillBucket(r)
          \/ Ask \/ LoadCount \/ LoadBucket \/ LoadTally
      BY <2>2 DEF MetricsNext
    <3> QED
      BY <3>1, RequestHistogram, PageHistogram
  <2> QED
    BY <2>1, <2>2
<1> QED
  BY <1>1, HistogramInit, MetricsInvHolds, PTL DEF MetricsSpec

-----------------------------------------------------------------------------

\* The counters have their types, and no sample is lost: the buckets of a
\* histogram add up to its count, but for the samples that Observe has counted
\* and not yet put in a bucket.
THEOREM MetricsTypeCorrect == MetricsSpec => []MetricsTypeOK
<1>1. MetricsInv /\ HistogramInv => MetricsTypeOK
  BY PartsAre DEF MetricsInv, CountersOK, PageOK, HistogramInv, BucketsOK, ScanOK, Scans,
     MetricsTypeOK
<1> QED
  BY <1>1, MetricsInvHolds, HistogramInvHolds, PTL

\* For any bounds, any quantiles and any number of samples put in meanwhile,
\* the samples up to the bound that quantile returns fall short of the share
\* that it should cover by less than one, unless it is the last bound; and
\* below the bucket of that bound there was less than the share at the start.
THEOREM QuantilesWithinASample == MetricsSpec => []QuantileWithinASample
<1>1. HistogramInv => QuantileWithinASample
  BY DEF HistogramInv, AnswerOK
<1> QED
  BY <1>1, HistogramInvHolds, PTL

\* A page shows no more latencies of hits than hits, and of cold reads than
\* misses: Get counts before Observe, and handleMetrics reads in the other
\* order.
THEOREM PagesAgree == MetricsSpec => []PageAgrees
<1>1. MetricsInv => PageAgrees
  BY PartsAre DEF MetricsInv, PageOK, ReadSoFar, PageAgrees
<1> QED
  BY <1>1, MetricsInvHolds, PTL

=============================================================================
