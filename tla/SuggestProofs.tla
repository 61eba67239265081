---------------------------- MODULE SuggestProofs ----------------------------
(***************************************************************************)
(* Proofs about SuggestPath, for every finite set of queries, every set of *)
(* prefixes and of requests, and every capacity and lifetime of the cache. *)
(***************************************************************************)
EXTENDS SuggestPath, MemoryNodeProofs

-----------------------------------------------------------------------------
(* The inductive invariant.                                                *)

Collected == UNION {[D -> Nat] : D \in SUBSET Query}
Entry == [key : Prefix, val : [counts : Collected, raced : BOOLEAN], left : -1 .. TTL]
Request == [at : {"idle", "list", "matching", "counts"}, prefix : Prefix,
            seen : Collected, missing : SUBSET Query, raced : BOOLEAN]

\* The worker: only an invalidation under way has prefixes to go.
WorkerOK ==
    /\ trie \in [Query -> Nat] /\ recent \in [Query -> Nat]
    /\ Cardinality(Tracked) <= TrendCap
    /\ step \in {"idle", "trie", "invalidate"}
    /\ batch \subseteq Query /\ affected \subseteq Prefix
    /\ step # "invalidate" => affected = {}

\* The cache: every entry holds queries of its prefix.
NodeOK ==
    /\ node \in Seq(Entry) /\ OneEach(node) /\ Len(node) <= MaxKeys
    /\ \A e \in ToSet(node) : DOMAIN e.val.counts \subseteq Under[e.key]

\* The requests: what each has collected fits where it is.
ReadersOK ==
    /\ reader \in [Reader -> Request]
    /\ \A r \in Reader :
         /\ DOMAIN reader[r].seen \subseteq Under[reader[r].prefix]
         /\ reader[r].missing \subseteq Under[reader[r].prefix] \ DOMAIN reader[r].seen
         /\ reader[r].at \in {"idle", "list"} => DOMAIN reader[r].seen = {}
         /\ reader[r].at # "counts" => reader[r].missing = {}

\* The counts are those of the trie.
Fresh(counts) == \A q \in DOMAIN counts : counts[q] = trie[q]

\* The queries with a count of n or more.
AtLeast(counts, n) == {c \in DOMAIN counts : counts[c] >= n}

\* A query below p that the counts leave out has TopK before it.
Ranked(p, counts) ==
    \A q \in Under[p] \ DOMAIN counts :
        trie[q] > 0 => Cardinality(AtLeast(counts, trie[q])) >= TopK

\* None of the queries below p but those of S is trending.
NotTrending(p, S) == \A q \in Under[p] \ S : recent[q] = 0

EntriesGood ==
    \A e \in ToSet(node) :
        ~Pending(e.key) /\ ~e.val.raced =>
            /\ Fresh(e.val.counts) /\ Ranked(e.key, e.val.counts)
            /\ NotTrending(e.key, DOMAIN e.val.counts)

ReadersGood ==
    \A r \in Reader :
        ~Pending(reader[r].prefix) /\ ~reader[r].raced =>
            /\ Fresh(reader[r].seen)
            /\ reader[r].at \in {"matching", "counts"} =>
                 Ranked(reader[r].prefix, reader[r].seen)
            /\ reader[r].at = "counts" =>
                 NotTrending(reader[r].prefix, DOMAIN reader[r].seen \cup reader[r].missing)

SuggestInv == WorkerOK /\ NodeOK /\ ReadersOK /\ EntriesGood /\ ReadersGood

-----------------------------------------------------------------------------
(* Lemmas.                                                                 *)

\* More counts have no fewer that reach a bound.
LEMMA CountsGrow ==
    ASSUME NEW f \in Collected, NEW g \in Collected, NEW n \in Nat,
           DOMAIN f \subseteq DOMAIN g, \A q \in DOMAIN f : f[q] = g[q]
    PROVE  /\ Cardinality(AtLeast(f, n)) \in Nat /\ Cardinality(AtLeast(g, n)) \in Nat
           /\ Cardinality(AtLeast(f, n)) <= Cardinality(AtLeast(g, n))
<1>1. AtLeast(f, n) \subseteq AtLeast(g, n)
  BY DEF AtLeast
<1>2. AtLeast(g, n) \subseteq Query
  BY DEF Collected, AtLeast
<1>3. IsFiniteSet(AtLeast(g, n))
  BY <1>2, FS_Subset, SuggestAssumption
<1>4. /\ IsFiniteSet(AtLeast(f, n))
      /\ Cardinality(AtLeast(f, n)) <= Cardinality(AtLeast(g, n))
  BY <1>1, <1>3, FS_Subset
<1> QED
  BY <1>3, <1>4, FS_CardinalityType

LEMMA IdleRequest == Idle \in Request /\ DOMAIN Idle.seen = {}
<1>1. (CHOOSE p \in Prefix : TRUE) \in Prefix
  BY SuggestAssumption
<1>2. DOMAIN NoCounts = {} /\ NoCounts \in [{} -> Nat]
  BY DEF NoCounts
<1>3. NoCounts \in Collected
  BY <1>2 DEF Collected
<1> QED
  BY <1>1, <1>2, <1>3 DEF Idle, Request

LEMMA InitInv == SuggestInit => SuggestInv
<1> SUFFICES ASSUME SuggestInit PROVE SuggestInv
  OBVIOUS
<1> USE DEF SuggestInit
<1>1. WorkerOK
  <2>1. Tracked = {}
    BY DEF Tracked
  <2>2. Cardinality(Tracked) <= TrendCap
    BY <2>1, FS_EmptySet, SuggestAssumption
  <2> QED
    BY <2>2 DEF WorkerOK
<1>2. ToSet(node) = {} /\ node \in Seq(Entry) /\ Len(node) = 0 /\ OneEach(node)
  BY DEF ToSet, OneEach
<1>3. NodeOK /\ EntriesGood
  BY <1>2, NodeAssumption DEF NodeOK, EntriesGood
<1>4. ReadersOK
  BY IdleRequest DEF ReadersOK, Idle
<1>5. ReadersGood
  BY IdleRequest DEF ReadersGood, Fresh, Idle
<1> QED
  BY <1>1, <1>3, <1>4, <1>5 DEF SuggestInv

-----------------------------------------------------------------------------
(* The steps of a request.  They leave the worker alone, so that nothing   *)
(* becomes pending, and what is good in the cache stays good.              *)

LEMMA WorkerSame ==
    WorkerOK /\ UNCHANGED workerVars =>
        /\ WorkerOK'
        /\ \A p : Pending(p)' <=> Pending(p)
        /\ \A f : Fresh(f)' <=> Fresh(f)
        /\ \A p, f : Ranked(p, f)' <=> Ranked(p, f)
        /\ \A p, S : NotTrending(p, S)' <=> NotTrending(p, S)
BY DEF WorkerOK, workerVars, Tracked, Pending, Affected, Fresh, Ranked, NotTrending

LEMMA LookupInv == SuggestInv /\ (\E r \in Reader, p \in Prefix : Lookup(r, p)) => SuggestInv'
<1> SUFFICES ASSUME SuggestInv, NEW r \in Reader, NEW p \in Prefix, Lookup(r, p)
             PROVE  SuggestInv'
  OBVIOUS
<1> USE DEF SuggestInv
<1>1. /\ WorkerOK'
      /\ \A x : Pending(x)' <=> Pending(x)
      /\ \A f : Fresh(f)' <=> Fresh(f)
      /\ \A x, f : Ranked(x, f)' <=> Ranked(x, f)
      /\ \A x, S : NotTrending(x, S)' <=> NotTrending(x, S)
  BY WorkerSame DEF Lookup
<1>2. /\ node' \in Seq(Entry) /\ OneEach(node') /\ Len(node') <= Len(node)
      /\ ToSet(node') \subseteq ToSet(node)
  BY AfterGetProperties DEF NodeOK, Lookup
<1>3. NodeOK'
  <2>1. Len(node) \in Nat /\ Len(node') \in Nat
    BY <1>2, LenProperties DEF NodeOK
  <2> QED
    BY <1>2, <2>1, NodeAssumption DEF NodeOK
<1>4. EntriesGood'
  BY <1>1, <1>2 DEF EntriesGood
<1>5. CASE UNCHANGED reader
  BY <1>1, <1>3, <1>4, <1>5 DEF ReadersOK, ReadersGood
<1>6. CASE reader' = [reader EXCEPT ![r].at = "list", ![r].prefix = p]
  <2>1. reader[r] \in Request /\ reader[r].at = "idle"
    BY DEF Lookup, ReadersOK
  <2>2. DOMAIN reader[r].seen = {} /\ reader[r].missing = {}
    BY <2>1 DEF ReadersOK
  <2>3. reader' = [reader EXCEPT ![r] = [reader[r] EXCEPT !.at = "list", !.prefix = p]]
    BY <1>6, <2>1 DEF ReadersOK, Request
  <2>4. ReadersOK'
    BY <2>1, <2>2, <2>3 DEF ReadersOK, Request
  <2>5. ReadersGood'
    <3>1. Fresh(reader[r].seen)
      BY <2>2 DEF Fresh
    <3>2. /\ reader'[r].seen = reader[r].seen /\ reader'[r].at = "list"
          /\ \A x \in Reader : x # r => reader'[x] = reader[x]
      BY <2>1, <2>3 DEF ReadersOK, Request
    <3> QED
      BY <1>1, <3>1, <3>2 DEF ReadersGood
  <2> QED
    BY <1>1, <1>3, <1>4, <2>4, <2>5
<1> QED
  BY <1>5, <1>6 DEF Lookup

\* A step of one request that leaves the rest alone.
LEMMA OneReader ==
    ASSUME SuggestInv, UNCHANGED <<workerVars, node>>, NEW r \in Reader, NEW new \in Request,
           reader' = [reader EXCEPT ![r] = new],
           DOMAIN new.seen \subseteq Under[new.prefix],
           new.missing \subseteq Under[new.prefix] \ DOMAIN new.seen,
           new.at \in {"idle", "list"} => DOMAIN new.seen = {},
           new.at # "counts" => new.missing = {},
           ~Pending(new.prefix) /\ ~new.raced =>
              /\ Fresh(new.seen)
              /\ new.at \in {"matching", "counts"} => Ranked(new.prefix, new.seen)
              /\ new.at = "counts" => NotTrending(new.prefix, DOMAIN new.seen \cup new.missing)
    PROVE  SuggestInv'
<1> USE DEF SuggestInv
<1>1. /\ WorkerOK'
      /\ \A x : Pending(x)' <=> Pending(x)
      /\ \A f : Fresh(f)' <=> Fresh(f)
      /\ \A x, f : Ranked(x, f)' <=> Ranked(x, f)
      /\ \A x, S : NotTrending(x, S)' <=> NotTrending(x, S)
  BY WorkerSame
<1>2. NodeOK' /\ EntriesGood'
  BY <1>1 DEF NodeOK, EntriesGood
<1>3. \A s \in Reader : reader'[s] = IF s = r THEN new ELSE reader[s]
  BY DEF ReadersOK
<1>4. ReadersOK'
  BY <1>3 DEF ReadersOK
<1>5. ReadersGood'
  BY <1>1, <1>3 DEF ReadersGood
<1> QED
  BY <1>1, <1>2, <1>4, <1>5

LEMMA ReadListInv == SuggestInv /\ (\E r \in Reader : ReadList(r)) => SuggestInv'
<1> SUFFICES ASSUME SuggestInv, NEW r \in Reader, ReadList(r) PROVE SuggestInv'
  OBVIOUS
<1> DEFINE p == reader[r].prefix
<1>0. reader[r] \in Request /\ reader[r].missing = {} /\ p \in Prefix
  BY DEF SuggestInv, ReadersOK, ReadList, Request
<1>1. PICK L \in Lists(p, CandidateN) :
        reader' = [reader EXCEPT ![r].at = "matching", ![r].seen = [q \in L |-> trie[q]]]
  BY DEF ReadList
<1> DEFINE seen == [q \in L |-> trie[q]]
           new == [reader[r] EXCEPT !.at = "matching", !.seen = seen]
<1>2. L \subseteq Under[p] /\ Under[p] \subseteq Query
  BY <1>0, <1>1, SuggestAssumption DEF Lists
<1>3. seen \in [L -> Nat] /\ seen \in Collected
  BY <1>2 DEF SuggestInv, WorkerOK, Collected
<1>4. /\ new \in Request /\ new.prefix = p /\ new.seen = seen /\ new.missing = {}
      /\ new.at = "matching"
  BY <1>0, <1>3 DEF Request
<1>5. reader' = [reader EXCEPT ![r] = new]
  BY <1>0, <1>1 DEF SuggestInv, ReadersOK, Request
<1>6. Fresh(seen)
  BY DEF Fresh
<1>7. Ranked(p, seen)
  <2> SUFFICES ASSUME NEW q \in Under[p] \ L, trie[q] > 0
               PROVE  Cardinality(AtLeast(seen, trie[q])) >= TopK
    BY DEF Ranked
  <2>1. Cardinality(L) = CandidateN /\ \A c \in L : trie[c] >= trie[q]
    BY <1>1, <1>2 DEF Lists
  <2>2. AtLeast(seen, trie[q]) = L
    BY <2>1 DEF AtLeast
  <2> QED
    BY <2>1, <2>2, SuggestAssumption
<1> HIDE DEF new, seen
<1>8. UNCHANGED <<workerVars, node>>
  BY DEF ReadList
<1>9. DOMAIN seen = L
  BY <1>3
<1> QED
  BY <1>2, <1>4, <1>5, <1>6, <1>7, <1>8, <1>9, OneReader

LEMMA ReadMatchingInv == SuggestInv /\ (\E r \in Reader : ReadMatching(r)) => SuggestInv'
<1> SUFFICES ASSUME SuggestInv, NEW r \in Reader, ReadMatching(r) PROVE SuggestInv'
  OBVIOUS
<1> DEFINE p == reader[r].prefix
           missing == (Tracked \cap Under[p]) \ DOMAIN reader[r].seen
           new == [reader[r] EXCEPT !.at = "counts", !.missing = missing]
<1>0. /\ reader[r] \in Request /\ reader[r].at = "matching" /\ p \in Prefix
      /\ DOMAIN reader[r].seen \subseteq Under[p]
  BY DEF SuggestInv, ReadersOK, ReadMatching, Request
<1>1. missing \subseteq Under[p] \ DOMAIN reader[r].seen /\ Under[p] \subseteq Query
  BY <1>0, SuggestAssumption
<1>2. NotTrending(p, DOMAIN reader[r].seen \cup missing)
  BY <1>1 DEF NotTrending, Tracked, SuggestInv, WorkerOK
<1>3. ~Pending(p) /\ ~reader[r].raced => Fresh(reader[r].seen) /\ Ranked(p, reader[r].seen)
  BY <1>0 DEF SuggestInv, ReadersGood
<1>4. reader' = [reader EXCEPT ![r] = new]
  BY <1>0 DEF ReadMatching, SuggestInv, ReadersOK, Request
<1> HIDE DEF missing
<1>5. /\ new \in Request /\ new.prefix = p /\ new.seen = reader[r].seen
      /\ new.missing = missing /\ new.at = "counts" /\ new.raced = reader[r].raced
  BY <1>0, <1>1 DEF Request
<1> HIDE DEF new
<1>6. UNCHANGED <<workerVars, node>>
  BY DEF ReadMatching
<1> QED
  BY <1>0, <1>1, <1>2, <1>3, <1>4, <1>5, <1>6, OneReader

LEMMA ReadCountInv ==
    SuggestInv /\ (\E r \in Reader, q \in Query : ReadCount(r, q)) => SuggestInv'
<1> SUFFICES ASSUME SuggestInv, NEW r \in Reader, NEW q \in Query, ReadCount(r, q)
             PROVE  SuggestInv'
  OBVIOUS
<1> DEFINE p == reader[r].prefix
           old == reader[r].seen
           seen == [x \in DOMAIN old \cup {q} |-> IF x = q THEN trie[q] ELSE old[x]]
           missing == reader[r].missing \ {q}
           new == [reader[r] EXCEPT !.seen = seen, !.missing = missing]
<1>0. /\ reader[r] \in Request /\ reader[r].at = "counts" /\ p \in Prefix
      /\ old \in Collected /\ DOMAIN old \subseteq Under[p]
      /\ q \in reader[r].missing /\ reader[r].missing \subseteq Under[p] \ DOMAIN old
      /\ Under[p] \subseteq Query /\ q \notin DOMAIN old
  BY SuggestAssumption DEF SuggestInv, ReadersOK, ReadCount, Request
<1>1. /\ DOMAIN seen = DOMAIN old \cup {q}
      /\ \A x \in DOMAIN old : seen[x] = old[x]
      /\ seen[q] = trie[q]
  BY <1>0
<1>2. seen \in Collected
  <2>1. trie[q] \in Nat
    BY DEF SuggestInv, WorkerOK
  <2>2. PICK D \in SUBSET Query : old \in [D -> Nat]
    BY <1>0 DEF Collected
  <2>3. seen \in [D \cup {q} -> Nat]
    BY <2>1, <2>2
  <2> QED
    BY <2>3 DEF Collected
<1>3. reader' = [reader EXCEPT ![r] = new]
  BY <1>0 DEF ReadCount, SuggestInv, ReadersOK, Request
<1> HIDE DEF seen
<1>4. /\ new \in Request /\ new.prefix = p /\ new.seen = seen
      /\ new.missing = missing /\ new.at = "counts" /\ new.raced = reader[r].raced
  BY <1>0, <1>2 DEF Request
<1> HIDE DEF new
<1>5. ASSUME ~Pending(p) /\ ~reader[r].raced
      PROVE  Fresh(seen) /\ Ranked(p, seen) /\ NotTrending(p, DOMAIN seen \cup missing)
  <2>1. Fresh(old) /\ Ranked(p, old) /\ NotTrending(p, DOMAIN old \cup reader[r].missing)
    BY <1>0, <1>5 DEF SuggestInv, ReadersGood
  <2>2. Fresh(seen)
    BY <1>1, <2>1 DEF Fresh
  <2>3. NotTrending(p, DOMAIN seen \cup missing)
    BY <1>1, <2>1 DEF NotTrending
  <2>4. Ranked(p, seen)
    <3> SUFFICES ASSUME NEW x \in Under[p] \ DOMAIN seen, trie[x] > 0
                 PROVE  Cardinality(AtLeast(seen, trie[x])) >= TopK
      BY DEF Ranked
    <3>1. trie[x] \in Nat
      BY <1>0 DEF SuggestInv, WorkerOK
    <3>2. Cardinality(AtLeast(old, trie[x])) >= TopK
      BY <1>1, <2>1 DEF Ranked
    <3>3. /\ Cardinality(AtLeast(old, trie[x])) \in Nat
          /\ Cardinality(AtLeast(seen, trie[x])) \in Nat
          /\ Cardinality(AtLeast(old, trie[x])) <= Cardinality(AtLeast(seen, trie[x]))
      BY <1>0, <1>1, <1>2, <3>1, CountsGrow
    <3> QED
      BY <3>2, <3>3, SuggestAssumption
  <2> QED
    BY <2>2, <2>3, <2>4
<1>6. UNCHANGED <<workerVars, node>>
  BY DEF ReadCount
<1>7. DOMAIN seen \subseteq Under[p] /\ missing \subseteq Under[p] \ DOMAIN seen
  BY <1>0, <1>1
<1> QED
  BY <1>3, <1>4, <1>5, <1>6, <1>7, OneReader

LEMMA FillInv == SuggestInv /\ (\E r \in Reader : Fill(r)) => SuggestInv'
<1> SUFFICES ASSUME SuggestInv, NEW r \in Reader, Fill(r) PROVE SuggestInv'
  OBVIOUS
<1> DEFINE p == reader[r].prefix
           v == [counts |-> reader[r].seen, raced |-> reader[r].raced]
           e == NewEntry(p, v)
<1>0. /\ reader[r] \in Request /\ reader[r].at = "counts" /\ reader[r].missing = {}
      /\ p \in Prefix /\ DOMAIN reader[r].seen \subseteq Under[p]
  BY DEF SuggestInv, ReadersOK, Fill, Request
<1>1. e \in Entry /\ e.key = p /\ e.val = v
  BY <1>0, NodeAssumption DEF Entry, NewEntry, Request
<1>2. v.counts = reader[r].seen /\ v.raced = reader[r].raced
  OBVIOUS
<1>3. node' = AfterSet(node, p, v) /\ reader' = [reader EXCEPT ![r] = Idle]
  BY DEF Fill
<1>4. /\ WorkerOK'
      /\ \A x : Pending(x)' <=> Pending(x)
      /\ \A f : Fresh(f)' <=> Fresh(f)
      /\ \A x, f : Ranked(x, f)' <=> Ranked(x, f)
      /\ \A x, S : NotTrending(x, S)' <=> NotTrending(x, S)
  BY WorkerSame DEF Fill, SuggestInv
<1> HIDE DEF v
<1>5. /\ node' \in Seq(Entry) /\ OneEach(node') /\ Len(node') <= MaxKeys
      /\ ToSet(node') \subseteq {e} \cup ToSet(node)
  <2>1. node \in Seq(Entry) /\ OneEach(node)
    BY DEF SuggestInv, NodeOK
  <2> QED
    BY <1>1, <1>3, <2>1, AfterSetProperties
<1> HIDE DEF e
<1>6. NodeOK'
  BY <1>0, <1>1, <1>2, <1>5 DEF SuggestInv, NodeOK
<1>7. EntriesGood'
  <2>1. ~Pending(e.key) /\ ~e.val.raced =>
            /\ Fresh(e.val.counts) /\ Ranked(e.key, e.val.counts)
            /\ NotTrending(e.key, DOMAIN e.val.counts)
    <3>1. DOMAIN reader[r].seen \cup reader[r].missing = DOMAIN reader[r].seen
      BY <1>0
    <3> QED
      BY <3>1, <1>0, <1>1, <1>2 DEF SuggestInv, ReadersGood
  <2> QED
    BY <2>1, <1>4, <1>5 DEF SuggestInv, EntriesGood
<1>8. \A s \in Reader : reader'[s] = IF s = r THEN Idle ELSE reader[s]
  BY <1>3 DEF SuggestInv, ReadersOK
<1>9. Idle.at = "idle" /\ Idle.missing = {}
  BY DEF Idle
<1>10. ReadersOK'
  BY <1>3, <1>8, <1>9, IdleRequest DEF SuggestInv, ReadersOK
<1>11. ReadersGood'
  <2>1. Fresh(Idle.seen)
    BY IdleRequest DEF Fresh
  <2> QED
    BY <2>1, <1>4, <1>8, <1>9 DEF SuggestInv, ReadersGood
<1> QED
  BY <1>4, <1>6, <1>7, <1>10, <1>11 DEF SuggestInv

LEMMA TickInv == SuggestInv /\ Tick => SuggestInv'
<1> SUFFICES ASSUME SuggestInv, Tick PROVE SuggestInv'
  OBVIOUS
<1> DEFINE later(e) == [e EXCEPT !.left = IF @ < 0 THEN @ ELSE @ - 1]
<1>1. /\ WorkerOK'
      /\ \A x : Pending(x)' <=> Pending(x)
      /\ \A f : Fresh(f)' <=> Fresh(f)
      /\ \A x, f : Ranked(x, f)' <=> Ranked(x, f)
      /\ \A x, S : NotTrending(x, S)' <=> NotTrending(x, S)
  BY WorkerSame DEF Tick, SuggestInv
<1>2. \A e \in Entry : later(e) \in Entry /\ later(e).key = e.key /\ later(e).val = e.val
  BY NodeAssumption DEF Entry
<1>3. node \in Seq(Entry) /\ OneEach(node) /\ DOMAIN node = 1 .. Len(node)
  BY LenProperties DEF SuggestInv, NodeOK
<1>4. /\ node' \in Seq(Entry) /\ OneEach(node') /\ Len(node') = Len(node)
      /\ \A i \in DOMAIN node : node'[i] = later(node[i])
  BY <1>2, <1>3, OlderProperties DEF Tick
<1>5. DOMAIN node' = DOMAIN node
  BY <1>3, <1>4, LenProperties
<1>6. \A i \in DOMAIN node : node[i] \in Entry
  BY <1>3, ElementOfSeq
<1> HIDE DEF later
<1>7. \A e \in ToSet(node') : \E f \in ToSet(node) : e.key = f.key /\ e.val = f.val
  BY <1>2, <1>4, <1>5, <1>6 DEF ToSet
<1>8. NodeOK'
  BY <1>4, <1>7 DEF SuggestInv, NodeOK
<1>9. EntriesGood'
  BY <1>1, <1>7 DEF SuggestInv, EntriesGood
<1>10. ReadersOK' /\ ReadersGood'
  BY <1>1 DEF SuggestInv, ReadersOK, ReadersGood, Tick
<1> QED
  BY <1>1, <1>8, <1>9, <1>10 DEF SuggestInv

-----------------------------------------------------------------------------
(* The steps of the worker.                                                *)

\* A step that makes pending whatever it changes keeps the rest good.
LEMMA Unaffected ==
    ASSUME SuggestInv, WorkerOK', UNCHANGED <<node, reader>>,
           \A p \in Prefix : ~Pending(p)' =>
              /\ ~Pending(p)
              /\ \A q \in Under[p] : trie'[q] = trie[q] /\ (recent[q] = 0 => recent'[q] = 0)
    PROVE  SuggestInv'
<1>1. NodeOK' /\ ReadersOK'
  BY DEF SuggestInv, NodeOK, ReadersOK
<1>2. ASSUME NEW p \in Prefix, ~Pending(p)', NEW f, DOMAIN f \subseteq Under[p]
      PROVE  /\ Fresh(f) => Fresh(f)'
             /\ Ranked(p, f) => Ranked(p, f)'
             /\ \A S : NotTrending(p, S) => NotTrending(p, S)'
  BY <1>2 DEF Fresh, Ranked, NotTrending
<1>3. EntriesGood'
  <2> SUFFICES ASSUME NEW e \in ToSet(node), ~Pending(e.key)', ~e.val.raced
               PROVE  /\ Fresh(e.val.counts)' /\ Ranked(e.key, e.val.counts)'
                      /\ NotTrending(e.key, DOMAIN e.val.counts)'
    BY DEF EntriesGood
  <2>1. e \in Entry
    BY ElementOfSeq, LenProperties DEF ToSet, SuggestInv, NodeOK
  <2>2. e.key \in Prefix /\ DOMAIN e.val.counts \subseteq Under[e.key]
    BY <2>1 DEF SuggestInv, NodeOK, Entry
  <2>3. /\ Fresh(e.val.counts) /\ Ranked(e.key, e.val.counts)
        /\ NotTrending(e.key, DOMAIN e.val.counts)
    BY <2>2 DEF SuggestInv, EntriesGood
  <2> QED
    BY <1>2, <2>2, <2>3
<1>4. ReadersGood'
  <2> SUFFICES ASSUME NEW r \in Reader, ~Pending(reader[r].prefix)', ~reader[r].raced
               PROVE  /\ Fresh(reader[r].seen)'
                      /\ reader[r].at \in {"matching", "counts"} =>
                           Ranked(reader[r].prefix, reader[r].seen)'
                      /\ reader[r].at = "counts" =>
                           NotTrending(reader[r].prefix,
                                       DOMAIN reader[r].seen \cup reader[r].missing)'
    BY DEF ReadersGood
  <2>1. reader[r].prefix \in Prefix /\ DOMAIN reader[r].seen \subseteq Under[reader[r].prefix]
    BY DEF SuggestInv, ReadersOK, Request
  <2>2. /\ Fresh(reader[r].seen)
        /\ reader[r].at \in {"matching", "counts"} =>
             Ranked(reader[r].prefix, reader[r].seen)
        /\ reader[r].at = "counts" =>
             NotTrending(reader[r].prefix, DOMAIN reader[r].seen \cup reader[r].missing)
    BY <2>1 DEF SuggestInv, ReadersGood
  <2> QED
    BY <1>2, <2>1, <2>2
<1> QED
  BY <1>1, <1>3, <1>4 DEF SuggestInv

LEMMA UpdateTrendingInv ==
    SuggestInv /\ (\E b \in SUBSET Query : UpdateTrending(b)) => SuggestInv'
<1> SUFFICES ASSUME SuggestInv, NEW b \in SUBSET Query, UpdateTrending(b) PROVE SuggestInv'
  OBVIOUS
<1> DEFINE bumped == [q \in Query |-> recent[q] + IF q \in b THEN 1 ELSE 0]
           tracked == {q \in Query : bumped[q] > 0}
<1>0. /\ trie \in [Query -> Nat] /\ recent \in [Query -> Nat] /\ affected = {}
      /\ step = "idle"
  BY DEF SuggestInv, WorkerOK, UpdateTrending
<1>1. PICK kept \in SUBSET tracked :
        /\ IF Cardinality(tracked) <= TrendCap THEN kept = tracked
                                               ELSE Cardinality(kept) = TrendCap
        /\ recent' = [q \in Query |-> IF q \in kept THEN bumped[q] ELSE 0]
  BY DEF UpdateTrending
<1>2. \A q \in Query : bumped[q] \in Nat /\ bumped[q] = recent[q] + IF q \in b THEN 1 ELSE 0
  BY <1>0
<1>3. recent' \in [Query -> Nat] /\ Tracked' = kept
  <2>1. recent' \in [Query -> Nat]
    BY <1>1, <1>2
  <2>2. \A q \in Query : recent'[q] > 0 <=> q \in kept
    <3>1. \A q \in kept : q \in Query /\ bumped[q] > 0
      OBVIOUS
    <3> HIDE DEF bumped, tracked
    <3> QED
      BY <1>1, <3>1
  <2> QED
    BY <1>1, <2>1, <2>2 DEF Tracked
<1>4. Cardinality(kept) <= TrendCap
  <2>1. CASE Cardinality(tracked) <= TrendCap
    BY <1>1, <2>1
  <2>2. CASE ~(Cardinality(tracked) <= TrendCap)
    BY <1>1, <2>2, SuggestAssumption
  <2> QED
    BY <2>1, <2>2
<1>5. WorkerOK'
  BY <1>0, <1>3, <1>4 DEF UpdateTrending, WorkerOK
<1>6. \A p \in Prefix : ~Pending(p)' =>
         /\ ~Pending(p)
         /\ \A q \in Under[p] : trie'[q] = trie[q] /\ (recent[q] = 0 => recent'[q] = 0)
  <2> SUFFICES ASSUME NEW p \in Prefix, ~Pending(p)'
               PROVE  /\ ~Pending(p)
                      /\ \A q \in Under[p] :
                           trie'[q] = trie[q] /\ (recent[q] = 0 => recent'[q] = 0)
    OBVIOUS
  <2>1. ~Pending(p)
    BY <1>0 DEF Pending
  <2>2. Under[p] \cap b = {} /\ trie' = trie
    BY DEF Pending, Affected, UpdateTrending
  <2>3. Under[p] \subseteq Query
    BY SuggestAssumption
  <2>4. \A q \in Under[p] : recent[q] = 0 => bumped[q] = 0
    BY <1>0, <1>2, <2>2, <2>3
  <2> QED
    BY <1>1, <2>1, <2>2, <2>3, <2>4
<1>7. UNCHANGED <<node, reader>>
  BY DEF UpdateTrending
<1> QED
  BY <1>5, <1>6, <1>7, Unaffected

LEMMA CountBatchInv == SuggestInv /\ CountBatch => SuggestInv'
<1> SUFFICES ASSUME SuggestInv, CountBatch PROVE SuggestInv'
  OBVIOUS
<1>0. /\ trie \in [Query -> Nat] /\ recent \in [Query -> Nat] /\ affected = {}
      /\ step = "trie" /\ batch \subseteq Query
  BY DEF SuggestInv, WorkerOK, CountBatch
<1>1. trie' \in [Query -> Nat] /\ \A q \in Query \ batch : trie'[q] = trie[q]
  BY <1>0 DEF CountBatch
<1>2. WorkerOK'
  BY <1>1 DEF SuggestInv, WorkerOK, CountBatch, Tracked, Affected
<1>3. \A p \in Prefix : ~Pending(p)' =>
         /\ ~Pending(p)
         /\ \A q \in Under[p] : trie'[q] = trie[q] /\ (recent[q] = 0 => recent'[q] = 0)
  BY <1>0, <1>1, SuggestAssumption DEF Pending, Affected, CountBatch
<1>4. UNCHANGED <<node, reader>>
  BY DEF CountBatch
<1> QED
  BY <1>2, <1>3, <1>4, Unaffected

LEMMA ApplyReturnsInv == SuggestInv /\ ApplyReturns => SuggestInv'
<1> SUFFICES ASSUME SuggestInv, ApplyReturns PROVE SuggestInv'
  OBVIOUS
<1>1. WorkerOK'
  BY DEF SuggestInv, WorkerOK, ApplyReturns, Tracked
<1>2. \A p \in Prefix : ~Pending(p)' =>
         /\ ~Pending(p)
         /\ \A q \in Under[p] : trie'[q] = trie[q] /\ (recent[q] = 0 => recent'[q] = 0)
  BY DEF Pending, ApplyReturns
<1>3. UNCHANGED <<node, reader>>
  BY DEF ApplyReturns
<1> QED
  BY <1>1, <1>2, <1>3, Unaffected

\* What is no longer pending is out of the cache, and whoever has read it
\* before is raced.
LEMMA InvalidateInv == SuggestInv /\ (\E p \in Prefix : Invalidate(p)) => SuggestInv'
<1> SUFFICES ASSUME SuggestInv, NEW p \in Prefix, Invalidate(p) PROVE SuggestInv'
  OBVIOUS
<1> USE DEF Invalidate
<1>1. WorkerOK'
  BY DEF SuggestInv, WorkerOK, Tracked
<1>2. /\ \A x : x # p => (Pending(x)' <=> Pending(x))
      /\ \A f : Fresh(f)' <=> Fresh(f)
      /\ \A x, f : Ranked(x, f)' <=> Ranked(x, f)
      /\ \A x, S : NotTrending(x, S)' <=> NotTrending(x, S)
  BY DEF Pending, Fresh, Ranked, NotTrending
<1>3. node \in Seq(Entry) /\ OneEach(node) /\ Len(node) \in Nat /\ Len(node) <= MaxKeys
  BY LenProperties DEF SuggestInv, NodeOK
<1>4. /\ node' \in Seq(Entry) /\ OneEach(node')
      /\ Len(node') = Len(node) - (IF p \in Keys(node) THEN 1 ELSE 0)
      /\ ToSet(node') = {e \in ToSet(node) : e.key # p}
  BY <1>3, WithoutProperties
<1>5. Len(node') <= MaxKeys
  <2>1. CASE p \in Keys(node)
    BY <2>1, <1>3, <1>4, NodeAssumption
  <2>2. CASE p \notin Keys(node)
    BY <2>2, <1>3, <1>4, NodeAssumption
  <2> QED
    BY <2>1, <2>2
<1>6. NodeOK'
  BY <1>4, <1>5 DEF SuggestInv, NodeOK
<1>7. EntriesGood'
  BY <1>2, <1>4 DEF SuggestInv, EntriesGood
<1>8. ASSUME NEW r \in Reader
      PROVE  /\ reader'[r] \in Request
             /\ reader'[r].at = reader[r].at /\ reader'[r].prefix = reader[r].prefix
             /\ reader'[r].seen = reader[r].seen /\ reader'[r].missing = reader[r].missing
             /\ reader[r].raced => reader'[r].raced
             /\ Reading(r, p) => reader'[r].raced
  <2>1. reader[r] \in Request
    BY DEF SuggestInv, ReadersOK
  <2>2. reader'[r] = IF Reading(r, p) THEN [reader[r] EXCEPT !.raced = TRUE] ELSE reader[r]
    OBVIOUS
  <2>3. CASE Reading(r, p)
    BY <2>1, <2>2, <2>3 DEF Request
  <2>4. CASE ~Reading(r, p)
    BY <2>1, <2>2, <2>4
  <2> QED
    BY <2>3, <2>4
<1>9. ReadersOK'
  <2>1. reader' \in [Reader -> Request]
    BY <1>8
  <2> QED
    BY <1>8, <2>1 DEF SuggestInv, ReadersOK
<1>10. ReadersGood'
  <2> SUFFICES ASSUME NEW r \in Reader, ~Pending(reader[r].prefix)', ~reader'[r].raced
               PROVE  /\ Fresh(reader[r].seen)
                      /\ reader[r].at \in {"matching", "counts"} =>
                           Ranked(reader[r].prefix, reader[r].seen)
                      /\ reader[r].at = "counts" =>
                           NotTrending(reader[r].prefix,
                                       DOMAIN reader[r].seen \cup reader[r].missing)
    BY <1>2, <1>8 DEF ReadersGood
  <2>1. CASE reader[r].prefix = p
    <3>1. reader[r].at \notin {"matching", "counts"}
      BY <2>1, <1>8 DEF Reading
    <3>2. DOMAIN reader[r].seen = {}
      BY <3>1 DEF SuggestInv, ReadersOK, Request
    <3> QED
      BY <3>1, <3>2 DEF Fresh
  <2>2. CASE reader[r].prefix # p
    BY <2>2, <1>2, <1>8 DEF SuggestInv, ReadersGood
  <2> QED
    BY <2>1, <2>2
<1> QED
  BY <1>1, <1>6, <1>7, <1>9, <1>10 DEF SuggestInv

-----------------------------------------------------------------------------
(* The theorems.                                                           *)

LEMMA SuggestInductive == SuggestInv /\ [SuggestNext]_suggestVars => SuggestInv'
<1> SUFFICES ASSUME SuggestInv, [SuggestNext]_suggestVars PROVE SuggestInv'
  OBVIOUS
<1>1. CASE SuggestNext
  BY <1>1, LookupInv, ReadListInv, ReadMatchingInv, ReadCountInv, FillInv, TickInv,
     UpdateTrendingInv, CountBatchInv, InvalidateInv, ApplyReturnsInv
     DEF SuggestNext, ReaderStep, WorkerStep
<1>2. CASE UNCHANGED suggestVars
  <2>1. UNCHANGED <<node, reader>> /\ UNCHANGED workerVars
    BY <1>2 DEF suggestVars
  <2>2. /\ WorkerOK'
        /\ \A x : Pending(x)' <=> Pending(x)
    BY <2>1, WorkerSame DEF SuggestInv
  <2> QED
    BY <2>1, <2>2, Unaffected DEF workerVars
<1> QED
  BY <1>1, <1>2

LEMMA SuggestInvariant == SuggestSpec => []SuggestInv
BY InitInv, SuggestInductive, PTL DEF SuggestSpec

\* A hit is an entry of the node.
LEMMA HitEntry ==
    ASSUME NEW p, Hit(node, p)
    PROVE  EntryOf(node, p) \in ToSet(node) /\ EntryOf(node, p).key = p
BY EntryOfProperties DEF Hit

\* The components keep their shapes; the node of the cache keeps its capacity
\* and one entry per key, through every mix of lookups, fills, invalidations
\* and expiry, and the trending index its own (memory.go:61-76, trending.go).
THEOREM SuggestTypeCorrect == SuggestSpec => []SuggestTypeOK
<1>1. SuggestInv => SuggestTypeOK
  <2> SUFFICES ASSUME SuggestInv PROVE SuggestTypeOK
    OBVIOUS
  <2>1. Cardinality(Keys(node)) = Len(node)
    BY KeysCount DEF SuggestInv, NodeOK
  <2>2. ASSUME NEW i \in DOMAIN node
        PROVE  /\ node[i].key \in Prefix /\ node[i].left \in -1 .. TTL
               /\ DOMAIN node[i].val.counts \subseteq Under[node[i].key]
    <3>1. node[i] \in Entry
      BY ElementOfSeq, LenProperties DEF SuggestInv, NodeOK
    <3>2. node[i] \in ToSet(node)
      BY DEF ToSet
    <3> QED
      BY <3>1, <3>2 DEF Entry, SuggestInv, NodeOK
  <2>3. ASSUME NEW r \in Reader
        PROVE  /\ reader[r].at \in {"idle", "list", "matching", "counts"}
               /\ reader[r].prefix \in Prefix
               /\ reader[r].missing \subseteq Under[reader[r].prefix]
    BY DEF SuggestInv, ReadersOK, Request
  <2>4. Len(node) <= MaxKeys
    BY DEF SuggestInv, NodeOK
  <2> QED
    BY <2>1, <2>2, <2>3, <2>4 DEF SuggestTypeOK, SuggestInv, WorkerOK
<1> QED
  BY <1>1, SuggestInvariant, PTL

\* Once a prefix is invalidated, a hit for it shows the counts of the trie,
\* unless the request that filled the entry had read before the invalidation
\* (Suggest and invalidatePrefixes, engine.go).
THEOREM StaleNeedsRace == SuggestSpec => []OnlyRacesLeaveStale
<1>1. SuggestInv => OnlyRacesLeaveStale
  BY HitEntry DEF SuggestInv, EntriesGood, OnlyRacesLeaveStale, Cached, Current, Fresh
<1> QED
  BY <1>1, SuggestInvariant, PTL

\* The candidates that were cached rank the prefix in both modes: no query
\* outside them can be among the TopK (candidates and rank, engine.go).
THEOREM CandidatesRankPrefix == SuggestSpec => []CandidatesSuffice
<1>1. SuggestInv => CandidatesSuffice
  <2> SUFFICES ASSUME SuggestInv, NEW p \in Prefix, NEW mode \in {"count", "recency"},
                      Hit(node, p), ~Pending(p), ~Cached(p).raced,
                      NEW q \in Under[p] \ DOMAIN Cached(p).counts,
                      trie[q] + recent[q] > 0
               PROVE  Cardinality({c \in DOMAIN Cached(p).counts :
                                     Score(mode, c, Cached(p).counts[c])
                                       >= Score(mode, q, trie[q])}) >= TopK
    BY DEF CandidatesSuffice
  <2> DEFINE counts == Cached(p).counts
             high == AtLeast(counts, trie[q])
             above == {c \in DOMAIN counts :
                         Score(mode, c, counts[c]) >= Score(mode, q, trie[q])}
  <2>1. EntryOf(node, p) \in ToSet(node) /\ EntryOf(node, p).key = p
    BY HitEntry
  <2>2. EntryOf(node, p) \in Entry
    BY <2>1, ElementOfSeq, LenProperties DEF ToSet, SuggestInv, NodeOK
  <2>3. counts \in Collected /\ DOMAIN counts \subseteq Query
    BY <2>2 DEF Cached, Entry, Collected
  <2>4. Ranked(p, counts) /\ NotTrending(p, DOMAIN counts)
    BY <2>1 DEF Cached, SuggestInv, EntriesGood
  <2>5. /\ trie \in [Query -> Nat] /\ recent \in [Query -> Nat] /\ q \in Query
        /\ \A c \in DOMAIN counts : counts[c] \in Nat
    BY <2>3, SuggestAssumption DEF SuggestInv, WorkerOK, Collected
  <2> HIDE DEF counts
  <2>6. recent[q] = 0 /\ Cardinality(high) >= TopK
    BY <2>4, <2>5 DEF NotTrending, Ranked, counts
  <2>7. Score(mode, q, trie[q]) = trie[q]
    BY <2>5, <2>6, SuggestAssumption DEF Score
  <2>8. ASSUME NEW c \in high
        PROVE  Score(mode, c, counts[c]) >= trie[q]
    <3>1. recent[c] \in Nat /\ counts[c] \in Nat /\ counts[c] >= trie[q] /\ trie[q] \in Nat
      BY <2>3, <2>5 DEF AtLeast
    <3>2. Alpha * recent[c] \in Nat
      BY <3>1, SuggestAssumption
    <3> QED
      BY <3>1, <3>2 DEF Score
  <2>9. high \subseteq above
    BY <2>7, <2>8 DEF AtLeast
  <2>10. IsFiniteSet(above)
    BY <2>3, FS_Subset, SuggestAssumption
  <2> HIDE DEF high, above
  <2>11. Cardinality(high) <= Cardinality(above) /\ IsFiniteSet(high)
    BY <2>9, <2>10, FS_Subset
  <2>12. Cardinality(above) >= TopK
    BY <2>6, <2>10, <2>11, FS_CardinalityType, SuggestAssumption
  <2> QED
    BY <2>12 DEF above, counts
<1> QED
  BY <1>1, SuggestInvariant, PTL

=============================================================================
