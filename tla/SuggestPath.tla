----------------------------- MODULE SuggestPath -----------------------------
(***************************************************************************)
(* The read path of internal/engine/engine.go against the write path:      *)
(* Suggest looks a prefix up in the cache and, on a miss, collects the     *)
(* candidates (trie.TopK, trending.MatchingPrefix and one trie.Count per   *)
(* further query, each under its own lock) and caches them.  Meanwhile     *)
(* ApplyBatch updates trending and trie and then invalidates the prefixes  *)
(* of the changed queries one by one.                                      *)
(*                                                                         *)
(* One node of the cache is modelled: the ring sends a prefix to the same  *)
(* node for as long as the process runs.  Persisting the batch, between    *)
(* trie and invalidation, touches none of this state: it is in FlushPath.  *)
(***************************************************************************)
EXTENDS MemoryNode, TLC

CONSTANTS
    Query,
    Prefix,
    Under,       \* per prefix, the queries that start with it
    Reader,      \* the requests that may be in Suggest at one time
    TopK,        \* suggestions returned (TOP_K)
    CandidateN,  \* the trie's list length (CANDIDATE_N)
    TrendCap,    \* entries of the trending index (TRENDING_CAP)
    Alpha,       \* weight of recency in the score
    MaxFlushes   \* bound of the model: batches applied

ASSUME SuggestAssumption ==
    /\ Under \in [Prefix -> SUBSET Query]
    /\ IsFiniteSet(Query) /\ Prefix # {}
    /\ TopK \in Nat \ {0} /\ CandidateN \in Nat /\ TopK <= CandidateN
    /\ TrendCap \in Nat \ {0}
    /\ Alpha \in Nat
    /\ MaxFlushes \in Nat

VARIABLES
    trie,      \* counts in the trie, 0 for a query it does not have
    recent,    \* the trending index, 0 for a query it does not track
    node,      \* the cache node
    reader,    \* per request, where it is and what it has collected
    step,      \* where the worker is in ApplyBatch
    batch,     \* the queries of the batch, each searched once
    affected,  \* prefixes still to be invalidated
    flushed    \* batches applied

workerVars == <<trie, recent, step, batch, affected, flushed>>
suggestVars == <<workerVars, node, reader>>

Tracked == {q \in Query : recent[q] > 0}
NoCounts == [q \in {} |-> 0]
Idle == [at |-> "idle", prefix |-> CHOOSE p \in Prefix : TRUE, seen |-> NoCounts,
         missing |-> {}, raced |-> FALSE]

SuggestInit ==
    /\ trie \in [Query -> 0 .. 1] /\ \E q \in Query : trie[q] > 0
    /\ recent = [q \in Query |-> 0]
    /\ node = <<>>
    /\ reader = [r \in Reader |-> Idle]
    /\ step = "idle" /\ batch = {} /\ affected = {} /\ flushed = 0

-----------------------------------------------------------------------------
(* Suggest.                                                                *)

\* cache.Get.  A hit is ranked and answered at once: that changes nothing.
Lookup(r, p) ==
    /\ reader[r].at = "idle"
    /\ node' = AfterGet(node, p)
    /\ \/ Hit(node, p) /\ UNCHANGED reader
       \/ ~Hit(node, p) /\ reader' = [reader EXCEPT ![r].at = "list", ![r].prefix = p]
    /\ UNCHANGED workerVars

\* What a list of n entries for prefix p may hold: no other query below p has
\* a larger count (Trie: ListsAreTopK).
Lists(p, n) ==
    LET stored == {q \in Under[p] : trie[q] > 0}
    IN  {L \in SUBSET stored :
            \/ L = stored /\ Cardinality(L) <= n
            \/ /\ Cardinality(L) = n
               /\ \A q \in L, other \in stored \ L : trie[q] >= trie[other]}

ReadList(r) ==
    /\ reader[r].at = "list"
    /\ \E L \in Lists(reader[r].prefix, CandidateN) :
         reader' = [reader EXCEPT ![r].at = "matching",
                                  ![r].seen = [q \in L |-> trie[q]]]
    /\ UNCHANGED <<workerVars, node>>

\* Faulty variant of ReadMatching: the trie's list only.
ReadMatchingNone(r) ==
    /\ reader[r].at = "matching"
    /\ reader' = [reader EXCEPT ![r].at = "counts"]
    /\ UNCHANGED <<workerVars, node>>

ReadMatching(r) ==
    /\ reader[r].at = "matching"
    /\ reader' = [reader EXCEPT
                    ![r].at = "counts",
                    ![r].missing = (Tracked \cap Under[reader[r].prefix])
                                      \ DOMAIN reader[r].seen]
    /\ UNCHANGED <<workerVars, node>>

ReadCount(r, q) ==
    /\ reader[r].at = "counts"
    /\ q \in reader[r].missing
    /\ reader' = [reader EXCEPT
                    ![r].seen = [x \in DOMAIN @ \cup {q} |-> IF x = q THEN trie[q] ELSE @[x]],
                    ![r].missing = @ \ {q}]
    /\ UNCHANGED <<workerVars, node>>

\* cache.Set, and the answer.
Fill(r) ==
    /\ reader[r].at = "counts"
    /\ reader[r].missing = {}
    /\ node' = AfterSet(node, reader[r].prefix,
                        [counts |-> reader[r].seen, raced |-> reader[r].raced])
    /\ reader' = [reader EXCEPT ![r] = Idle]
    /\ UNCHANGED workerVars

-----------------------------------------------------------------------------
(* ApplyBatch.                                                             *)

\* trending.Update, with the entries that evict leaves.
UpdateTrending(b) ==
    /\ step = "idle"
    /\ flushed < MaxFlushes
    /\ b # {}
    /\ LET bumped == [q \in Query |-> recent[q] + IF q \in b THEN 1 ELSE 0]
           tracked == {q \in Query : bumped[q] > 0}
       IN  \E kept \in SUBSET tracked :
             /\ IF Cardinality(tracked) <= TrendCap THEN kept = tracked
                                                    ELSE Cardinality(kept) = TrendCap
             /\ recent' = [q \in Query |-> IF q \in kept THEN bumped[q] ELSE 0]
    /\ batch' = b
    /\ step' = "trie"
    /\ UNCHANGED <<trie, affected, flushed, node, reader>>

\* Faulty variant of Affected: only the prefixes that all queries share.
AffectedShared(b) == {p \in Prefix : b \subseteq Under[p]}

Affected(b) == {p \in Prefix : Under[p] \cap b # {}}

\* trie.ApplyBatch.
CountBatch ==
    /\ step = "trie"
    /\ trie' = [q \in Query |-> trie[q] + IF q \in batch THEN 1 ELSE 0]
    /\ affected' = Affected(batch)
    /\ step' = "invalidate"
    /\ UNCHANGED <<recent, batch, flushed, node, reader>>

\* History: a request that has read and not yet filled is raced.
Reading(r, p) == reader[r].at \in {"matching", "counts"} /\ reader[r].prefix = p

Invalidate(p) ==
    /\ step = "invalidate"
    /\ p \in affected
    /\ node' = Without(node, p)
    /\ affected' = affected \ {p}
    /\ reader' = [r \in Reader |->
                    IF Reading(r, p) THEN [reader[r] EXCEPT !.raced = TRUE]
                                     ELSE reader[r]]
    /\ UNCHANGED <<trie, recent, step, batch, flushed>>

ApplyReturns ==
    /\ step = "invalidate"
    /\ affected = {}
    /\ step' = "idle" /\ batch' = {} /\ flushed' = flushed + 1
    /\ UNCHANGED <<trie, recent, affected, node, reader>>

Tick ==
    /\ node' = Older(node)
    /\ UNCHANGED <<workerVars, reader>>

-----------------------------------------------------------------------------

WorkerStep == CountBatch \/ (\E p \in Prefix : Invalidate(p)) \/ ApplyReturns

ReaderStep(r) ==
    \/ ReadList(r) \/ ReadMatching(r) \/ Fill(r)
    \/ \E q \in Query : ReadCount(r, q)

SuggestNext ==
    \/ \E r \in Reader : ReaderStep(r) \/ \E p \in Prefix : Lookup(r, p)
    \/ \E b \in SUBSET Query : UpdateTrending(b)
    \/ WorkerStep \/ Tick

SuggestSpec == SuggestInit /\ [][SuggestNext]_suggestVars

\* Time passes, and the goroutines that have work are scheduled.
SuggestFairSpec ==
    /\ SuggestSpec
    /\ WF_suggestVars(Tick) /\ WF_suggestVars(WorkerStep)
    /\ \A r \in Reader : WF_suggestVars(ReaderStep(r))

-----------------------------------------------------------------------------
(* Properties.                                                             *)

\* Type correctness, the capacity of the node, and one entry per key.
SuggestTypeOK ==
    /\ trie \in [Query -> Nat] /\ recent \in [Query -> Nat]
    /\ Cardinality(Tracked) <= TrendCap
    /\ Len(node) <= MaxKeys /\ Cardinality(Keys(node)) = Len(node)
    /\ \A i \in DOMAIN node :
         /\ node[i].key \in Prefix /\ node[i].left \in -1 .. TTL
         /\ DOMAIN node[i].val.counts \subseteq Under[node[i].key]
    /\ \A r \in Reader :
         /\ reader[r].at \in {"idle", "list", "matching", "counts"}
         /\ reader[r].prefix \in Prefix
         /\ reader[r].missing \subseteq Under[reader[r].prefix]
    /\ step \in {"idle", "trie", "invalidate"}
    /\ batch \subseteq Query /\ affected \subseteq Prefix

\* A flush has changed what prefix p shows and has not invalidated it yet.
Pending(p) == (step = "trie" /\ p \in Affected(batch)) \/ p \in affected

\* The entry that the next Suggest for p is answered from, and its counts.
Cached(p) == EntryOf(node, p).val
Current(p) == \A q \in DOMAIN Cached(p).counts : Cached(p).counts[q] = trie[q]

\* "invalidatePrefixes drops the cache entry for every prefix of each changed
\* query, since those are the prefixes whose ranking may have shifted"
\* (engine.go:187-188): once the flush is through, a hit shows the trie's
\* counts, unless the request that filled the entry raced the invalidation.
OnlyRacesLeaveStale ==
    \A p \in Prefix :
        Hit(node, p) /\ ~Pending(p) /\ ~Cached(p).raced => Current(p)

Score(mode, q, c) == IF mode = "count" THEN c ELSE c + Alpha * recent[q]

\* Ranking the cached candidates ranks all queries below the prefix: whatever
\* is not a candidate has TopK candidates that score no less.  It is why an
\* entry can serve both modes at any later time.  Score stands for the real
\* one, log(1 + count) + alpha * recency, and also grows with both.
CandidatesSuffice ==
    \A p \in Prefix, mode \in {"count", "recency"} :
        Hit(node, p) /\ ~Pending(p) /\ ~Cached(p).raced =>
            LET counts == Cached(p).counts
            IN  \A q \in Under[p] \ DOMAIN counts :
                  trie[q] + recent[q] > 0 =>
                    Cardinality({c \in DOMAIN counts :
                                   Score(mode, c, counts[c]) >= Score(mode, q, trie[q])})
                      >= TopK

\* "Its effect on /suggest and /trending appears after the next flush"
\* (api.md:47): between flushes a hit shows the trie's counts.
FlushIsVisible ==
    step = "idle" => \A p \in Prefix : Hit(node, p) => Current(p)

\* A stale entry does not stay, however often it is asked for: a hit leaves
\* its lifetime alone, so that the TTL ends it.
StaleExpires ==
    \A p \in Prefix :
        Hit(node, p) /\ ~Current(p) ~> ~Hit(node, p) \/ Current(p)

=============================================================================
