# Verification of the search typeahead server

TLA+ models of the Go server under `src/backend`, checked with TLC on small
instances; every safety property that they state is also proved with TLAPS, for
every value of the constants. File and line references are to `src/backend/internal/...` unless
a path says otherwise.

## The system

One process serves suggestions from memory and records searches.

| part | code | state | operations |
|---|---|---|---|
| batch writer | `batch/writer.go` | buffered channel `events`, the loop's map `pending` and count `total`, `quit`, four atomic counters | `Submit` (called by request goroutines), `loop` with `flush`, `Stop`, `Stats` |
| engine | `engine/engine.go` | the parts below, and `retry`: rows that failed to persist | `Record`, `ApplyBatch` (the writer's callback), `Suggest`, `candidates`, `rank`, `invalidatePrefixes` |
| trie | `trie/trie.go` | per node a count and a list of the K best queries below it | `Insert` and `Finalize` at startup, `ApplyBatch`, `TopK`, `Count` |
| trending index | `trending/trending.go`, `ranking/ranking.go` | at most `TRENDING_CAP` queries with a decaying value | `Seed`, `Update` with `evict`, `Effective`, `MatchingPrefix`, `Top` |
| cache | `cache/cache.go`, `cache/memory.go`, `cache/redis.go` | nodes with candidate sets per prefix, LRU and TTL | `Get`, `Set`, `Invalidate`, `Debug`, `Stats` |
| hash ring | `hashring/ring.go` | sorted virtual nodes | `Add`, `Remove`, `Get`, `Lookup` |
| store | `store/store.go` | one SQLite table: count and recency per query | `ForEach`, `PersistBatch`, `BulkLoadCSV` |
| lifecycle | `cmd/server/main.go` | the phases of startup and shutdown | build from the store, serve, signal, `Shutdown`, `writer.Stop` |
| HTTP API | `api/` | none | five handlers |
| metrics | `metrics/metrics.go` | histogram buckets | `Observe`, `Snapshot` |
| web UI | `web/app.js` | text box, list, request in flight | debounced suggestions, submit, trending |

**Write path.** A handler of `POST /search` calls `Record`, which calls
`Submit`: a send on the channel, waiting at most 50 ms when it is full. The
loop goroutine drains the channel into a map and calls `ApplyBatch` by size, on
a ticker, and once more at the end. `ApplyBatch` updates trending, then the
trie, writes the new absolute rows and those of earlier failures in one
transaction, and invalidates every prefix of every changed query.

**Read path.** `Suggest` looks the prefix up in the cache. On a miss it reads
the trie's list, the tracked queries below the prefix, and the counts of those
not in the list, each under a lock of its own, and caches the set; hit or miss,
it ranks the set with the recency of the moment.

**What is hard.** Senders, receiver, timeouts and shutdown meet on one channel.
Memory is updated before the database, and the two can part when a transaction
fails. A request may read before a flush and fill the cache after it. A list of
the trie is patched for ever and never recomputed. Main goes on when `Shutdown`
times out. The process may be killed anywhere, and Redis, if it is used, lives
on, delays, repeats and loses commands. The clock may be set back. `hazards` in `PROJECT.json`
lists each of these at its line.

**What makes each part correct.** Writer: each accepted search is applied
exactly once, each call is counted once and returns, `Stop` returns. Lifecycle:
nothing accepted is lost at exit, and a signal leads to an exit. Trie: every
list is a top-k with current counts. Write path: store and queued rows together
always hold what memory holds, nothing is counted twice, no stored count drops,
and what trending forgets is never more recent than what it shows.
Read path: a cached set is current and sufficient for both ranking modes. Cache:
an entry is stale only after a fault that can be named, and not for ever. Ring:
ownership follows from the set of nodes, and a change of the set moves no key
between nodes that stay.

## The modules

| module | what it models |
|---|---|
| `BatchWriter` | `writer.go`, one step per operation that another goroutine can see |
| `Server` (extends `BatchWriter`) | `POST /search` and `main.go` from `writer.Start` to the exit, by a signal or by an error of `ListenAndServe`, which like a crash flushes nothing |
| `SearchLedger` | abstract: an accepted search is applied later, once, and before the server closes |
| `TrieShape` | the tree, its lists and their order |
| `Trie` (extends `TrieShape`) | runtime: `ApplyBatch` with `upsertTop` |
| `TrieBuild` (extends `Trie`) | the whole life: `Insert`, `Finalize`, then `Trie` |
| `Trending` | `trending.go` and `ranking.go` as operators on an index: decay, `Bump`, `Key`, `evict`, `Top` |
| `FlushPath` (extends `Trending`) | `engine.ApplyBatch` with `trending.Update`, the store, retry, crash, clean stop, restart, loads, the clock |
| `MemoryNode` | `cache/memory.go` as operators on a node: each method holds the node's mutex |
| `SuggestPath` (extends `MemoryNode`) | `engine.Suggest` and `candidates` against `ApplyBatch` and its invalidation |
| `HashRing` | `ring.go` over an arbitrary hash function |
| `DistributedCache` (extends `HashRing`, `MemoryNode`) | `cache.go` and `redis.go`: routing, both backends, the faults of Redis, restarts with other nodes |
| `Metrics` | `metrics.go`, hits and misses, and the handler of `/metrics`, one step per atomic operation |
| `SearchBox` | the search box of `web/app.js`: timer, requests, list, keys; one step per event handler or continuation of an `await` |
| `ServerProofs` | theorems about `BatchWriter` and `Server` |
| `FlushPathProofs`, `TrieProofs`, `MetricsProofs`, `SearchBoxProofs` | theorems about the module of that name (`TrieProofs`: `Trie` and `TrieBuild`) |
| `MemoryNodeProofs` | lemmas on the operations of a cache node, used by the next two |
| `SuggestProofs` | theorems about `SuggestPath` |
| `CacheProofs` | theorems about `HashRing` and `DistributedCache` |
| `MC...` | the constants of the runs |

Names follow the code: `events`, `pending`, `total`, `quit`, `received` in
`BatchWriter` are the fields and locals of `writer.go`; `pc` says where a caller
is in `Submit` (`full`: the first select fell through; `parked`: waiting in the
second; `sent`: before `received.Add`), `loop` where the loop goroutine is.
Variables marked *history* do not exist in the code. Definitions marked *faulty
variant* are plausible bugs: each property is violated when one of them stands
in for the definition that follows it.

Abstractions, and what they rest on:

* Queries are values, already normalized; in the trie they are numbered in
  string order, since its order breaks ties by string.
* A Go map is a function with 0 for absent; its random order of iteration is a
  free choice (`Trie.ApplyOne`, `SuggestPath.Invalidate`).
* A list of the trie is the set of its entries: it is always sorted, and the
  order is total.
* Receiving from a full channel hands the oldest parked sender's value into the
  buffer in the same step, as the Go runtime does (`Dequeue`).
* A transaction commits or leaves the table as it was.
* Time decays recency in half-lives, and a recency is an integer number of
  fractions of what one search adds, so that halving is exact within the bound
  on time (`Trending`). `Key`, a logarithm in the code, is its exponential,
  which orders alike. `FlushPath` keeps real decay and eviction; in
  `SuggestPath`, where only the order of steps matters, any entry may go and
  recency is the number of searches since the query was last untracked.
* `SuggestPath` reads the trie's list as any top-k, which `Trie` establishes,
  and stands for the score by a function that grows with count and recency.
* Time in the cache is a number of ticks that an entry has left.
* In `DistributedCache` an entry is current or stale, and a *history* says which
  fault it owes its age to. What a request collects on a miss is taken as of the
  miss; a change before its `Set` makes the write stale. A command that Redis
  executes after its client gave up is a write that arrives later; a late `Del`
  only removes an entry, as an eviction does.
* Sorting and filtering in `HashRing` are given by ranks (`Sorted`, `Chosen`): the
  place of an element is the number of those before it.
* `Metrics` leaves the sum and the average out.

## The runs

| run | bounds | what it shows |
|---|---|---|
| `writer` | 2 queries, 2 callers, buffer 1, batch size 2, 4 calls | safety and liveness of the writer |
| `server` | the same, 3 calls | implements `SearchLedger`; nothing lost at exit and counters final unless cut off; a signalled process exits |
| `server_timeout` | the same | **violated**: `FlushedBeforeExit` |
| `trie` | queries a, ab, abc, ac; lists of 2; all stores with counts up to 2; batches of 1 or 2 queries; counts up to 3 | build and runtime lists |
| `flush_path` | 2 queries, 1 tracked and shown, 3 searches or loads per query, 2 half-lives back and forth | absolute rows, retry, crash, restart, loads, eviction under decay |
| `flush_stop` | the same, no failure once stopping | **violated**: `StopLosesNothing` |
| `suggest_path` | 2 queries, prefixes a and ab, 2 requests, a node of 1 entry, 1 batch | staleness and sufficiency of cached sets |
| `suggest_stale` | 1 request, a node of 2 entries, 1 batch | **violated**: `FlushIsVisible` |
| `distributed_cache` | 3 nodes, 2 virtual nodes each, 4 positions; the ring under every hash function, the cache over it under three; 1 prefix, 1 request, TTL 1 | ownership and movement; staleness under both backends |
| `metrics` | 3 requests in all, 3 bounds, latencies in the first, second and overflow bucket, 2 quantiles | a page read amid requests |
| `search_box` | 2 texts, 2 modes, 3 requests, answers of 0 to 2 items | late answers, highlight, loading status |
| `search_box_hidden` | the same | **violated**: `HighlightIsVisible` |

Why these bounds reach the interesting cases. A buffer of one and two callers
have a caller parked while the other's search is taken, and three calls fill
buffer and batch: the fourth makes a late size flush exceed `HeldBounded`. Four
queries under one node and lists of two have a query pushed out of a list, tie
with the last entry and return. With one tracked query every batch of two
evicts one of its own. One entry per node has the two prefixes evict each
other, and two requests have a slow fill overwrite a fresh one. Six virtual
nodes on four positions always coincide somewhere; the three hash functions
that the server runs with have them interleaved, in blocks and all at one
position. One prefix meets every fault of its owner and of former owners, since
nodes do not share anything; with one request, a write that is on its way again
meets what changed since (that another request stored something newer is left to
the theorem, which is for any number). Three requests between their two adds send
a quantile to the last bound, and one or two samples already lose a part of one
to the rounding of the target. Two half-lives with three searches let a query overtake
another and fall behind again. Three requests have one
aborted, one failed or late and one current, and answers of different lengths
leave a highlight past the end unless it is reset.

Symmetry is used in `flush_path`, over the queries, and in `metrics`, over the
requests, which no definition tells apart; none of their properties is a
liveness property.
`CHECK_DEADLOCK FALSE` is given where the system may stop: the writer and the
server after shutdown, the others because the bounds on calls and counts end a
behaviour. `distributed_cache`, `metrics` and `search_box` have no such
end and check deadlock.

### Fairness

The liveness properties assume that a goroutine that can run does run and that
timers fire: weak fairness of a caller's steps inside `Submit` (the timeout is
one of them), of the loop's steps, of the answer of a request, of the end of
`Shutdown` and of `main`, of the clock and of the worker; a write to a cache
node arrives or is given up. Weak fairness is enough for a closed `quit`
although the loop's `select` may take any ready case: the searches that compete
with it come to an end, in the program because the listener is closed before
`Stop` and each handler left submits once, in `BatchWriter` because the number
of calls is bounded. Nothing is assumed of clients: a request may never send its body,
and `ExitsAfterSignal` then relies on the context's timeout.

### What the violated runs mean

* `server_timeout`. `main.go` ignores the error of `srv.Shutdown`. If a handler
  outlives the five seconds, the writer is stopped under it, and a search it
  submits afterwards lands in a channel that nobody drains: accepted, answered
  with 200, lost. `main.go` promises to stop the listener "so no new searches
  arrive, then flush the buffer".
* `flush_stop`. A transaction fails, the database recovers, no search arrives,
  and the server is stopped. `flush` returns early on an empty map, so that the
  rows in `retry` are never written, although `Stop` "blocks until the final
  flush completes ... so no searches are lost". The same early return keeps a
  tick from retrying: until the next search, a crash loses these rows as well.
* `suggest_stale`. The request reads its candidates, the flush updates the trie
  and invalidates the prefix, the request puts the old candidates into the
  cache. They are served until the TTL, while `api.md` promises the effect
  "after the next flush". `OnlyRacesLeaveStale` shows that this race is the only
  way to a stale entry, and `StaleExpires` that the entry ends.
* `search_box_hidden`. Escape, a submit or a failed request hides the list but
  keeps `items`. `move` asks only whether there are items, so that an arrow key
  highlights one in the hidden list, and Enter submits it in place of the text
  that the user sees.

Met while modelling, and not given a run of their own:

* *What a crash loses.* `performance-report.md:59` says that "a crash loses only
  the unflushed tail (bounded by buffer size + batch size)". It does not, in two
  ways. Rows whose transaction failed wait in `Engine.retry`, in memory
  (`engine.go:178-179`), and a crash loses them too: as many as there are queries
  searched since the database failed, with any number of searches each. And the
  drain for shutdown aggregates without the size test. What does hold is in two
  parts: `HeldBounded` bounds what waits in the writer before the drain, and
  `CountsQueued` says that every other count is in the table or in `retry`.
* *What a quantile is.* `quantile` "returns the upper bound of the bucket
  containing the q-th percentile" (`metrics.go:58`), but it rounds its target
  down to whole samples (`metrics.go:60`). Of one slow sample the target is 0,
  and every quantile is 25 µs, the bound of an empty bucket; the 99th percentile
  of fewer than a hundred samples leaves the slowest out. A sample that is
  counted and not yet in a bucket can send it to the last bound instead.
  `QuantileWithinASample` states the precision that there is: a bound short of
  the share by less than one sample, unless it is the last. And as each
  percentile is read afresh from filling buckets, a page can show a p50 above
  its p99.

The root's list is left out of `ApplyBatch`'s path, so that only `Finalize`
sets it; no endpoint reads it. `upserts` counts a batch whose transaction
failed and does not count retried rows, and so differs from the store's
`writes`. The comment of `PersistBatch` says that a failed flush needs no retry
because the next one rewrites the row; it rewrites a row only if its query is
searched again, and it is the engine's retry that `CountsQueued` relies on.
When two queries tie for the last place of a list, which of them is in it
depends on the order of arrival; a rebuild from the store may choose the other.
In the page, clearing the box or submitting does not abort the open request,
whose answer shows the list again, and the first ArrowUp goes to the last but
one item, since `active` is -1 then.

`key` "increases on every search" (`ranking.go:54`) only while the clock does
not step back: then a query just searched can be the one that `evict` drops,
which is why `TopIsMostRecent` excepts it. `cmd/load` while the server is up
adds to rows that the next flush of the same query overwrites, so that these
counts are gone (`CountsQueued` and `StoredNeverDrops` except exactly these
queries). "Redis errors degrade to a cache miss, which is safe"
(`redis.go:16-17`) does not hold of `Del`, nor of a `Set` that is executed late:
both leave a stale entry until its TTL, as `OnlyFaultsLeaveStale` lists. A
`CACHE_TTL` of zero means no caching to the in-process node and no expiry to
Redis, and `StaleEnds` needs a positive one there.

## Proofs

`tlapm` checks every leaf; nothing is assumed except the named assumptions on
the constants. `WriterAssumption`, `TrendingAssumption`, `FlushAssumption`,
`NodeAssumption` and `RingAssumption` ask for positive sizes, as the
constructors enforce, and for finite sets of callers and, where queries are
sorted or counted, of queries. `ShapeAssumption` and `BuildAssumption` say that
a query's path is its prefixes; `TrieAssumption` that counts are numbers;
`SuggestAssumption` that each prefix has its queries below it, that there is a
prefix, and that a list shown is no longer than a list kept (`config.go`'s
`TOP_K` and `CANDIDATE_N`, 10 and 50 unless they are set, which nothing
enforces); `CacheAssumption` that hashes are positions;
`MetricsAssumption` that bounds rise and percentiles are percentages;
`BoxAssumption` that the texts of the status differ. Queries may be infinitely
many in the writer, but for `HeldBounded`, `WriteReduction` and
`ExitStatsComplete`: these theorems name the assumption that they are finitely
many, since what they speak of is a sum over them. The bounds of the models
(`MaxSubmits`, `MaxCount`, `MaxGiven`, `MaxTime`, `MaxFlushes`, `MaxRequests`)
are arbitrary natural numbers in the proofs.

* **`ServerProofs`**. `ExactlyOnce` needs that the queue of parked callers is
  what `pc` says, without repetition (`QueueOK`), since a receive counts the
  parked caller's search; `CallsAccounted` uses it the same way for the number
  of callers inside `Submit`. `NothingStranded` needs that the final flush is
  the one that returns to `exited` (`FinalFlushOK`).
  `HeldBounded` needs that `total` is the sum of `pending` and below the batch
  size whenever the loop selects, and that a flush before the drain takes no
  more than a batch (`CountedOK`); `WriteReduction` that a flush is never empty and its rows
  are not yet counted (`RowsOK`); `ExitStatsComplete` that what is accepted and
  not received is held by callers between the send and the count
  (`ReceivedOK`). The lemmas on sums over maps go by a least counterexample
  among the finite subsets of the queries.
  Every step of the server is a step of the writer or leaves it alone
  (`ServerUsesWriter`), so the server inherits all of this. Unless it was cut
  off, no handler is active after `Shutdown`, hence no caller is in `Submit` and
  the buffer stays empty once the loop has found it empty; with `ExactlyOnce`,
  accepted and applied agree at the exit, which gives `NothingLostAtExit` and,
  step by step, the refinement of `SearchLedger`. A server that was cut off
  or could not listen refines it too: it never closes the ledger.
* **`FlushPathProofs`**. `CountsQueued`, `RecencyQueued`, `NeverOvercounts` and
  `StoredNeverDrops` speak of the time between flushes; the inductive `FlushInv`
  says what holds within one: the rows to write are those of the batch, with the
  counts of the trie, and those that wait (`RowsOK`); a waiting row has the
  trie's count unless its query is in the batch again (`RetryOK`); every other
  query is as it was between flushes (`CountsFollow`, `RecencyFollows`); and the
  store is behind the trie unless loaded (`StoreBehind`), so that no row lowers
  a count.
  `TopIsMostRecent` is about what no variable holds any longer: that a query
  which the index dropped is still less recent, much later, than what replaced
  it. `ForgottenIsOlder` says so of the rows, at every step of a flush, in terms
  of `Key`, which does not change with time; `Stamped` says that no time stamp
  is ahead of a clock that never stepped back, so that the decay since then is a
  whole number of halvings and a smaller key stays a smaller value now. The
  induction over numbers that this asks for is had by counting: 2^n is the
  number of subsets of a set of n elements, and the library's facts about
  cardinalities give that it is positive and that a sum of exponents is a
  product.
* **`TrieProofs`**. `ListsAreTopK`: replacing the last entry by a query with a
  larger count, or appending while there is room, keeps a top-k because counts
  only grow (`UpsertKeepsTopK`); sorting and truncating gives one, by counting
  ranks (`BestIsTopK`). `ListsOnlyImprove` follows from the same cases
  (`UpsertImproves`). `FinalizeIsTopK`: sorting and truncating what holds the
  best K of a set gives the same as doing it to the whole set (`BestOfPart`),
  and what is among the best of a subtree is among the best of the child it is
  below (`MergeIsBest`); so the function from nodes to their best K satisfies the
  equation of the recursive walk, and no other does: of the nodes where another
  differs, a deepest one has no child to get the difference from
  (`ListsAreBest`).
* **`SuggestProofs`**. `OnlyRacesLeaveStale` and `CandidatesSuffice` come from
  one invariant: of an entry whose fill no flush overtook, and which waits for
  no invalidation, the counts are the trie's, no query below the prefix that it
  leaves out is trending, and each such query has `TopK` of its own before it
  (`EntriesGood`); and the same, as far as it has got, of a request that
  collects (`ReadersGood`). The last part survives a flush because a query that
  overtakes changes, and its prefixes are invalidated; that `TopK` entries come
  first in either ranking, whatever the score, is then counting.
* **`CacheProofs`**. `RingInv`: after any adds and removes the ring is the sorted
  sequence of the virtual nodes of its nodes, which makes `OwnerIsNearest` a
  statement about sets, and `MinimalDisruption` follows from that: the nearest
  of a larger set is that of the smaller one, or new. What sorting and filtering
  return is proved from ranks: they are distinct, grow along the order and leave
  no gap. `CacheUsesRing` carries these results over to the cache.
  `OnlyFaultsLeaveStale` and `ElsewhereIsOld` come from `CacheInv`: each stale
  entry which nobody is about to invalidate carries a fault, an entry at a node
  that its key is not routed to was there before the nodes changed
  (`EntryGood`), and much the same holds of a write under way (`WriteGood`). It needs that a process
  which is down has nothing to invalidate, and if its cache was in memory, none
  (`ProcessOK`).
* **`MemoryNodeProofs`**: what `Get`, `Set`, `Delete`, the eviction and the
  passing of time do to the set of a node's entries and to its length, for any
  values. A node is sound when no two of its entries have one key (`OneEach`).
* **`MetricsProofs`**. `PageAgrees`: `AllObserved` counts the requests between
  `cache.Get` and `Observe`, so that the cache's figures are never behind the
  histograms'; `ReadSoFar` says what a page read half-way knows, and rests on
  the order in which `handleMetrics` reads. `MetricsTypeOK` and
  `QuantileWithinASample`: `BucketsOK` counts the requests between the two adds
  of `Observe`; `ScanOK` says of the loop of `quantile` that what it has added
  up lies between what these buckets held at its start and what they hold now,
  and has not reached the target; and the target is the share, less a part of
  one sample (`TargetIsShare`). That sums grow
  with the buckets, and by one with a sample, is proved from the equations of
  `UpTo` by a least counterexample.
* **`SearchBoxProofs`**. `BoxInv` adds to the properties that only the last
  request is open (`OnlyLastOpen`), since each aborts the one it replaces;
  `LatestWins` and `LoadingIsOpen` rest on it.

Only model-checked is liveness, which is out of the prover's reach:
`SubmitReturns`, `AcceptedIsApplied`, `StopReturns`, `ExitsAfterSignal`,
`StaleExpires` and `StaleEnds`. The violated runs are counterexamples and have
nothing to prove.

## Not modelled

The sum and average of the histogram; the message of a submitted search and the
trending panel of the web UI; a loss of power under `synchronous=NORMAL`; the
parsing of the CSV file; several servers on one Redis; a switch of backend
between two runs (Redis is then merely left alone for longer); the text of
queries (normalization, Unicode), HTTP and JSON; configuration, except as
constants; the generator, benchmark and rebalance programs, which are
sequential tools.

## Plan

Models: the LRU order against an abstract history of uses, and the trending
panel of the page. Proofs: that a trie which `Finalize` has built is one of
`TrieSpec`, that the candidates `SuggestPath` may read are lists of `Trie`,
and safety halves of the liveness properties (what a step brings nearer to the
end that they promise).
