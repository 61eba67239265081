------------------------------ MODULE FlushPath ------------------------------
(***************************************************************************)
(* The write path behind the batch writer: engine.ApplyBatch updates the   *)
(* trending index and the trie, which live in memory, and then persists    *)
(* the new absolute rows (internal/store) together with the rows that an   *)
(* earlier flush failed to persist.  The process may crash between any two *)
(* steps or stop cleanly, and rebuilds its memory from the store.          *)
(*                                                                         *)
(* BatchWriter is reduced to the searches it holds.  The invalidation that *)
(* ends ApplyBatch touches the cache only and is in SuggestPath.           *)
(***************************************************************************)
EXTENDS Trending

CONSTANTS
    TopK,          \* queries that GET /trending shows (TOP_K)
    MayFailAtStop, \* whether a write may still fail once Stop was called
    MaxGiven,      \* bound of the model: searches and loads per query
    MaxTime        \* bound of the model: the clock, in half-lives

ASSUME FlushAssumption ==
    /\ TopK \in Nat
    /\ MayFailAtStop \in BOOLEAN
    /\ MaxGiven \in Nat
    /\ MaxTime \in Nat

VARIABLES
    phase,      \* "serving", "stopping" (main waits in Stop) or "down"
    buffered,   \* per query, searches the writer holds
    step,       \* where the worker is in ApplyBatch
    batch,      \* the batch it applies
    trend,      \* the trending index
    recency,    \* the index before evict: what Update returns for the batch
    trie,       \* counts in the trie
    rows,       \* the rows to persist
    retry,      \* the rows that failed to persist
    store,      \* the table: per query its row, count 0 if there is none
    now,        \* the wall clock
    given,      \* history: per query, searches accepted and counts loaded
    loaded,     \* history: queries that a load changed behind the server
    regressed   \* history: the clock has stepped back

memory == <<buffered, step, batch, trend, recency, trie, rows, retry>>
history == <<given, loaded, regressed>>
flushVars == <<phase, memory, store, now, history>>

Zero == [q \in Query |-> 0]
Plus(f, g) == [q \in Query |-> f[q] + g[q]]
Support(f) == {q \in Query : f[q] > 0}
NoRows == [q \in {} |-> 0]
Row == [count : Nat, recent : State]

Forget ==
    /\ buffered' = Zero /\ step' = "idle" /\ batch' = Zero
    /\ trend' = Untracked /\ recency' = Untracked /\ trie' = Zero
    /\ rows' = NoRows /\ retry' = NoRows

FlushInit ==
    /\ phase = "down"
    /\ buffered = Zero /\ step = "idle" /\ batch = Zero
    /\ trend = Untracked /\ recency = Untracked /\ trie = Zero
    /\ rows = NoRows /\ retry = NoRows
    /\ store = [q \in Query |-> [count |-> 0, recent |-> NoState]]
    /\ now = 0
    /\ given = Zero /\ loaded = {} /\ regressed = FALSE

Alive == phase # "down"

-----------------------------------------------------------------------------
(* The flush.                                                              *)

\* Submit, up to the writer's map.
Search(q) ==
    /\ phase = "serving"
    /\ given[q] < MaxGiven
    /\ buffered' = [buffered EXCEPT ![q] = @ + 1]
    /\ given' = [given EXCEPT ![q] = @ + 1]
    /\ UNCHANGED <<phase, step, batch, trend, recency, trie, rows, retry, store, now,
                   loaded, regressed>>

\* The writer hands over its map, and trending.Update bumps every query of it
\* and evicts.  What it holds besides is still in its channel.
Flush(b) ==
    /\ Alive
    /\ step = "idle"
    /\ Support(b) # {}
    /\ \A q \in Query : b[q] <= buffered[q]
    /\ buffered' = [q \in Query |-> buffered[q] - b[q]]
    /\ batch' = b
    /\ recency' = Bumped(trend, b, now)
    /\ trend' \in Evicted(recency')
    /\ step' = "counting"
    /\ UNCHANGED <<phase, trie, rows, retry, store, now, history>>

\* Rows of this batch win over rows that failed before.
Merged(new, old) ==
    [q \in DOMAIN new \cup DOMAIN old |-> IF q \in DOMAIN new THEN new[q] ELSE old[q]]

\* trie.ApplyBatch, and the rows with the trie's new absolute counts.
CountBatch ==
    /\ step = "counting"
    /\ trie' = Plus(trie, batch)
    /\ rows' = Merged([q \in Support(batch) |->
                          [count |-> trie'[q], recent |-> recency[q]]], retry)
    /\ step' = "persisting"
    /\ UNCHANGED <<phase, buffered, batch, trend, recency, retry, store, now, history>>

\* Faulty variant of Upserted: the counts are added to the stored ones.
UpsertedByAdding(table, new) ==
    [q \in Query |->
        IF q \in DOMAIN new
        THEN [count |-> table[q].count + new[q].count, recent |-> new[q].recent]
        ELSE table[q]]

\* The UPSERT of every row, in one transaction.
Upserted(table, new) ==
    [q \in Query |-> IF q \in DOMAIN new THEN new[q] ELSE table[q]]

\* Faulty variant of PersistSucceeds: the rows to retry are not cleared.
PersistSucceedsKeepsRetry ==
    /\ step = "persisting"
    /\ store' = Upserted(store, rows)
    /\ step' = "done"
    /\ loaded' = loaded \ DOMAIN rows
    /\ UNCHANGED <<phase, buffered, batch, trend, recency, trie, rows, retry, now,
                   given, regressed>>

PersistSucceeds ==
    /\ step = "persisting"
    /\ store' = Upserted(store, rows)
    /\ retry' = NoRows
    /\ step' = "done"
    /\ loaded' = loaded \ DOMAIN rows
    /\ UNCHANGED <<phase, buffered, batch, trend, recency, trie, rows, now, given,
                   regressed>>

\* Faulty variant of ToRetry: only the rows of this batch are kept.
ToRetryThisBatch(failed) == [q \in Support(batch) |-> failed[q]]

\* Faulty variant of ToRetry: the counts are kept, the recency is not.
ToRetryCountOnly(failed) ==
    [q \in DOMAIN failed |-> [count |-> failed[q].count, recent |-> NoState]]

ToRetry(failed) == failed

\* Any error rolls the transaction back.
PersistFails ==
    /\ step = "persisting"
    /\ phase = "serving" \/ MayFailAtStop
    /\ retry' = ToRetry(rows)
    /\ step' = "done"
    /\ UNCHANGED <<phase, buffered, batch, trend, recency, trie, rows, store, now,
                   history>>

\* The callback returns to the writer.
FlushReturns ==
    /\ step = "done"
    /\ step' = "idle"
    /\ batch' = Zero /\ recency' = Untracked /\ rows' = NoRows
    /\ UNCHANGED <<phase, buffered, trend, trie, retry, store, now, history>>

-----------------------------------------------------------------------------
(* The process.                                                            *)

Stop ==
    /\ phase = "serving"
    /\ phase' = "stopping"
    /\ UNCHANGED <<memory, store, now, history>>

\* The final flush of an empty map is none: main returns.
Exit ==
    /\ phase = "stopping"
    /\ step = "idle"
    /\ buffered = Zero
    /\ phase' = "down"
    /\ Forget
    /\ UNCHANGED <<store, now, history>>

Crash ==
    /\ Alive
    /\ phase' = "down"
    /\ Forget
    /\ UNCHANGED <<store, now, history>>

\* main refuses an empty store, inserts every row into the trie, and seeds the
\* trending index with the rows that have a recency.
Restart ==
    /\ phase = "down"
    /\ \E q \in Query : store[q].count > 0
    /\ phase' = "serving"
    /\ trie' = [q \in Query |-> store[q].count]
    /\ trend' \in Evicted([q \in Query |-> store[q].recent])
    /\ loaded' = {}
    /\ UNCHANGED <<buffered, step, batch, recency, rows, retry, store, now, given,
                   regressed>>

\* cmd/load, with the server down or up: counts are added, recency stays.  The
\* time stamp of a new row is not modelled, nobody reads it.
Load(q) ==
    /\ given[q] < MaxGiven
    /\ store' = [store EXCEPT ![q].count = @ + 1]
    /\ given' = [given EXCEPT ![q] = @ + 1]
    /\ loaded' = IF Alive THEN loaded \cup {q} ELSE loaded
    /\ UNCHANGED <<phase, memory, now, regressed>>

\* The wall clock moves on, or is set back.
Clock(t) ==
    /\ t # now
    /\ now' = t
    /\ regressed' = (regressed \/ t < now)
    /\ UNCHANGED <<phase, memory, store, given, loaded>>

FlushNext ==
    \/ \E q \in Query : Search(q) \/ Load(q)
    \/ \E b \in [Query -> 0 .. MaxGiven] : Flush(b)
    \/ CountBatch \/ PersistSucceeds \/ PersistFails \/ FlushReturns
    \/ Stop \/ Exit \/ Crash \/ Restart
    \/ \E t \in 0 .. MaxTime : Clock(t)

FlushSpec == FlushInit /\ [][FlushNext]_flushVars

-----------------------------------------------------------------------------
(* Properties.                                                             *)

\* The row that memory holds for q is in the table or waits for its retry.
Queued(q) == IF q \in DOMAIN retry THEN retry[q] ELSE store[q]

\* Type correctness, and the size of the trending index.
FlushTypeOK ==
    /\ phase \in {"serving", "stopping", "down"}
    /\ step \in {"idle", "counting", "persisting", "done"}
    /\ buffered \in [Query -> Nat] /\ batch \in [Query -> Nat]
    /\ trend \in [Query -> State] /\ Cardinality(Tracked(trend)) <= TrendCap
    /\ recency \in [Query -> State] /\ trie \in [Query -> Nat]
    /\ DOMAIN rows \subseteq Query /\ \A q \in DOMAIN rows : rows[q] \in Row
    /\ DOMAIN retry \subseteq Query /\ \A q \in DOMAIN retry : retry[q] \in Row
    /\ store \in [Query -> Row]
    /\ now \in Nat /\ given \in [Query -> Nat]
    /\ loaded \subseteq Query /\ regressed \in BOOLEAN

\* "Absolute values are idempotent, so rows that failed on a previous flush
\* are safe to retry here" (engine.go:164-166): between two flushes each count
\* in memory is in the table, or is queued, as it is now, for the next flush.
\* A load behind the server's back hides none of it.
CountsQueued ==
    Alive /\ step \in {"idle", "done"} =>
        \A q \in Query :
            \/ Queued(q).count = trie[q]
            \/ q \in loaded /\ Queued(q).count > trie[q]

\* The same of the recency of every tracked query, so that a restart brings
\* back what trending and ranking show.
RecencyQueued ==
    Alive /\ step \in {"idle", "done"} =>
        \A q \in Tracked(trend) : Queued(q).recent = trend[q]

\* "Top queries by recent activity (time-decayed)" (api.md:69), although the
\* index forgets: as long as the clock never stepped back, no query that it
\* has dropped is, by its row, more recent now than one that is shown.  So a
\* restart, which seeds the index from the rows, shows the same.
TopIsMostRecent ==
    Alive /\ step \in {"idle", "done"} /\ ~regressed =>
        \A r \in Query \ Tracked(trend) :
            LET lost == Effective(Queued(r).recent, now)
            IN  /\ lost > 0 => Cardinality(Tracked(trend)) = TrendCap
                /\ \A q \in Top(trend, TopK, now) : lost <= Effective(trend[q], now)

\* No failed write, retry, crash, restart or load counts a search twice.
NeverOvercounts ==
    \A q \in Query :
        /\ store[q].count <= given[q]
        /\ trie[q] + buffered[q] + (IF step = "counting" THEN batch[q] ELSE 0) <= given[q]

\* A retried row never overwrites a later one: a stored count never drops,
\* except for a query that was loaded behind the server's back.
StoredNeverDrops ==
    [][\A q \in Query \ loaded : store'[q].count >= store[q].count]_flushVars

\* "Stop signals shutdown and blocks until the final flush completes. Call it
\* after the HTTP server has stopped accepting requests so no searches are
\* lost" (writer.go:133-134): main returns with every count in the table.
StopLosesNothing ==
    [][Exit => \A q \in Query : store[q].count >= trie[q]]_flushVars

===============================================================================
