-------------------------- MODULE DistributedCache --------------------------
(***************************************************************************)
(* internal/cache/cache.go over both backends: the ring routes a key to a  *)
(* node, which is a map of the process (memory.go) or a Redis server       *)
(* (redis.go).  The errors of Redis are ignored, commands that the client  *)
(* gave up on or repeats may still be executed, and the entries outlive    *)
(* the process, which may come back with other nodes.                      *)
(*                                                                         *)
(* An entry is reduced to whether it still is what the trie would give.    *)
(* What a request collects on a miss is in SuggestPath.                    *)
(***************************************************************************)
EXTENDS HashRing, MemoryNode

CONSTANTS
    Key,      \* prefixes
    Hash,     \* the position of each key (HashU64)
    Request,  \* the requests that may be in Suggest at one time
    Served    \* bound of the model: the hash functions the server runs with

ASSUME CacheAssumption ==
    /\ Hash \in [Key -> Position]
    /\ Served \subseteq [NodeId \X Index -> Position]

VARIABLES
    backend,  \* "memory" or "redis" (CACHE_BACKEND)
    up,       \* the process runs
    cache,    \* per node, its entries
    write,    \* per request, the Set that has yet to reach its node
    pending   \* keys whose candidates changed, not invalidated yet

cacheVars == <<backend, up, cache, write, pending>>
distributedVars == <<ringVars, cacheVars>>

\* history: fault is what went wrong with the entry.
Value == [stale : BOOLEAN, fault : {"none", "late", "undeleted", "outlived"}]
Current == [stale |-> FALSE, fault |-> "none"]
NoWrite == [node |-> None]

Route(k) == Owner(ring, Hash[k])

\* The nodes, with the value that f gives each entry of a node.
Revalued(f(_, _)) ==
    [n \in NodeId |-> [i \in DOMAIN cache[n] |->
        [cache[n][i] EXCEPT !.val = f(n, cache[n][i])]]]

\* The writes under way, with the value that f gives each.
Rewritten(f(_, _)) ==
    [r \in Request |-> IF write[r] = NoWrite THEN NoWrite
                       ELSE [write[r] EXCEPT !.val = f(write[r].node, write[r])]]

CacheInit ==
    /\ RingInit
    /\ backend \in {"memory", "redis"}
    /\ up = FALSE
    /\ cache = [n \in NodeId |-> <<>>]
    /\ write = [r \in Request |-> NoWrite]
    /\ pending = {}

-----------------------------------------------------------------------------
(* Requests.                                                               *)

Missed(r, n, k) == write' = [write EXCEPT ![r] = [node |-> n, key |-> k, val |-> Current]]

\* Faulty variant of Get: the candidates are set on the first node.
GetSetsFirst(r, k) ==
    /\ up
    /\ write[r] = NoWrite
    /\ Route(k) # None
    /\ \/ /\ backend = "memory"
          /\ cache' = [cache EXCEPT ![Route(k)] = AfterGet(@, k)]
          /\ IF Hit(cache[Route(k)], k) THEN UNCHANGED write ELSE Missed(r, nodes[1], k)
       \/ backend = "redis" /\ Missed(r, nodes[1], k) /\ UNCHANGED cache
    /\ UNCHANGED <<ringVars, backend, up, pending>>

\* Get in Suggest: a miss, or an error of Redis, and the request collects the
\* candidates and sets them.  On an empty ring there is nothing to do.
Get(r, k) ==
    /\ up
    /\ write[r] = NoWrite
    /\ Route(k) # None
    /\ \/ /\ backend = "memory"
          /\ cache' = [cache EXCEPT ![Route(k)] = AfterGet(@, k)]
          /\ IF Hit(cache[Route(k)], k) THEN UNCHANGED write ELSE Missed(r, Route(k), k)
       \/ backend = "redis" /\ Missed(r, Route(k), k) /\ UNCHANGED cache
    /\ UNCHANGED <<ringVars, backend, up, pending>>

\* Faulty variant of RedisSet: the TTL is given in another unit.
RedisSetLonger(node, k, v) ==
    <<[NewEntry(k, v) EXCEPT !.left = 2 * @]>> \o Without(node, k)

\* Set in Redis: SET with the TTL.
RedisSet(node, k, v) == <<NewEntry(k, v)>> \o Without(node, k)

\* Set reaches the node.  The client repeats a command that Redis has not
\* answered, so that it may arrive again.
SetArrives(r) ==
    /\ write[r] # NoWrite
    /\ LET w == write[r]
           v == IF w.val.stale /\ w.val.fault = "none"
                THEN [w.val EXCEPT !.fault = "late"] ELSE w.val
       IN  cache' = [cache EXCEPT ![w.node] =
                       IF backend = "memory" THEN AfterSet(@, w.key, v)
                                             ELSE RedisSet(@, w.key, v)]
    /\ \/ write' = [write EXCEPT ![r] = NoWrite]
       \/ backend = "redis" /\ UNCHANGED write
    /\ UNCHANGED <<ringVars, backend, up, pending>>

\* An error of Set is ignored.
SetFails(r) ==
    /\ backend = "redis"
    /\ write[r] # NoWrite
    /\ write' = [write EXCEPT ![r] = NoWrite]
    /\ UNCHANGED <<ringVars, backend, up, cache, pending>>

-----------------------------------------------------------------------------
(* The flush.                                                              *)

Outdated(e, ks) == [e.val EXCEPT !.stale = @ \/ e.key \in ks]

\* trie.ApplyBatch changes the candidates of the keys ks.
Change(ks) ==
    /\ up
    /\ pending = {} /\ ks # {}
    /\ cache' = Revalued(LAMBDA n, e : Outdated(e, ks))
    /\ write' = Rewritten(LAMBDA n, e : Outdated(e, ks))
    /\ pending' = ks
    /\ UNCHANGED <<ringVars, backend, up>>

\* Faulty variant of Invalidate: the node that was added first.
InvalidateFirst(k) ==
    /\ k \in pending
    /\ nodes # <<>>
    /\ cache' = [cache EXCEPT ![nodes[1]] = Without(@, k)]
    /\ pending' = pending \ {k}
    /\ UNCHANGED <<ringVars, backend, up, write>>

\* The error of Delete is ignored, too.
Invalidate(k) ==
    /\ k \in pending
    /\ LET n == Route(k)
       IN  \/ n = None /\ UNCHANGED cache
           \/ n # None /\ cache' = [cache EXCEPT ![n] = Without(@, k)]
           \/ /\ backend = "redis"
              /\ cache' = Revalued(LAMBDA m, e :
                   IF m = n /\ e.key = k /\ e.val.stale /\ e.val.fault = "none"
                   THEN [e.val EXCEPT !.fault = "undeleted"] ELSE e.val)
    /\ pending' = pending \ {k}
    /\ UNCHANGED <<ringVars, backend, up, write>>

-----------------------------------------------------------------------------
(* Nodes and process.                                                      *)

\* The clock.  Redis removes expired entries by itself.
Tick ==
    /\ cache' = [n \in NodeId |->
                   IF backend = "memory" THEN Older(cache[n])
                   ELSE LET old == Older(cache[n])
                        IN  Chosen(old, {i \in DOMAIN old : ~Expired(old[i])})]
    /\ UNCHANGED <<ringVars, backend, up, write, pending>>

\* Redis is at its memory limit and evicts any entry (allkeys-lru).
Evict(n, k) ==
    /\ backend = "redis"
    /\ k \in Keys(cache[n])
    /\ cache' = [cache EXCEPT ![n] = Without(@, k)]
    /\ UNCHANGED <<ringVars, backend, up, write, pending>>

\* The process ends, cleanly or not.
Down ==
    /\ up
    /\ up' = FALSE
    /\ pending' = {}
    /\ IF backend = "memory"
       THEN cache' = [n \in NodeId |-> <<>>] /\ write' = [r \in Request |-> NoWrite]
       ELSE UNCHANGED <<cache, write>>
    /\ UNCHANGED <<ringVars, backend>>

\* Before the next start, other nodes may be configured.  New adds the nodes
\* in their order; that Remove gives the same ring is OwnerIsNearest.
Reconfigure ==
    /\ ~up
    /\ RingNext
    /\ UNCHANGED cacheVars

\* The candidates of the keys ks differ from those of the last process: counts
\* were loaded meanwhile, or a crash lost them before they were stored.
Start(ks) ==
    /\ ~up
    /\ pos \in Served
    /\ backend = "redis" => nodes # <<>>
    /\ up' = TRUE
    /\ LET outlived(n, e) ==
             LET v == Outdated(e, ks)
             IN  [v EXCEPT !.fault = IF v.stale \/ n # Route(e.key) THEN "outlived" ELSE "none"]
       IN  cache' = Revalued(outlived) /\ write' = Rewritten(outlived)
    /\ UNCHANGED <<ringVars, backend, pending>>

CacheNext ==
    \/ \E r \in Request : SetArrives(r) \/ SetFails(r) \/ \E k \in Key : Get(r, k)
    \/ \E ks \in SUBSET Key : Change(ks) \/ Start(ks)
    \/ \E k \in Key : Invalidate(k) \/ \E n \in NodeId : Evict(n, k)
    \/ Tick \/ Down \/ Reconfigure

CacheSpec == CacheInit /\ [][CacheNext]_distributedVars

\* Time passes, and a write under way arrives or is given up.
CacheFairSpec ==
    /\ CacheSpec
    /\ WF_distributedVars(Tick)
    /\ \A r \in Request : /\ WF_distributedVars(SetArrives(r) /\ write'[r] = NoWrite)
                          /\ WF_distributedVars(SetFails(r))

-----------------------------------------------------------------------------
(* Properties.                                                             *)

\* Type correctness, the capacity of an in-process node, and one entry per key.
CacheTypeOK ==
    /\ backend \in {"memory", "redis"} /\ up \in BOOLEAN
    /\ pending \subseteq Key /\ (~up => pending = {})
    /\ \A n \in NodeId :
         /\ Cardinality(Keys(cache[n])) = Len(cache[n])
         /\ backend = "memory" => Len(cache[n]) <= MaxKeys
         /\ \A e \in ToSet(cache[n]) :
              /\ e.key \in Key /\ e.val \in Value
              /\ e.left \in (IF backend = "memory" THEN -1 ELSE 0) .. TTL
    /\ \A r \in Request :
         write[r] # NoWrite =>
            write[r].node \in NodeId /\ write[r].key \in Key /\ write[r].val \in Value

\* What a request for k is answered from the cache.
Answer(k) == EntryOf(cache[Route(k)], k).val
HitNow(k) == up /\ Route(k) # None /\ Hit(cache[Route(k)], k)

\* Between flushes a hit is current, unless the write that filled it was
\* overtaken by the change or, with Redis, its Del failed or it was stale
\* already when the process started: "Redis errors degrade to a cache miss,
\* which is safe" (redis.go:16-17) holds of all but these.
OnlyFaultsLeaveStale ==
    \A k \in Key \ pending :
        HitNow(k) /\ Answer(k).stale =>
            Answer(k).fault \in (IF backend = "memory" THEN {"late"} ELSE {"late", "undeleted", "outlived"})

\* Gets, Sets and invalidations of one process meet at one node: an entry
\* elsewhere was written by an earlier one, for another ring.
ElsewhereIsOld ==
    up => \A n \in NodeId : \A e \in ToSet(cache[n]) :
            n # Route(e.key) => e.val.fault = "outlived"

\* Once searches and restarts end, no stale answer is given for ever,
\* whatever Redis has lost, repeated or kept, and however often it is read.
StaleEnds ==
    <>[][pending' \subseteq pending /\ (up' => up)]_distributedVars =>
        <>[](\A k \in Key : ~(HitNow(k) /\ Answer(k).stale))

=============================================================================
