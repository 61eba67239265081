----------------------------- MODULE MemoryNode -----------------------------
(***************************************************************************)
(* internal/cache/memory.go: one in-process cache node, a map with a       *)
(* recency list.  A node is the sequence of its entries, the most recently *)
(* used first.  Every method holds the node's mutex: it is one operator,   *)
(* which gives the node after the call.                                    *)
(***************************************************************************)
EXTENDS Integers, SequencesExt

CONSTANTS
    MaxKeys,  \* entries of a node (CACHE_MAX_KEYS)
    TTL       \* lifetime of an entry in ticks of the clock (CACHE_TTL)

\* NewMemory replaces any smaller capacity by a positive default.
ASSUME NodeAssumption == MaxKeys \in Nat \ {0} /\ TTL \in Nat

\* left is the time to expiresAt, -1 once the clock is past it.
NewEntry(k, v) == [key |-> k, val |-> v, left |-> TTL]
Expired(e) == e.left < 0

Keys(node) == {node[i].key : i \in DOMAIN node}
Place(node, k) == CHOOSE i \in DOMAIN node : node[i].key = k
EntryOf(node, k) == node[Place(node, k)]
Hit(node, k) == k \in Keys(node) /\ ~Expired(EntryOf(node, k))

\* Delete.
Without(node, k) == IF k \in Keys(node) THEN RemoveAt(node, Place(node, k)) ELSE node

\* Faulty variant of AfterGet: a hit renews the entry's lifetime.
AfterGetSliding(node, k) ==
    IF Hit(node, k) THEN <<NewEntry(k, EntryOf(node, k).val)>> \o Without(node, k)
                    ELSE Without(node, k)

\* Get: a hit moves to the front, an expired entry is removed.
AfterGet(node, k) ==
    IF Hit(node, k) THEN <<EntryOf(node, k)>> \o Without(node, k)
                    ELSE Without(node, k)

\* Faulty variant of AfterSet: nothing is evicted.
AfterSetUnbounded(node, k, v) == <<NewEntry(k, v)>> \o Without(node, k)

\* Set: the least recently used entry is evicted, expired or not.
AfterSet(node, k, v) ==
    LET all == <<NewEntry(k, v)>> \o Without(node, k)
    IN  SubSeq(all, 1, IF Len(all) > MaxKeys THEN MaxKeys ELSE Len(all))

\* The clock advances by one tick.
Older(node) ==
    [i \in DOMAIN node |-> [node[i] EXCEPT !.left = IF @ < 0 THEN @ ELSE @ - 1]]

=============================================================================
