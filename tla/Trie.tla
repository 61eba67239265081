--------------------------------- MODULE Trie ---------------------------------
(***************************************************************************)
(* The runtime path of internal/trie/trie.go: ApplyBatch adds the counts   *)
(* of a flushed batch and bubbles each changed query up its path.  Readers *)
(* (TopK, Count) wait for the lock that ApplyBatch holds; within a batch   *)
(* the queries are taken in the random order of a Go map.                  *)
(***************************************************************************)
EXTENDS TrieShape

CONSTANTS
    Stores,    \* the stores the trie may have been built from
    Deltas,    \* the batches a flush may hand over
    MaxCount   \* bound of the model: the largest count reached

VARIABLES
    count,     \* the counts in the nodes
    top,       \* the list of each node
    todo       \* the batch being applied, without the queries already done

trieVars == <<count, top, todo>>

NoDelta == [q \in Query |-> 0]

ASSUME TrieAssumption ==
    /\ Stores \subseteq [Query -> Nat]
    /\ Deltas \subseteq [Query -> Nat]
    /\ \A store \in Stores, n \in Node : IsFiniteSet(Stored(store, n))

\* After Finalize every node has the best K queries of its subtree.
Finalized(c) == [n \in Node |-> Best(Stored(c, n), K)]

TrieInit ==
    /\ count \in Stores
    /\ top = Finalized(count)
    /\ todo = NoDelta

ApplyBatch(deltas) ==
    /\ todo = NoDelta
    /\ \A q \in Query : count[q] + deltas[q] <= MaxCount
    /\ todo' = deltas
    /\ UNCHANGED <<count, top>>

Listed(list, q) == \E r \in list : r.query = q

\* The entry at the end of the list.
LastOf(list) == CHOOSE r \in list : \A s \in list : s = r \/ Beats(s, r)

\* Faulty variant of Upsert: a query already listed keeps its old entry too.
UpsertKeepsOld(list, q, c) ==
    IF Cardinality(list) < K THEN list \cup {Entry(q, c)}
    ELSE IF c > LastOf(list).count
         THEN (list \ {LastOf(list)}) \cup {Entry(q, c)}
         ELSE list

\* Faulty variant of Upsert: no comparison with the entry pushed out.
UpsertAlways(list, q, c) ==
    IF Listed(list, q) THEN {r \in list : r.query # q} \cup {Entry(q, c)}
    ELSE IF Cardinality(list) < K THEN list \cup {Entry(q, c)}
    ELSE (list \ {LastOf(list)}) \cup {Entry(q, c)}

\* upsertTop: update the query's entry, or append it, or let it replace the
\* last entry if it has a larger count.
Upsert(list, q, c) ==
    IF Listed(list, q) THEN {r \in list : r.query # q} \cup {Entry(q, c)}
    ELSE IF Cardinality(list) < K THEN list \cup {Entry(q, c)}
    ELSE IF c > LastOf(list).count
         THEN (list \ {LastOf(list)}) \cup {Entry(q, c)}
         ELSE list

\* One query of the batch; the root is not among the nodes on its path.
ApplyOne(q) ==
    /\ todo[q] > 0
    /\ count' = [count EXCEPT ![q] = @ + todo[q]]
    /\ top' = [n \in Node |->
                 IF n \in OnPath(q) THEN Upsert(top[n], q, count[q] + todo[q])
                                    ELSE top[n]]
    /\ todo' = [todo EXCEPT ![q] = 0]

TrieNext ==
    \/ \E deltas \in Deltas : ApplyBatch(deltas)
    \/ \E q \in Query : ApplyOne(q)

TrieSpec == TrieInit /\ [][TrieNext]_trieVars

-----------------------------------------------------------------------------

\* list is a top-k of the stored entries: current counts only, as many as
\* there are up to K, and nothing outside has a larger count.
IsTopK(list, entries) ==
    /\ list \subseteq entries
    /\ Cardinality(list) <= K
    /\ \A s \in entries \ list :
         Cardinality(list) = K /\ \A r \in list : r.count >= s.count

\* "Counts only increase, so each affected node's top-k is updated by bubbling
\* the changed query up its root path; no sibling merges needed"
\* (trie.go:6-8): bubbling keeps every list that a lookup can reach a top-k of
\* its subtree, with the counts the trie has now.
ListsAreTopK == \A n \in Inner : IsTopK(top[n], Stored(count, n))

\* A list never gets shorter, and once it is full its smallest count never
\* drops: what a lookup loses, it loses to something better.
ListsOnlyImprove ==
    [][\A n \in Inner :
         /\ Cardinality(top[n]) <= Cardinality(top'[n])
         /\ Cardinality(top[n]) = K =>
              \A r \in top'[n] : \E s \in top[n] : s.count <= r.count]_trieVars

===============================================================================
