------------------------------ MODULE TrieShape ------------------------------
(***************************************************************************)
(* internal/trie/trie.go: the nodes of the prefix tree and the lists they  *)
(* keep.  A list is sorted by count descending and query ascending, so     *)
(* that it is given by the set of its entries.                             *)
(***************************************************************************)
EXTENDS Integers, Sequences, FiniteSets

CONSTANTS
    Query,   \* the queries, numbered in string order
    Path,    \* per query, its nodes from the root's child to its own node
    Root,    \* the node of the empty prefix
    K        \* length of a node's list (CANDIDATE_N)

OnPath(q) == {Path[q][i] : i \in DOMAIN Path[q]}
Inner == UNION {OnPath(q) : q \in Query}
Node == Inner \cup {Root}

\* A query is not empty, so that none ends at the root.
ASSUME ShapeAssumption ==
    /\ Query \subseteq Nat
    /\ K \in Nat \ {0}
    /\ \A q \in Query : Root \notin OnPath(q)

Below(n) == IF n = Root THEN Query ELSE {q \in Query : n \in OnPath(q)}
Entry(q, c) == [query |-> q, count |-> c]

\* The sort order of sortCandidates.
Beats(r, s) == r.count > s.count \/ (r.count = s.count /\ r.query < s.query)

\* Sort the entries and keep the first k.
Best(entries, k) ==
    {r \in entries : Cardinality({s \in entries : Beats(s, r)}) < k}

\* The queries with a count below node n, as entries.
Stored(count, n) == {Entry(q, count[q]) : q \in {p \in Below(n) : count[p] > 0}}

===============================================================================
