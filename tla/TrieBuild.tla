------------------------------ MODULE TrieBuild ------------------------------
(***************************************************************************)
(* The whole life of internal/trie/trie.go.  The bulk path, used by        *)
(* cmd/server/main.go to build the trie from the store: Insert per row, in *)
(* any order, and then Finalize, a post-order walk that merges the         *)
(* children's lists.  After it the trie serves, as Trie says.              *)
(*                                                                         *)
(* The counts are in rows until Finalize: nobody reads the trie before it. *)
(***************************************************************************)
EXTENDS Trie

VARIABLES
    rows,       \* the counts inserted, 0 where there is none
    finalized

\* The nodes on a query's path are its prefixes, the empty one left out: paths
\* that meet have come the same way.
ASSUME BuildAssumption ==
    /\ IsFiniteSet(Query)
    /\ \A q \in Query : Path[q] \in Seq(Inner) /\ Path[q] # <<>>
    /\ \A p, q \in Query : \A i \in DOMAIN Path[p], j \in DOMAIN Path[q] :
         Path[p][i] = Path[q][j] =>
             i = j /\ \A k \in 1 .. i : Path[p][k] = Path[q][k]

buildVars == <<trieVars, rows, finalized>>

BuildInit ==
    /\ rows = NoDelta
    /\ finalized = FALSE
    /\ count = NoDelta
    /\ top = [n \in Node |-> {}]
    /\ todo = NoDelta

\* One row of the store, which has one row per query.
Insert(q, c) ==
    /\ ~finalized
    /\ rows[q] = 0
    /\ rows' = [rows EXCEPT ![q] = c]
    /\ rows' \in Stores
    /\ UNCHANGED <<trieVars, finalized>>

Children(n) ==
    IF n = Root
    THEN {Path[q][1] : q \in Query}
    ELSE UNION {{Path[q][i + 1] : i \in {j \in 1 .. Len(Path[q]) - 1 : Path[q][j] = n}} :
                  q \in Query}

\* The entry of the query that ends at n, if it has a count.
Own(n) ==
    {Entry(q, rows[q]) :
        q \in {p \in Query : Path[p][Len(Path[p])] = n /\ rows[p] > 0}}

\* Faulty variant of Merge: an inner node's own query is forgotten.
MergeChildrenOnly(n, lists) ==
    IF Children(n) = {} THEN Best(Own(n), K) ELSE Best(UNION lists, K)

\* A node's list from its own query and its children's lists.
Merge(n, lists) == Best(Own(n) \cup UNION lists, K)

\* dfs: the lists of all nodes, children first.
Lists[n \in Node] == Merge(n, {Lists[c] : c \in Children(n)})

Finalize ==
    /\ ~finalized
    /\ count' = rows
    /\ top' = Lists
    /\ finalized' = TRUE
    /\ rows' = NoDelta
    /\ UNCHANGED todo

Serve ==
    /\ finalized
    /\ TrieNext
    /\ UNCHANGED <<rows, finalized>>

BuildNext ==
    \/ \E q \in Query, c \in 1 .. MaxCount : Insert(q, c)
    \/ Finalize
    \/ Serve

BuildSpec == BuildInit /\ [][BuildNext]_buildVars

-----------------------------------------------------------------------------

\* "This is correct: any query in a node's top-k is also in the top-k of the
\* child whose subtree contains it" (trie.go:59-60): merging lists of length K
\* is enough, every node, the root included, gets the best K queries of its
\* whole subtree.
FinalizeIsTopK ==
    [][finalized' /\ ~finalized =>
         \A n \in Node : top'[n] = Best(Stored(rows, n), K)]_buildVars

===============================================================================
