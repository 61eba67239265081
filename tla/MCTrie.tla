---- MODULE MCTrie ----
(* Constants of the trie run: the queries a, ab, abc, ac. *)
EXTENDS TrieBuild

MCPath == << <<"a">>, <<"a", "ab">>, <<"a", "ab", "abc">>, <<"a", "ac">> >>
MCQuery == 1 .. 4

\* Every store with counts up to 2: more queries than a list has entries, ties.
MCStores == [MCQuery -> 0 .. 2]

\* Batches of one query or two, with increments of 1 and 2.
MCDeltas ==
    {d \in [MCQuery -> 0 .. 2] : Cardinality({q \in MCQuery : d[q] > 0}) \in 1 .. 2}

====
