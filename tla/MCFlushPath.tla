---- MODULE MCFlushPath ----
(* Constants of the FlushPath runs: queries are model values. *)
EXTENDS FlushPath, TLC

CONSTANTS q1, q2

MCQuery == {q1, q2}
Symmetry == Permutations(MCQuery)

====
