---- MODULE MCBatchWriter ----
(* Constants of the BatchWriter runs: queries and callers are model values. *)
EXTENDS BatchWriter

CONSTANTS q1, q2, c1, c2

MCQuery == {q1, q2}
MCCaller == {c1, c2}

====
