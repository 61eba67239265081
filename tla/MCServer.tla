---- MODULE MCServer ----
(* Constants of the Server runs: queries and callers are model values. *)
EXTENDS Server

CONSTANTS q1, q2, c1, c2

MCQuery == {q1, q2}
MCCaller == {c1, c2}

====
