---- MODULE MCSuggestPath ----
(* Constants of the SuggestPath runs: the queries a and ab; prefix a matches
   both, prefix ab the second. *)
EXTENDS SuggestPath

CONSTANTS r1, r2

MCQuery == {"qa", "qab"}
MCPrefix == {"a", "ab"}
MCUnder == "a" :> {"qa", "qab"} @@ "ab" :> {"qab"}
OneReader == {r1}
TwoReaders == {r1, r2}

====
