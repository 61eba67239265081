---- MODULE MCSearchBox ----
(* Constants of the SearchBox runs. *)
EXTENDS SearchBox

MCText == {"j", "java"}
MCMode == {"count", "recency"}

\* No match, one, and two.
MCAnswers == {<<>>, <<"java">>, <<"java", "j">>}

====
