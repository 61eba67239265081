----------------------------- MODULE SearchLedger -----------------------------
(***************************************************************************)
(* What the write side of the server promises about searches, without the  *)
(* channel, the aggregation and the goroutines: an accepted search is      *)
(* applied later, at most once, and the server is not closed before every  *)
(* accepted search has been applied ("flushes the buffer before exiting",  *)
(* cmd/server/main.go).                                                    *)
(***************************************************************************)
EXTENDS Naturals

CONSTANT Query

VARIABLES
    accepted,   \* per query, searches taken from clients
    applied,    \* per query, searches whose effect is visible
    closed      \* the server has exited

ledger == <<accepted, applied, closed>>

Init ==
    /\ accepted = [q \in Query |-> 0]
    /\ applied = [q \in Query |-> 0]
    /\ closed = FALSE

Accept(q) ==
    /\ ~closed
    /\ accepted' = [accepted EXCEPT ![q] = @ + 1]
    /\ UNCHANGED <<applied, closed>>

\* Any number of accepted searches takes effect at once.
Apply ==
    /\ ~closed
    /\ applied' \in [Query -> Nat]
    /\ \A q \in Query : applied[q] <= applied'[q] /\ applied'[q] <= accepted[q]
    /\ UNCHANGED <<accepted, closed>>

Close ==
    /\ ~closed
    /\ applied = accepted
    /\ closed' = TRUE
    /\ UNCHANGED <<accepted, applied>>

Next == (\E q \in Query : Accept(q)) \/ Apply \/ Close

Spec == Init /\ [][Next]_ledger

===============================================================================
