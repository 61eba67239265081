---- MODULE MCMetrics ----
(* Three bounds; a latency on the first, one between two of them, one above
   all.  Two quantiles: with the samples of the run, the 95th and the 99th
   percentile have one target. *)
EXTENDS Metrics

CONSTANTS r1, r2, r3

MCRequest == {r1, r2, r3}
MCLatency == {25, 30, 120}
MCBounds == <<25, 50, 100>>
MCPercents == <<50, 99>>
Symmetry == Permutations(MCRequest)

====
