------------------------------- MODULE Metrics -------------------------------
(***************************************************************************)
(* The counters of GET /suggest (internal/metrics/metrics.go, the hits and *)
(* misses of internal/cache/cache.go) against GET /metrics, which reads    *)
(* them one by one while requests go on.  Nothing is locked: each step     *)
(* below is one atomic load or add.                                        *)
(*                                                                         *)
(* The sum for the average and the sizes of the nodes are left out.        *)
(***************************************************************************)
EXTENDS Integers, SequencesExt

CONSTANTS
    Request,     \* the requests that may be in Suggest at one time
    Latency,     \* the latencies they may take, in microseconds
    Bounds,      \* the upper bounds of the buckets
    Percents,    \* the quantiles of a snapshot, in their order
    MaxRequests  \* bound of the model

ASSUME MetricsAssumption ==
    /\ IsFiniteSet(Request)
    /\ Latency \subseteq Nat
    /\ Bounds \in Seq(Nat) /\ Len(Bounds) > 0
    /\ \A i \in 1 .. Len(Bounds) - 1 : Bounds[i] < Bounds[i + 1]
    /\ Percents \in Seq(1 .. 100) /\ Len(Percents) > 0
    /\ MaxRequests \in Nat

\* A read is a cache hit, in the histogram latCached, or a miss, in latCold.
Kind == {"cached", "cold"}
Overflow == Len(Bounds) + 1
Bucket == 1 .. Overflow

VARIABLES
    tally,    \* hits and misses, by the kind of read
    count,    \* per histogram, its count
    buckets,  \* per histogram, its buckets
    request,  \* per request, where it is in Suggest
    page,     \* which part of its page the handler of /metrics reads, and
              \* what it has read
    scan,     \* where it is in the histogram of that part
    answer    \* the last quantile it has computed

counters == <<tally, count, buckets, request>>
metricsVars == <<tally, count, buckets, request, page, scan, answer>>

\* Faulty variant of Parts: the cache's statistics first.
PartsStatsFirst == <<"hits", "misses", "cached", "cold">>

\* The parts of a page, in the order in which handleMetrics reads them.
Parts == <<"cached", "cold", "hits", "misses">>

Idle == [at |-> "idle", kind |-> "cold", us |-> 0]
NoScan == [total |-> 0, q |-> 1, i |-> 0, cum |-> 0, start |-> <<>>]
NoAnswer == [kind |-> "cold", index |-> 0]

MetricsInit ==
    /\ tally = [k \in Kind |-> 0]
    /\ count = [k \in Kind |-> 0]
    /\ buckets = [k \in Kind |-> [i \in Bucket |-> 0]]
    /\ request = [r \in Request |-> Idle]
    /\ page = [part |-> Len(Parts) + 1, read |-> [p \in ToSet(Parts) |-> 0]]
    /\ scan = NoScan
    /\ answer = NoAnswer

-----------------------------------------------------------------------------
(* Suggest.                                                                *)

\* cache.Get.
Lookup(r, k) ==
    /\ request[r].at = "idle"
    /\ tally["cached"] + tally["cold"] < MaxRequests
    /\ tally' = [tally EXCEPT ![k] = @ + 1]
    /\ request' = [request EXCEPT ![r] = [at |-> "ranked", kind |-> k, us |-> 0]]
    /\ UNCHANGED <<count, buckets, page, scan, answer>>

\* Observe.
CountSample(r, us) ==
    /\ request[r].at = "ranked"
    /\ count' = [count EXCEPT ![request[r].kind] = @ + 1]
    /\ request' = [request EXCEPT ![r] = [at |-> "counted", kind |-> request[r].kind, us |-> us]]
    /\ UNCHANGED <<tally, buckets, page, scan, answer>>

BucketOf(us) == Min({i \in 1 .. Len(Bounds) : us <= Bounds[i]} \cup {Overflow})

\* Faulty variant of FillBucket: a sample above the last bound is dropped.
FillBucketBelow(r) ==
    /\ request[r].at = "counted"
    /\ LET i == BucketOf(request[r].us)
       IN  buckets' = [buckets EXCEPT ![request[r].kind][i] = IF i < Overflow THEN @ + 1 ELSE @]
    /\ request' = [request EXCEPT ![r] = Idle]
    /\ UNCHANGED <<tally, count, page, scan, answer>>

FillBucket(r) ==
    /\ request[r].at = "counted"
    /\ buckets' = [buckets EXCEPT ![request[r].kind][BucketOf(request[r].us)] = @ + 1]
    /\ request' = [request EXCEPT ![r] = Idle]
    /\ UNCHANGED <<tally, count, page, scan, answer>>

-----------------------------------------------------------------------------
(* handleMetrics.                                                          *)

Part == Parts[page.part]
Reading(parts) == page.part <= Len(Parts) /\ Part \in parts
Filling(k) == {r \in Request : request[r].at = "counted" /\ request[r].kind = k}

NextPart == page' = [page EXCEPT !.part = @ + 1]

Ask ==
    /\ page.part > Len(Parts)
    /\ page' = [page EXCEPT !.part = 1]
    /\ answer' = NoAnswer
    /\ UNCHANGED <<counters, scan>>

\* Snapshot: an empty histogram has no quantiles.
LoadCount ==
    /\ Reading(Kind)
    /\ scan.i = 0
    /\ LET total == count[Part]
           read == [page.read EXCEPT ![Part] = total]
       IN  IF total = 0
           THEN /\ page' = [part |-> page.part + 1, read |-> read]
                /\ UNCHANGED scan
           ELSE /\ page' = [part |-> page.part, read |-> read]
                /\ scan' = [NoScan EXCEPT !.total = total, !.i = 1, !.start = buckets[Part]]
    /\ UNCHANGED <<counters, answer>>

\* The end of quantile, after bucket scan.i; then the next quantile, or the
\* next part of the page.
EndQuantile ==
    /\ answer' = [kind |-> Part, index |-> scan.i, percent |-> Percents[scan.q],
                  total |-> scan.total, start |-> scan.start]
    /\ IF scan.q < Len(Percents)
       THEN /\ scan' = [scan EXCEPT !.q = @ + 1, !.i = 1, !.cum = 0, !.start = buckets[Part]]
            /\ UNCHANGED page
       ELSE NextPart /\ scan' = NoScan

\* int64(q * float64(total)) rounds down.
Target == (Percents[scan.q] * scan.total) \div 100

\* Faulty variant of LoadBucket: the loop goes on when the target is reached,
\* until it is passed.
LoadBucketPast ==
    /\ Reading(Kind)
    /\ scan.i > 0
    /\ LET cum == scan.cum + buckets[Part][scan.i]
       IN  IF cum > Target \/ scan.i = Len(Bounds)
           THEN EndQuantile
           ELSE scan' = [scan EXCEPT !.i = @ + 1, !.cum = cum] /\ UNCHANGED <<page, answer>>
    /\ UNCHANGED counters

\* quantile: one bucket of its loop.  It ends with the last bound if the
\* target is not reached.
LoadBucket ==
    /\ Reading(Kind)
    /\ scan.i > 0
    /\ LET cum == scan.cum + buckets[Part][scan.i]
       IN  IF cum >= Target \/ scan.i = Len(Bounds)
           THEN EndQuantile
           ELSE scan' = [scan EXCEPT !.i = @ + 1, !.cum = cum] /\ UNCHANGED <<page, answer>>
    /\ UNCHANGED counters

LoadTally ==
    /\ Reading({"hits", "misses"})
    /\ page' = [part |-> page.part + 1,
                read |-> [page.read EXCEPT
                            ![Part] = tally[IF Part = "hits" THEN "cached" ELSE "cold"]]]
    /\ UNCHANGED <<counters, scan, answer>>

MetricsNext ==
    \/ \E r \in Request :
         \/ \E k \in Kind : Lookup(r, k)
         \/ \E us \in Latency : CountSample(r, us)
         \/ FillBucket(r)
    \/ Ask \/ LoadCount \/ LoadBucket \/ LoadTally

MetricsSpec == MetricsInit /\ [][MetricsNext]_metricsVars

-----------------------------------------------------------------------------
(* Properties.                                                             *)

\* The samples of b in the buckets up to i.
UpTo(b, i) ==
    LET sum[n \in 0 .. Overflow] == IF n = 0 THEN 0 ELSE sum[n - 1] + b[n]
    IN  sum[i]

\* Type correctness, and no sample is lost: what is counted is in a bucket, or
\* about to be put there.
MetricsTypeOK ==
    /\ tally \in [Kind -> Nat] /\ count \in [Kind -> Nat]
    /\ buckets \in [Kind -> [Bucket -> Nat]]
    /\ \A r \in Request : request[r].at \in {"idle", "ranked", "counted"}
    /\ page.part \in 1 .. Len(Parts) + 1
    /\ scan.q \in DOMAIN Percents /\ scan.i \in 0 .. Len(Bounds)
    /\ \A k \in Kind : count[k] = UpTo(buckets[k], Overflow) + Cardinality(Filling(k))

\* A page that is read amid requests agrees with itself: it shows no more
\* latencies of hits than hits, and of cold reads than misses.
PageAgrees ==
    page.part > Len(Parts) =>
        /\ page.read["cached"] <= page.read["hits"]
        /\ page.read["cold"] <= page.read["misses"]

\* How far a quantile may be off.  The share of the samples that it should
\* cover is percent/100 of the count that Snapshot loaded.  The code rounds it
\* down to whole samples, and adds the buckets up one by one while they fill.
\* Yet the samples up to the bound that it returns fall short of the share by
\* less than one, unless that is the last bound, which also stands for what is
\* above it; and below the bucket of that bound there was less than the share
\* when quantile started.
\*
\* The missing part of a sample tells: of one slow sample every quantile is the
\* first bound, whose bucket is empty.  "quantile returns the upper bound of
\* the bucket containing the q-th percentile" (metrics.go:58) says more than
\* the code does.
QuantileWithinASample ==
    answer.index > 0 =>
        LET share == answer.percent * answer.total
        IN  /\ \/ 100 * UpTo(buckets[answer.kind], answer.index) > share - 100
               \/ answer.index = Len(Bounds)
            /\ 100 * UpTo(answer.start, answer.index - 1) < share

=============================================================================
