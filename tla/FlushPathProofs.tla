--------------------------- MODULE FlushPathProofs ---------------------------
(***************************************************************************)
(* The write path keeps store and queued rows together with memory, for    *)
(* any queries, loads, failures, crashes and bounds: rows carry an entry   *)
(* of the index, whatever it is.  That the index forgets only what is not  *)
(* shown rests on the arithmetic of decay.                                 *)
(***************************************************************************)
EXTENDS FlushPath, FiniteSetTheorems, FunctionTheorems, TLAPS

-----------------------------------------------------------------------------
(* The inductive invariant.                                                *)

\* Counts are numbers, and rows are functions of queries.
CountsOK ==
    /\ phase \in {"serving", "stopping", "down"}
    /\ step \in {"idle", "counting", "persisting", "done"}
    /\ buffered \in [Query -> Nat] /\ batch \in [Query -> Nat]
    /\ trie \in [Query -> Nat] /\ given \in [Query -> Nat]
    /\ loaded \subseteq Query
    /\ DOMAIN rows \subseteq Query /\ DOMAIN retry \subseteq Query
    /\ \A q \in DOMAIN retry :
         retry[q] = [count |-> retry[q].count, recent |-> retry[q].recent]
    /\ DOMAIN store = Query
    /\ \A q \in Query :
         /\ store[q] = [count |-> store[q].count, recent |-> store[q].recent]
         /\ store[q].count \in Nat
    /\ DOMAIN trend = Query /\ DOMAIN recency = Query

\* A process that is down holds nothing.
DownOK ==
    phase = "down" =>
        /\ step = "idle" /\ buffered = Zero /\ batch = Zero
        /\ trend = Untracked /\ recency = Untracked /\ trie = Zero
        /\ rows = NoRows /\ retry = NoRows

\* q is in the batch and its row is being made or written.
InBatch(q) == batch[q] > 0

\* A row that waits has the count of the trie.
RetryOK ==
    \A q \in DOMAIN retry :
        (step = "persisting" /\ InBatch(q)) \/ retry[q].count = trie[q]

\* The rows to persist: those of the batch, and those that wait.
RowsOK ==
    step = "persisting" =>
        /\ DOMAIN rows = Support(batch) \cup DOMAIN retry
        /\ \A q \in DOMAIN rows :
             IF InBatch(q) THEN rows[q] = [count |-> trie[q], recent |-> recency[q]]
                           ELSE rows[q] = retry[q]

\* No stored count is ahead of the trie, unless it was loaded meanwhile.
StoreBehind ==
    phase # "down" => \A q \in Query \ loaded : store[q].count <= trie[q]

\* What CountsQueued says between two flushes holds, during a flush, of all
\* queries that are not in its batch, and before the count of those as well.
CountsFollow ==
    phase # "down" =>
        \A q \in Query :
            \/ step = "persisting" /\ InBatch(q)
            \/ Queued(q).count = trie[q]
            \/ q \in loaded /\ Queued(q).count > trie[q]

\* The same of RecencyQueued: during a flush, what the index holds of a query
\* of the batch is what its row will have.
RecencyFollows ==
    \A q \in Query :
        trend[q].value > 0 =>
            IF step \in {"counting", "persisting"} /\ InBatch(q)
            THEN trend[q] = recency[q]
            ELSE Queued(q).recent = trend[q]

FlushInv ==
    /\ CountsOK /\ DownOK /\ RetryOK /\ RowsOK /\ StoreBehind /\ CountsFollow
    /\ NeverOvercounts

\* evict keeps an entry as it is, or drops it.
LEMMA EvictedKeeps ==
    ASSUME NEW x, DOMAIN x = Query, NEW y \in Evicted(x)
    PROVE  /\ DOMAIN y = Query
           /\ \A q \in Query : y[q] = x[q] \/ y[q] = NoState
<1>1. PICK kept \in SUBSET Query :
        y = [q \in Query |-> IF q \in kept THEN x[q] ELSE NoState]
  BY DEF Evicted, Tracked
<1> QED
  BY <1>1

LEMMA InvInit == FlushInit => FlushInv /\ RecencyFollows
<1> SUFFICES ASSUME FlushInit
             PROVE  FlushInv /\ RecencyFollows
  OBVIOUS
<1> USE DEF FlushInit, Zero, NoRows, Untracked, NoState
<1>1. CountsOK
  BY DEF CountsOK
<1>2. DownOK /\ RetryOK /\ RowsOK /\ StoreBehind /\ CountsFollow /\ NeverOvercounts
  BY DEF DownOK, RetryOK, RowsOK, StoreBehind, CountsFollow, NeverOvercounts
<1>3. RecencyFollows
  BY DEF RecencyFollows
<1> QED
  BY <1>1, <1>2, <1>3 DEF FlushInv

LEMMA SearchInv == FlushInv /\ (\E q \in Query : Search(q)) => FlushInv'
<1> SUFFICES ASSUME FlushInv, NEW p \in Query, Search(p)
             PROVE  FlushInv'
  OBVIOUS
<1> USE DEF FlushInv, Search
<1>1. CountsOK'
  BY DEF CountsOK
<1>2. DownOK' /\ RetryOK' /\ RowsOK' /\ StoreBehind' /\ CountsFollow'
  BY DEF DownOK, RetryOK, RowsOK, StoreBehind, CountsFollow, InBatch, Queued, Support
<1>3. NeverOvercounts'
  BY DEF CountsOK, NeverOvercounts
<1> QED
  BY <1>1, <1>2, <1>3

LEMMA LoadInv == FlushInv /\ (\E q \in Query : Load(q)) => FlushInv'
<1> SUFFICES ASSUME FlushInv, NEW p \in Query, Load(p)
             PROVE  FlushInv'
  OBVIOUS
<1> USE DEF FlushInv, Load, memory
<1>1. CountsOK'
  BY DEF CountsOK, Alive
<1>2. DownOK' /\ RetryOK' /\ RowsOK'
  BY DEF DownOK, RetryOK, RowsOK, InBatch, Support
<1>3. StoreBehind'
  BY DEF CountsOK, StoreBehind, Alive
<1>4. CountsFollow'
  BY DEF CountsOK, CountsFollow, InBatch, Queued, Alive, StoreBehind
<1>5. NeverOvercounts'
  BY DEF CountsOK, NeverOvercounts
<1> QED
  BY <1>1, <1>2, <1>3, <1>4, <1>5

LEMMA FlushStepInv ==
    FlushInv /\ (\E b \in [Query -> 0 .. MaxGiven] : Flush(b)) => FlushInv'
<1> SUFFICES ASSUME FlushInv, NEW b \in [Query -> 0 .. MaxGiven], Flush(b)
             PROVE  FlushInv'
  OBVIOUS
<1> USE FlushAssumption DEF FlushInv, Flush, history, Alive
<1>0. DOMAIN recency' = Query
  BY DEF Bumped
<1>1. CountsOK'
  BY <1>0, EvictedKeeps DEF CountsOK
<1>2. DownOK' /\ RetryOK' /\ RowsOK' /\ StoreBehind' /\ CountsFollow'
  BY DEF DownOK, RetryOK, RowsOK, StoreBehind, CountsFollow, InBatch, Queued
<1>3. NeverOvercounts'
  BY DEF CountsOK, NeverOvercounts
<1> QED
  BY <1>1, <1>2, <1>3

LEMMA CountBatchInv == FlushInv /\ CountBatch => FlushInv'
<1> SUFFICES ASSUME FlushInv, CountBatch
             PROVE  FlushInv'
  OBVIOUS
<1> USE DEF FlushInv, CountBatch, history, InBatch
<1>1. /\ DOMAIN rows' = Support(batch) \cup DOMAIN retry
      /\ \A q \in Support(batch) : rows'[q] = [count |-> trie'[q], recent |-> recency[q]]
      /\ \A q \in DOMAIN retry \ Support(batch) : rows'[q] = retry[q]
  BY DEF Merged
<1>2. /\ trie' \in [Query -> Nat]
      /\ \A q \in Query : trie'[q] = trie[q] + batch[q]
      /\ \A q \in Query : InBatch(q) \/ trie'[q] = trie[q]
  BY DEF CountsOK, Plus
<1>3. CountsOK'
  BY <1>1, <1>2 DEF CountsOK, Support
<1>4. DownOK' /\ RetryOK'
  BY <1>2 DEF CountsOK, DownOK, RetryOK
<1>5. RowsOK'
  BY <1>1 DEF CountsOK, RowsOK, Support
<1>6. StoreBehind'
  BY <1>2 DEF CountsOK, StoreBehind
<1>7. CountsFollow'
  BY <1>2 DEF CountsFollow, Queued
<1>8. NeverOvercounts'
  BY <1>2 DEF CountsOK, NeverOvercounts
<1> QED
  BY <1>3, <1>4, <1>5, <1>6, <1>7, <1>8

\* What a row to persist holds.
LEMMA RowsCount ==
    ASSUME FlushInv, step = "persisting", NEW q \in DOMAIN rows
    PROVE  /\ q \in Query
           /\ rows[q].count = trie[q]
           /\ rows[q].recent = IF InBatch(q) THEN recency[q] ELSE Queued(q).recent
           /\ rows[q] = [count |-> rows[q].count, recent |-> rows[q].recent]
           /\ InBatch(q) \/ q \in DOMAIN retry
<1> USE DEF FlushInv, CountsOK, RowsOK, RetryOK, InBatch, Support
<1>1. q \in Query /\ (InBatch(q) \/ q \in DOMAIN retry)
  OBVIOUS
<1>2. CASE InBatch(q)
  BY <1>1, <1>2
<1>3. CASE ~InBatch(q)
  BY <1>1, <1>3 DEF Queued
<1> QED
  BY <1>2, <1>3

\* The rows that are not written are neither of the batch nor waiting.
LEMMA OtherRows ==
    ASSUME FlushInv, step = "persisting", NEW q \in Query, q \notin DOMAIN rows
    PROVE  ~InBatch(q) /\ q \notin DOMAIN retry
  BY DEF FlushInv, RowsOK, InBatch, Support

LEMMA PersistSucceedsInv == FlushInv /\ PersistSucceeds => FlushInv'
<1> SUFFICES ASSUME FlushInv, PersistSucceeds
             PROVE  FlushInv'
  OBVIOUS
<1> USE DEF PersistSucceeds
<1>1. /\ DOMAIN store' = Query
      /\ \A q \in DOMAIN rows : store'[q] = rows[q]
      /\ \A q \in Query \ DOMAIN rows : store'[q] = store[q]
  BY RowsCount DEF Upserted
<1>2. DOMAIN retry' = {}
  BY DEF NoRows
<1>3. CountsOK'
  BY <1>1, <1>2, RowsCount DEF FlushInv, CountsOK
<1>4. DownOK' /\ RetryOK' /\ RowsOK'
  BY <1>2 DEF FlushInv, DownOK, RetryOK, RowsOK
<1>5. StoreBehind'
  BY <1>1, RowsCount DEF FlushInv, CountsOK, StoreBehind
<1>6. CountsFollow'
  BY <1>1, <1>2, RowsCount, OtherRows DEF FlushInv, CountsFollow, Queued, InBatch
<1>7. NeverOvercounts'
  BY <1>1, RowsCount DEF FlushInv, CountsOK, NeverOvercounts
<1> QED
  BY <1>3, <1>4, <1>5, <1>6, <1>7 DEF FlushInv

LEMMA PersistFailsInv == FlushInv /\ PersistFails => FlushInv'
<1> SUFFICES ASSUME FlushInv, PersistFails
             PROVE  FlushInv'
  OBVIOUS
<1> USE DEF PersistFails, ToRetry, history
<1>1. CountsOK'
  BY RowsCount DEF FlushInv, CountsOK
<1>2. DownOK' /\ RetryOK' /\ RowsOK'
  BY RowsCount DEF FlushInv, DownOK, RetryOK, RowsOK, InBatch
<1>3. StoreBehind'
  BY DEF FlushInv, StoreBehind
<1>4. CountsFollow'
  BY RowsCount, OtherRows DEF FlushInv, CountsFollow, Queued, InBatch
<1>5. NeverOvercounts'
  BY DEF FlushInv, NeverOvercounts
<1> QED
  BY <1>1, <1>2, <1>3, <1>4, <1>5 DEF FlushInv

LEMMA FlushReturnsInv == FlushInv /\ FlushReturns => FlushInv'
<1> SUFFICES ASSUME FlushInv, FlushReturns
             PROVE  FlushInv'
  OBVIOUS
<1> USE DEF FlushInv, FlushReturns, history
<1>1. CountsOK'
  BY DEF CountsOK, Zero, Untracked, NoRows
<1>2. DownOK' /\ RetryOK' /\ RowsOK' /\ StoreBehind' /\ CountsFollow'
  BY DEF DownOK, RetryOK, RowsOK, StoreBehind, CountsFollow, InBatch, Queued
<1>3. NeverOvercounts'
  BY DEF NeverOvercounts
<1> QED
  BY <1>1, <1>2, <1>3

\* Stop, Exit and Crash change the process only, and the clock nothing.
LEMMA ProcessEndsInv == FlushInv /\ (Stop \/ Exit \/ Crash) => FlushInv'
<1> SUFFICES ASSUME FlushInv, Stop \/ Exit \/ Crash
             PROVE  FlushInv'
  OBVIOUS
<1> USE DEF FlushInv, history, memory
<1>1. CASE Stop
  <2>1. CountsOK'
    BY <1>1 DEF Stop, CountsOK
  <2>2. DownOK' /\ RetryOK' /\ RowsOK' /\ StoreBehind' /\ CountsFollow' /\ NeverOvercounts'
    BY <1>1 DEF Stop, DownOK, RetryOK, RowsOK, StoreBehind, CountsFollow, NeverOvercounts,
                InBatch, Queued, Support
  <2> QED
    BY <2>1, <2>2
<1>2. CASE Exit \/ Crash
  <2>1. /\ phase' = "down" /\ Forget
        /\ UNCHANGED <<store, now, given, loaded, regressed>>
    BY <1>2 DEF Exit, Crash
  <2>2. CountsOK'
    BY <2>1 DEF CountsOK, Forget, Zero, Untracked, NoRows
  <2>3. DownOK' /\ RetryOK' /\ RowsOK' /\ StoreBehind' /\ CountsFollow'
    BY <2>1 DEF DownOK, RetryOK, RowsOK, StoreBehind, CountsFollow, Forget, NoRows,
                Zero, Untracked
  <2>4. NeverOvercounts'
    BY <2>1 DEF CountsOK, NeverOvercounts, Forget, Zero
  <2> QED
    BY <2>2, <2>3, <2>4
<1> QED
  BY <1>1, <1>2

LEMMA RestartInv == FlushInv /\ Restart => FlushInv'
<1> SUFFICES ASSUME FlushInv, Restart
             PROVE  FlushInv'
  OBVIOUS
<1> USE DEF FlushInv, Restart
<1>1. DOMAIN trend' = Query
  BY EvictedKeeps
<1>2. /\ step = "idle" /\ DOMAIN retry = {}
      /\ \A q \in Query : buffered[q] = 0
      /\ \A q \in Query : trie'[q] = store[q].count
  BY DEF DownOK, NoRows, Zero
<1>3. CountsOK'
  BY <1>1 DEF CountsOK
<1>4. DownOK' /\ RetryOK' /\ RowsOK' /\ StoreBehind' /\ CountsFollow'
  BY <1>2 DEF CountsOK, DownOK, RetryOK, RowsOK, StoreBehind, CountsFollow, Queued
<1>5. NeverOvercounts'
  BY <1>2 DEF CountsOK, NeverOvercounts
<1> QED
  BY <1>3, <1>4, <1>5

LEMMA SameInv ==
    ASSUME FlushInv, UNCHANGED <<phase, memory, store, given, loaded>>
    PROVE  FlushInv'
  BY DEF FlushInv, memory, CountsOK, DownOK, RetryOK, RowsOK, StoreBehind, CountsFollow,
         NeverOvercounts, InBatch, Queued, Support

THEOREM FlushInvHolds == FlushSpec => []FlushInv
<1>1. FlushInit => FlushInv
  BY InvInit
<1>2. FlushInv /\ [FlushNext]_flushVars => FlushInv'
  <2> SUFFICES ASSUME FlushInv, [FlushNext]_flushVars
               PROVE  FlushInv'
    OBVIOUS
  <2>1. CASE \E q \in Query : Search(q)
    BY <2>1, SearchInv
  <2>2. CASE \E q \in Query : Load(q)
    BY <2>2, LoadInv
  <2>3. CASE \E b \in [Query -> 0 .. MaxGiven] : Flush(b)
    BY <2>3, FlushStepInv
  <2>4. CASE CountBatch
    BY <2>4, CountBatchInv
  <2>5. CASE PersistSucceeds
    BY <2>5, PersistSucceedsInv
  <2>6. CASE PersistFails
    BY <2>6, PersistFailsInv
  <2>7. CASE FlushReturns
    BY <2>7, FlushReturnsInv
  <2>8. CASE Stop \/ Exit \/ Crash
    BY <2>8, ProcessEndsInv
  <2>9. CASE Restart
    BY <2>9, RestartInv
  <2>10. CASE \E t \in 0 .. MaxTime : Clock(t)
    BY <2>10, SameInv DEF Clock
  <2>11. CASE UNCHANGED flushVars
    BY <2>11, SameInv DEF flushVars, history
  <2> QED
    BY <2>1, <2>2, <2>3, <2>4, <2>5, <2>6, <2>7, <2>8, <2>9, <2>10, <2>11 DEF FlushNext
<1> QED
  BY <1>1, <1>2, PTL DEF FlushSpec

-----------------------------------------------------------------------------
(* Recency.                                                                *)

LEMMA FlushRecency ==
    FlushInv /\ RecencyFollows /\ (\E b \in [Query -> 0 .. MaxGiven] : Flush(b))
      => RecencyFollows'
<1> SUFFICES ASSUME FlushInv, RecencyFollows,
                    NEW b \in [Query -> 0 .. MaxGiven], Flush(b), NEW q \in Query,
                    trend'[q].value > 0
             PROVE  IF b[q] > 0 THEN trend'[q] = recency'[q]
                                ELSE Queued(q).recent = trend'[q]
  BY DEF RecencyFollows, Flush, InBatch, Queued
<1>1. DOMAIN recency' = Query /\ (b[q] > 0 \/ recency'[q] = trend[q])
  BY DEF Flush, Bumped
<1>2. trend'[q] = recency'[q]
  BY <1>1, EvictedKeeps DEF Flush, NoState
<1>3. b[q] > 0 \/ trend[q].value > 0
  BY <1>1, <1>2
<1> QED
  BY <1>1, <1>2, <1>3 DEF RecencyFollows, Flush

LEMMA PersistRecency ==
    FlushInv /\ RecencyFollows /\ (PersistSucceeds \/ PersistFails) => RecencyFollows'
<1> SUFFICES ASSUME FlushInv, RecencyFollows, PersistSucceeds \/ PersistFails,
                    NEW q \in Query, trend'[q].value > 0
             PROVE  Queued(q)'.recent = trend'[q]
  BY DEF RecencyFollows, PersistSucceeds, PersistFails
<1>1. /\ step = "persisting" /\ UNCHANGED <<trend, recency, batch>>
      /\ Queued(q)' = IF q \in DOMAIN rows THEN rows[q] ELSE store[q]
  BY OtherRows DEF PersistSucceeds, PersistFails, Upserted, ToRetry, Queued, NoRows
<1>2. CASE q \in DOMAIN rows
  BY <1>1, <1>2, RowsCount DEF RecencyFollows
<1>3. CASE q \notin DOMAIN rows
  BY <1>1, <1>3, OtherRows DEF RecencyFollows, Queued
<1> QED
  BY <1>2, <1>3

LEMMA RecencyStep ==
    ASSUME FlushInv, RecencyFollows, [FlushNext]_flushVars
    PROVE  RecencyFollows'
<1>1. CASE \E q \in Query : Search(q)
  BY <1>1 DEF Search, RecencyFollows, InBatch, Queued
<1>2. CASE \E q \in Query : Load(q)
  <2>1. /\ \A q \in Query : store'[q].recent = store[q].recent
        /\ UNCHANGED memory
    BY <1>2 DEF Load, FlushInv, CountsOK
  <2> QED
    BY <2>1 DEF memory, RecencyFollows, InBatch, Queued
<1>3. CASE \E b \in [Query -> 0 .. MaxGiven] : Flush(b)
  BY <1>3, FlushRecency
<1>4. CASE CountBatch
  BY <1>4 DEF CountBatch, RecencyFollows, InBatch, Queued
<1>5. CASE PersistSucceeds \/ PersistFails
  BY <1>5, PersistRecency
<1>6. CASE FlushReturns
  BY <1>6 DEF FlushReturns, RecencyFollows, InBatch, Queued
<1>7. CASE Exit \/ Crash
  BY <1>7 DEF Exit, Crash, Forget, RecencyFollows, Untracked, NoState
<1>8. CASE Restart
  <2> SUFFICES ASSUME NEW q \in Query, trend'[q].value > 0
               PROVE  step' = "idle" /\ Queued(q)'.recent = trend'[q]
    BY DEF RecencyFollows
  <2>1. trend'[q] = store[q].recent
    BY <1>8, EvictedKeeps DEF Restart, NoState
  <2> QED
    BY <1>8, <2>1 DEF Restart, FlushInv, DownOK, NoRows, Queued
<1>9. CASE Stop \/ (\E t \in 0 .. MaxTime : Clock(t)) \/ UNCHANGED flushVars
  BY <1>9 DEF Stop, Clock, flushVars, memory, RecencyFollows, InBatch, Queued
<1> QED
  BY <1>1, <1>2, <1>3, <1>4, <1>5, <1>6, <1>7, <1>8, <1>9 DEF FlushNext

LEMMA RecencyInvHolds == FlushSpec => []RecencyFollows
  BY InvInit, FlushInvHolds, RecencyStep, PTL DEF FlushSpec

-----------------------------------------------------------------------------
(* Arithmetic of decay.  That the powers of two multiply is proved by      *)
(* counting the subsets of an interval.                                    *)

LEMMA PowerIsNat ==
    ASSUME NEW n \in Nat
    PROVE  2^n \in Nat /\ 2^n # 0
<1>1. IsFiniteSet(1 .. n) /\ Cardinality(1 .. n) = n
  <2>1. n - 1 + 1 = n /\ 1 \in Int /\ n \in Int
    OBVIOUS
  <2> QED
    BY <2>1, FS_Interval
<1>2. Cardinality(SUBSET (1 .. n)) = 2^n /\ IsFiniteSet(SUBSET (1 .. n))
  BY <1>1, FS_SUBSET
<1>3. SUBSET (1 .. n) # {}
  OBVIOUS
<1>4. Cardinality(SUBSET (1 .. n)) \in Nat /\ Cardinality(SUBSET (1 .. n)) # 0
  BY <1>2, <1>3, FS_CardinalityType, FS_EmptySet
<1> QED
  BY <1>2, <1>4

LEMMA SubsetsOfUnion ==
    ASSUME NEW A, IsFiniteSet(A), NEW B, IsFiniteSet(B), A \cap B = {}
    PROVE  Cardinality(SUBSET (A \cup B)) = Cardinality(SUBSET A) * Cardinality(SUBSET B)
<1> DEFINE P == (SUBSET A) \X (SUBSET B)
           U == SUBSET (A \cup B)
           f == [p \in P |-> p[1] \cup p[2]]
<1>1. f \in [P -> U]
  OBVIOUS
<1>2. ASSUME NEW p \in P, NEW q \in P, f[p] = f[q] PROVE p = q
  <2>1. /\ p[1] \subseteq A /\ p[2] \subseteq B /\ q[1] \subseteq A /\ q[2] \subseteq B
        /\ p = <<p[1], p[2]>> /\ q = <<q[1], q[2]>>
        /\ p[1] \cup p[2] = q[1] \cup q[2]
    BY <1>2
  <2>2. p[1] = q[1] /\ p[2] = q[2]
    BY <2>1
  <2> QED
    BY <2>1, <2>2
<1>3. ASSUME NEW u \in U PROVE \E p \in P : f[p] = u
  <2>1. <<u \cap A, u \cap B>> \in P /\ (u \cap A) \cup (u \cap B) = u
    OBVIOUS
  <2> QED
    BY <2>1
<1>4. IsFiniteSet(P) /\ Cardinality(P) = Cardinality(SUBSET A) * Cardinality(SUBSET B)
  BY FS_SUBSET, FS_Product
<1> HIDE DEF f, P, U
<1>5. ExistsBijection(P, U)
  BY <1>1, <1>2, <1>3, Fun_IsBij DEF ExistsBijection
<1>6. Cardinality(U) = Cardinality(P)
  BY <1>4, <1>5, FS_Bijection
<1> QED
  BY <1>4, <1>6 DEF U

LEMMA PowerOfSum ==
    ASSUME NEW m \in Nat, NEW n \in Nat
    PROVE  2^(m + n) = 2^m * 2^n
<1> DEFINE A == 1 .. m
           B == m + 1 .. m + n
           C == 1 .. m + n
<1>1. IsFiniteSet(A) /\ Cardinality(A) = m
  <2>1. 1 \in Int /\ m \in Int /\ (IF 1 > m THEN 0 ELSE m - 1 + 1) = m
    OBVIOUS
  <2> QED
    BY <2>1, FS_Interval
<1>2. IsFiniteSet(B) /\ Cardinality(B) = n
  <2>1. /\ m + 1 \in Int /\ m + n \in Int
        /\ (IF m + 1 > m + n THEN 0 ELSE (m + n) - (m + 1) + 1) = n
    OBVIOUS
  <2> QED
    BY <2>1, FS_Interval
<1>3. IsFiniteSet(C) /\ Cardinality(C) = m + n
  <2>1. /\ 1 \in Int /\ m + n \in Int
        /\ (IF 1 > m + n THEN 0 ELSE (m + n) - 1 + 1) = m + n
    OBVIOUS
  <2> QED
    BY <2>1, FS_Interval
<1>4. A \cap B = {} /\ A \cup B = C
  OBVIOUS
<1> HIDE DEF A, B, C
<1>5. /\ Cardinality(SUBSET A) = 2^m /\ Cardinality(SUBSET B) = 2^n
      /\ Cardinality(SUBSET C) = 2^(m + n)
  BY <1>1, <1>2, <1>3, FS_SUBSET
<1>6. Cardinality(SUBSET (A \cup B)) = Cardinality(SUBSET A) * Cardinality(SUBSET B)
  BY <1>1, <1>2, <1>4, SubsetsOfUnion
<1> QED
  BY <1>4, <1>5, <1>6

LEMMA Quotient ==
    ASSUME NEW v \in Nat, NEW p \in Nat, p # 0
    PROVE  /\ v \div p \in Nat
           /\ (v \div p) * p <= v /\ v < (v \div p + 1) * p
           /\ \A m \in Nat : m * p <= v => m <= v \div p
<1> DEFINE q == v \div p
           r == v % p
<1>1. q \in Int /\ r \in 0 .. p - 1 /\ v = q * p + r
  OBVIOUS
<1> HIDE DEF q, r
<1>2. q \in Nat
  <2> SUFFICES ASSUME q < 0 PROVE FALSE
    BY <1>1
  <2>1. (q + 1) * p <= 0
    BY <1>1
  <2>2. (q + 1) * p = q * p + p
    BY <1>1
  <2> QED
    BY <1>1, <2>1, <2>2
<1>3. (q + 1) * p = q * p + p /\ q * p \in Nat
  BY <1>1, <1>2
<1>4. q * p <= v /\ v < (q + 1) * p
  BY <1>1, <1>3
<1>5. ASSUME NEW m \in Nat, m * p <= v, ~(m <= q) PROVE FALSE
  <2>1. q + 1 <= m
    BY <1>2, <1>5
  <2>2. (q + 1) * p <= m * p
    BY <1>2, <2>1
  <2> QED
    BY <1>3, <1>4, <1>5, <2>2
<1> QED
  BY <1>2, <1>4, <1>5 DEF q

LEMMA EffectiveIsNat ==
    ASSUME NEW s \in State, NEW t \in Nat
    PROVE  Effective(s, t) \in Nat /\ Effective(s, t) <= s.value
<1> DEFINE age == IF t > s.ts THEN t - s.ts ELSE 0
           p == 2^age
           v == s.value
<1>1. v \in Nat /\ age \in Nat /\ p \in Nat /\ p # 0
  <2>1. age \in Nat /\ v \in Nat
    BY DEF State
  <2> HIDE DEF age
  <2> QED
    BY <2>1, PowerIsNat
<1> HIDE DEF p, v
<1>2. v \div p \in Nat /\ (v \div p) * p <= v
  BY <1>1, Quotient
<1>3. v \div p <= (v \div p) * p
  <2> DEFINE q == v \div p
  <2> HIDE DEF q
  <2> SUFFICES q <= q * p
    BY DEF q
  <2>1. q \in Nat
    BY <1>2 DEF q
  <2> QED
    BY <1>1, <2>1
<1>4. v \div p <= v
  <2> DEFINE q == v \div p
             w == q * p
  <2>1. q \in Nat /\ w \in Nat /\ q <= w /\ w <= v
    BY <1>1, <1>2, <1>3
  <2> HIDE DEF q, w
  <2>2. q <= v
    BY <1>1, <2>1
  <2> QED
    BY <2>2 DEF q
<1> QED
  BY <1>2, <1>4 DEF Effective, v, p

LEMMA EffectiveIs ==
    ASSUME NEW s \in State, NEW t \in Nat, s.ts <= t
    PROVE  /\ Effective(s, t) = s.value \div 2^(t - s.ts)
           /\ 2^(t - s.ts) \in Nat /\ 2^(t - s.ts) # 0
           /\ 2^s.ts \in Nat /\ 2^s.ts # 0 /\ 2^t \in Nat
           /\ 2^t = 2^(t - s.ts) * 2^s.ts
           /\ s.value \in Nat
<1>1. t - s.ts \in Nat /\ s.ts \in Nat /\ s.value \in Nat /\ (t - s.ts) + s.ts = t
  BY DEF State
<1>2. (IF t > s.ts THEN t - s.ts ELSE 0) = t - s.ts
  BY <1>1
<1>3. 2^((t - s.ts) + s.ts) = 2^(t - s.ts) * 2^s.ts
  BY <1>1, PowerOfSum
<1> QED
  BY <1>1, <1>2, <1>3, PowerIsNat DEF Effective

LEMMA Scaled ==
    ASSUME NEW a \in Nat, NEW b \in Nat, NEW c \in Nat, a <= b
    PROVE  a * c <= b * c
<1>1. PICK d \in Nat : b = a + d
  <2>1. b - a \in Nat /\ b = a + (b - a)
    OBVIOUS
  <2> QED
    BY <2>1
<1>2. b * c = a * c + d * c /\ d * c \in Nat /\ a * c \in Nat
  BY <1>1
<1> QED
  BY <1>2

LEMMA KeyOrdersEffective ==
    ASSUME NEW a \in State, NEW b \in State, NEW t \in Nat,
           a.ts <= t, b.ts <= t, Key(a) <= Key(b)
    PROVE  Effective(a, t) <= Effective(b, t)
<1> DEFINE u == a.value
           v == b.value
           p == 2^(t - a.ts)
           q == 2^(t - b.ts)
           x == 2^a.ts
           y == 2^b.ts
           m == u \div p
<1>1. /\ Effective(a, t) = m /\ Effective(b, t) = v \div q
      /\ u \in Nat /\ v \in Nat /\ p \in Nat /\ q \in Nat /\ x \in Nat /\ y \in Nat
      /\ p # 0 /\ q # 0 /\ x # 0 /\ y # 0 /\ p * x = q * y
  BY EffectiveIs
<1>2. u * x <= v * y
  BY DEF Key
<1> HIDE DEF p, q, x, y, u, v
<1>3. m \in Nat /\ m * p <= u
  BY <1>1, Quotient
<1>4. \A k \in Nat : k * q <= v => k <= v \div q
  BY <1>1, Quotient
<1> HIDE DEF m
<1>5. (m * p) * x <= u * x
  <2>1. m * p \in Nat
    BY <1>1, <1>3
  <2> QED
    BY <1>1, <1>3, <2>1, Scaled
<1>6. (m * p) * x = (m * q) * y
  <2>1. (m * p) * x = m * (p * x) /\ (m * q) * y = m * (q * y)
    BY <1>1, <1>3
  <2> QED
    BY <1>1, <2>1
<1>7. (m * q) * y <= v * y
  <2> DEFINE e == (m * q) * y
             f == u * x
             g == v * y
  <2>1. e \in Nat /\ f \in Nat /\ g \in Nat /\ e <= f /\ f <= g
    BY <1>1, <1>2, <1>3, <1>5, <1>6
  <2> HIDE DEF e, f, g
  <2>2. e <= g
    BY <2>1
  <2> QED
    BY <2>2 DEF e, g
<1>8. m * q <= v
  <2> DEFINE k == m * q
  <2>1. k \in Nat /\ k * y <= v * y
    BY <1>1, <1>3, <1>7
  <2> HIDE DEF k
  <2> SUFFICES ASSUME v + 1 <= k PROVE FALSE
    BY <1>1, <2>1 DEF k
  <2>2. (v + 1) * y <= k * y
    BY <1>1, <2>1, Scaled
  <2>3. (v + 1) * y = v * y + y /\ v * y \in Nat /\ k * y \in Nat
    BY <1>1, <2>1
  <2> QED
    BY <1>1, <2>1, <2>2, <2>3
<1> QED
  BY <1>1, <1>3, <1>4, <1>8

LEMMA BumpRaises ==
    ASSUME NEW s \in State, NEW t \in Nat, NEW d \in Nat, d # 0
    PROVE  /\ Bump(s, d, t) \in State /\ Bump(s, d, t).value > 0
           /\ Bump(s, d, t).ts = t
           /\ s.ts <= t => Key(s) <= Key(Bump(s, d, t))
<1> DEFINE add == d * Unit
           e == Effective(s, t)
<1>1. add \in Nat /\ add >= 1 /\ e \in Nat
  <2>1. Unit \in Nat /\ Unit # 0
    BY TrendingAssumption
  <2>2. d * Unit \in Nat /\ d * Unit # 0
    BY <2>1
  <2> QED
    BY <2>2, EffectiveIsNat
<1>2. Bump(s, d, t) = [value |-> e + add, ts |-> t]
  BY DEF Bump
<1>3. ASSUME s.ts <= t PROVE Key(s) <= Key(Bump(s, d, t))
  <2> DEFINE v == s.value
             p == 2^(t - s.ts)
             x == 2^s.ts
             q == v \div p
  <2>1. /\ e = q /\ v \in Nat /\ p \in Nat /\ p # 0 /\ x \in Nat /\ 2^t = p * x
    BY <1>3, EffectiveIs
  <2>2. Key(Bump(s, d, t)) = (q + add) * (p * x) /\ Key(s) = v * x
    BY <1>2, <2>1 DEF Key
  <2> HIDE DEF e, v, p, x, add
  <2>3. q \in Nat /\ v < (q + 1) * p
    BY <2>1, Quotient
  <2> HIDE DEF q
  <2>4. v * x <= ((q + 1) * p) * x
    <3> DEFINE w == (q + 1) * p
    <3>1. w \in Nat /\ v <= w
      BY <2>1, <2>3
    <3> HIDE DEF w
    <3>2. v * x <= w * x
      BY <2>1, <3>1, Scaled
    <3> QED
      BY <3>2 DEF w
  <2>5. ((q + 1) * p) * x = (q + 1) * (p * x)
    BY <2>1, <2>3
  <2>6. (q + 1) * (p * x) <= (q + add) * (p * x)
    <3> DEFINE w == p * x
    <3>1. w \in Nat /\ q + 1 \in Nat /\ q + add \in Nat /\ q + 1 <= q + add
      BY <1>1, <2>1, <2>3
    <3> HIDE DEF w
    <3>2. (q + 1) * w <= (q + add) * w
      BY <3>1, Scaled
    <3> QED
      BY <3>2 DEF w
  <2> DEFINE l == v * x
             m == (q + 1) * (p * x)
             n == (q + add) * (p * x)
  <2>7. l <= m /\ m <= n /\ l \in Nat /\ m \in Nat /\ n \in Nat
    BY <1>1, <2>1, <2>3, <2>4, <2>5, <2>6
  <2> HIDE DEF l, m, n
  <2>8. l <= n
    BY <2>7
  <2> QED
    BY <2>2, <2>8 DEF l, n
<1> HIDE DEF add, e
<1>4. /\ Bump(s, d, t).value = e + add /\ Bump(s, d, t).ts = t
      /\ Bump(s, d, t) \in State
  BY <1>1, <1>2 DEF State
<1>5. e + add > 0
  BY <1>1
<1> QED
  BY <1>3, <1>4, <1>5

LEMMA KeyIsNat ==
    ASSUME NEW s \in State
    PROVE  Key(s) \in Nat
<1>1. s.value \in Nat /\ s.ts \in Nat
  BY DEF State
<1>2. 2^s.ts \in Nat
  BY <1>1, PowerIsNat
<1> QED
  BY <1>1, <1>2 DEF Key

LEMMA UntrackedProperties ==
    /\ Untracked \in [Query -> State] /\ Zero \in [Query -> Nat]
    /\ Tracked(Untracked) = {}
    /\ Cardinality(Tracked(Untracked)) <= TrendCap
<1>1. Tracked(Untracked) = {}
  BY DEF Tracked, Untracked, NoState
<1>2. Cardinality(Tracked(Untracked)) <= TrendCap
  BY <1>1, FS_EmptySet, TrendingAssumption
<1> QED
  BY <1>1, <1>2 DEF Untracked, NoState, State, Zero

-----------------------------------------------------------------------------
(* Types.                                                                  *)

LEMMA EvictedProperties ==
    ASSUME NEW x \in [Query -> State], NEW y \in Evicted(x)
    PROVE  /\ y \in [Query -> State]
           /\ Tracked(y) \subseteq Tracked(x)
           /\ \A q \in Tracked(y) : y[q] = x[q]
           /\ IsFiniteSet(Tracked(y)) /\ Cardinality(Tracked(y)) <= TrendCap
           /\ \A r \in Tracked(x) \ Tracked(y) :
                /\ Cardinality(Tracked(y)) = TrendCap
                /\ \A q \in Tracked(y) : Key(x[r]) <= Key(x[q])
<1>1. PICK kept \in SUBSET Tracked(x) :
        /\ y = [q \in Query |-> IF q \in kept THEN x[q] ELSE NoState]
        /\ \/ kept = Tracked(x) /\ Cardinality(kept) <= TrendCap
           \/ /\ Cardinality(kept) = TrendCap
              /\ \A q \in kept, r \in Tracked(x) \ kept : Key(x[r]) <= Key(x[q])
  BY DEF Evicted
<1>2. y \in [Query -> State]
  BY <1>1 DEF State, NoState
<1>3. Tracked(y) = kept
  BY <1>1 DEF Tracked, NoState, State
<1>4. IsFiniteSet(kept) /\ TrendCap \in Nat
  BY TrendingAssumption, FS_Subset DEF Tracked
<1>5. \A q \in kept : y[q] = x[q]
  BY <1>1 DEF Tracked
<1>6. Cardinality(kept) <= TrendCap
  BY <1>1, <1>4
<1> QED
  BY <1>1, <1>2, <1>3, <1>4, <1>5, <1>6

LEMMA BumpedProperties ==
    ASSUME NEW x \in [Query -> State], NEW b \in [Query -> Nat], NEW t \in Nat
    PROVE  /\ Bumped(x, b, t) \in [Query -> State]
           /\ Tracked(x) \subseteq Tracked(Bumped(x, b, t))
           /\ \A q \in Query : b[q] = 0 => Bumped(x, b, t)[q] = x[q]
           /\ \A q \in Query : b[q] > 0 =>
                q \in Tracked(Bumped(x, b, t)) /\ Bumped(x, b, t)[q].ts = t
           /\ \A q \in Query : x[q].ts <= t => Key(x[q]) <= Key(Bumped(x, b, t)[q])
<1> DEFINE y == Bumped(x, b, t)
<1>1. \A q \in Query : y[q] = IF b[q] > 0 THEN Bump(x[q], b[q], t) ELSE x[q]
  BY DEF Bumped
<1>2. DOMAIN y = Query /\ y = [q \in Query |-> y[q]]
  BY DEF Bumped
<1> HIDE DEF y
<1>3. ASSUME NEW q \in Query, b[q] > 0
      PROVE  /\ y[q] \in State /\ y[q].value > 0 /\ y[q].ts = t
             /\ x[q].ts <= t => Key(x[q]) <= Key(y[q])
  BY <1>1, <1>3, BumpRaises
<1>4. ASSUME NEW q \in Query, b[q] = 0
      PROVE  y[q] = x[q] /\ y[q] \in State /\ Key(x[q]) <= Key(y[q])
  <2>1. y[q] = x[q] /\ x[q] \in State
    BY <1>1, <1>4
  <2>2. Key(x[q]) \in Nat
    BY <2>1, KeyIsNat
  <2> QED
    BY <2>1, <2>2
<1>5. \A q \in Query : b[q] > 0 \/ b[q] = 0
  OBVIOUS
<1>6. y \in [Query -> State]
  BY <1>2, <1>3, <1>4, <1>5
<1>7. Tracked(x) \subseteq Tracked(y)
  BY <1>3, <1>4, <1>5 DEF Tracked
<1> QED
  BY <1>3, <1>4, <1>5, <1>6, <1>7 DEF y, Tracked

LEMMA FlushTypeStep == FlushTypeOK /\ [FlushNext]_flushVars => FlushTypeOK'
<1> SUFFICES ASSUME FlushTypeOK, [FlushNext]_flushVars
             PROVE  FlushTypeOK'
  OBVIOUS
<1> USE DEF FlushTypeOK
<1>1. CASE \E q \in Query : Search(q)
  BY <1>1 DEF Search
<1>2. CASE \E q \in Query : Load(q)
  <2>1. PICK q \in Query : Load(q)
    BY <1>2
  <2>2. store' \in [Query -> Row]
    BY <2>1 DEF Load, Row
  <2> QED
    BY <2>1, <2>2 DEF Load, memory
<1>3. ASSUME NEW b \in [Query -> 0 .. MaxGiven], Flush(b) PROVE FlushTypeOK'
  <2>1. b \in [Query -> Nat] /\ \A q \in Query : buffered[q] - b[q] \in Nat
    BY <1>3, FlushAssumption DEF Flush
  <2>2. recency' \in [Query -> State] /\ trend' \in Evicted(recency')
    BY <1>3, <2>1, BumpedProperties DEF Flush
  <2>3. trend' \in [Query -> State] /\ Cardinality(Tracked(trend')) <= TrendCap
    BY <2>2, EvictedProperties
  <2>4. buffered' \in [Query -> Nat] /\ batch' = b /\ step' = "counting"
    BY <1>3, <2>1 DEF Flush
  <2>5. UNCHANGED <<phase, trie, rows, retry, store, now, given, loaded, regressed>>
    BY <1>3 DEF Flush, history
  <2> QED
    BY <2>1, <2>2, <2>3, <2>4, <2>5 DEF Tracked
<1>4. CASE CountBatch
  <2>1. trie' \in [Query -> Nat]
    BY <1>4 DEF CountBatch, Plus
  <2>2. DOMAIN rows' \subseteq Query /\ \A q \in DOMAIN rows' : rows'[q] \in Row
    BY <1>4, <2>1 DEF CountBatch, Merged, Row, Support
  <2> QED
    BY <1>4, <2>1, <2>2 DEF CountBatch, history, Tracked
<1>5. CASE PersistSucceeds
  <2>1. store' \in [Query -> Row]
    BY <1>5 DEF PersistSucceeds, Upserted
  <2> QED
    BY <1>5, <2>1 DEF PersistSucceeds, NoRows, Tracked
<1>6. CASE PersistFails
  BY <1>6 DEF PersistFails, ToRetry, history, Tracked
<1>7. CASE FlushReturns
  <2>1. recency' \in [Query -> State] /\ batch' \in [Query -> Nat]
    BY <1>7 DEF FlushReturns, Untracked, NoState, State, Zero
  <2> QED
    BY <1>7, <2>1 DEF FlushReturns, NoRows, history, Tracked
<1>8. CASE Exit \/ Crash
  <2>1. /\ trend' = Untracked /\ recency' = Untracked /\ trie' = Zero /\ buffered' = Zero
        /\ batch' = Zero /\ rows' = NoRows /\ retry' = NoRows /\ step' = "idle"
        /\ phase' = "down" /\ UNCHANGED <<store, now, given, loaded, regressed>>
    BY <1>8 DEF Exit, Crash, Forget, history
  <2>2. /\ Untracked \in [Query -> State] /\ Zero \in [Query -> Nat]
        /\ Cardinality(Tracked(Untracked)) <= TrendCap
    BY UntrackedProperties
  <2> QED
    BY <2>1, <2>2 DEF NoRows, Tracked
<1>9. CASE Restart
  <2>1. [q \in Query |-> store[q].recent] \in [Query -> State]
    BY DEF Row
  <2>2. trend' \in [Query -> State] /\ Cardinality(Tracked(trend')) <= TrendCap
    BY <1>9, <2>1, EvictedProperties DEF Restart
  <2>3. trie' \in [Query -> Nat]
    BY <1>9 DEF Restart, Row
  <2> QED
    BY <1>9, <2>2, <2>3 DEF Restart, Tracked
<1>10. CASE Stop
  BY <1>10 DEF Stop, memory, history, Tracked
<1>11. CASE \E t \in 0 .. MaxTime : Clock(t)
  BY <1>11, FlushAssumption DEF Clock, memory, Tracked
<1>12. CASE UNCHANGED flushVars
  BY <1>12 DEF flushVars, memory, history, Tracked
<1> QED
  BY <1>1, <1>2, <1>3, <1>4, <1>5, <1>6, <1>7, <1>8, <1>9, <1>10, <1>11, <1>12 DEF FlushNext

LEMMA FlushTypeInit == FlushInit => FlushTypeOK
<1> SUFFICES ASSUME FlushInit PROVE FlushTypeOK
  OBVIOUS
<1>1. /\ Untracked \in [Query -> State] /\ Zero \in [Query -> Nat]
      /\ Cardinality(Tracked(Untracked)) <= TrendCap
  BY UntrackedProperties
<1>2. store \in [Query -> Row]
  BY DEF FlushInit, Row, State, NoState
<1> QED
  BY <1>1, <1>2 DEF FlushInit, FlushTypeOK, NoRows

\* The write path's state is well typed, and the index never larger than its
\* capacity, for any queries and any decay.
THEOREM FlushTypeCorrect == FlushSpec => []FlushTypeOK
  BY FlushTypeInit, FlushTypeStep, PTL DEF FlushSpec

-----------------------------------------------------------------------------
(* What the index forgets.                                                 *)

\* The recency that the row of q has, or will have after the flush.
RowOf(q) ==
    IF step \in {"counting", "persisting"} /\ InBatch(q) THEN recency[q]
                                                         ELSE Queued(q).recent

\* No time stamp is ahead of a clock that never stepped back.
Stamped ==
    ~regressed =>
        \A q \in Query :
            /\ trend[q].ts <= now /\ recency[q].ts <= now /\ store[q].recent.ts <= now
            /\ q \in DOMAIN retry => retry[q].recent.ts <= now
            /\ q \in DOMAIN rows => rows[q].recent.ts <= now

\* What the index forgot has a row, or will have one, of no larger key than
\* anything it tracks; and it forgets only when it is full.
ForgottenIsOlder ==
    phase # "down" /\ ~regressed =>
        \A r \in Query \ Tracked(trend) :
            RowOf(r).value > 0 =>
                /\ Cardinality(Tracked(trend)) = TrendCap
                /\ \A q \in Tracked(trend) : Key(RowOf(r)) <= Key(trend[q])

AgeInv == FlushTypeOK /\ FlushInv /\ RecencyFollows /\ Stamped /\ ForgottenIsOlder

LEMMA StampedStep == FlushTypeOK /\ Stamped /\ [FlushNext]_flushVars => Stamped'
<1> SUFFICES ASSUME FlushTypeOK, Stamped, [FlushNext]_flushVars, ~regressed'
             PROVE  \A q \in Query :
                      /\ trend'[q].ts <= now' /\ recency'[q].ts <= now'
                      /\ store'[q].recent.ts <= now'
                      /\ q \in DOMAIN retry' => retry'[q].recent.ts <= now'
                      /\ q \in DOMAIN rows' => rows'[q].recent.ts <= now'
  BY DEF Stamped
<1>0. now \in Nat /\ NoState.ts = 0 /\ Untracked \in [Query -> State]
  BY UntrackedProperties DEF FlushTypeOK, NoState
<1>1. CASE \E q \in Query : Search(q)
  BY <1>1 DEF Search, Stamped
<1>2. CASE \E q \in Query : Load(q)
  <2>1. \A q \in Query : store'[q].recent = store[q].recent
    BY <1>2 DEF Load, FlushTypeOK, Row
  <2> QED
    BY <1>2, <2>1 DEF Load, memory, Stamped
<1>3. ASSUME NEW b \in [Query -> 0 .. MaxGiven], Flush(b)
      PROVE  \A q \in Query : trend'[q].ts <= now /\ recency'[q].ts <= now
  <2>1. b \in [Query -> Nat] /\ trend \in [Query -> State] /\ ~regressed
    BY <1>3, FlushAssumption DEF FlushTypeOK, Flush, history
  <2>2. recency' \in [Query -> State] /\ trend' \in Evicted(recency')
    BY <1>0, <1>3, <2>1, BumpedProperties DEF Flush
  <2>3. \A q \in Query : recency'[q].ts <= now
    <3> SUFFICES ASSUME NEW q \in Query PROVE recency'[q].ts <= now
      OBVIOUS
    <3>1. CASE b[q] = 0
      BY <1>0, <1>3, <2>1, <3>1, BumpedProperties DEF Flush, Stamped
    <3>2. CASE b[q] > 0
      BY <1>0, <1>3, <2>1, <3>2, BumpedProperties DEF Flush
    <3> QED
      BY <2>1, <3>1, <3>2
  <2>4. \A q \in Query : trend'[q] = recency'[q] \/ trend'[q] = NoState
    BY <2>2, EvictedKeeps
  <2> QED
    BY <1>0, <2>3, <2>4
<1>4. CASE \E b \in [Query -> 0 .. MaxGiven] : Flush(b)
  BY <1>3, <1>4 DEF Flush, history, Stamped
<1>5. CASE CountBatch
  <2>1. \A q \in DOMAIN rows' :
          rows'[q].recent = recency[q] \/ (q \in DOMAIN retry /\ rows'[q] = retry[q])
    BY <1>5 DEF CountBatch, Merged
  <2> QED
    BY <1>5, <2>1 DEF CountBatch, history, Stamped
<1>6. CASE PersistSucceeds
  BY <1>6 DEF PersistSucceeds, Upserted, NoRows, Stamped
<1>7. CASE PersistFails
  BY <1>7 DEF PersistFails, ToRetry, history, Stamped
<1>8. CASE FlushReturns
  BY <1>0, <1>8 DEF FlushReturns, history, NoRows, Untracked, Stamped
<1>9. CASE Exit \/ Crash
  BY <1>0, <1>9 DEF Exit, Crash, Forget, history, NoRows, Untracked, Stamped
<1>10. CASE Restart
  <2>1. \A q \in Query : trend'[q] = store[q].recent \/ trend'[q] = NoState
    BY <1>10, EvictedKeeps DEF Restart
  <2> QED
    BY <1>0, <1>10, <2>1 DEF Restart, Stamped
<1>11. CASE \E t \in 0 .. MaxTime : Clock(t)
  <2>0. PICK t \in 0 .. MaxTime : Clock(t)
    BY <1>11
  <2>1. /\ now' \in Nat /\ now <= now' /\ ~regressed
        /\ UNCHANGED <<trend, recency, store, retry, rows>>
    <3>1. t \in Nat /\ now' = t /\ UNCHANGED <<trend, recency, store, retry, rows>>
      BY <2>0, FlushAssumption DEF Clock, memory
    <3>2. ~regressed /\ ~(t < now)
      BY <2>0 DEF Clock
    <3> QED
      BY <1>0, <3>1, <3>2
  <2>2. \A q \in Query :
          /\ trend[q].ts \in Nat /\ recency[q].ts \in Nat /\ store[q].recent.ts \in Nat
          /\ q \in DOMAIN retry => retry[q].recent.ts \in Nat
          /\ q \in DOMAIN rows => rows[q].recent.ts \in Nat
    BY DEF FlushTypeOK, Row, State
  <2> QED
    BY <1>0, <2>1, <2>2 DEF Stamped
<1>12. CASE Stop \/ UNCHANGED flushVars
  BY <1>12 DEF Stop, flushVars, memory, history, Stamped
<1> QED
  BY <1>1, <1>2, <1>4, <1>5, <1>6, <1>7, <1>8, <1>9, <1>10, <1>11, <1>12 DEF FlushNext

\* Update forgets only what has no larger key than all it keeps; what it had
\* forgotten already stays below, since the keys of what it tracks only grow
\* and anything new takes the place of something tracked.
LEMMA FlushForgets ==
    AgeInv /\ (\E b \in [Query -> 0 .. MaxGiven] : Flush(b)) => ForgottenIsOlder'
<1> SUFFICES ASSUME AgeInv, NEW b \in [Query -> 0 .. MaxGiven], Flush(b), ~regressed,
                    NEW r \in Query \ Tracked(trend'), RowOf(r)'.value > 0
             PROVE  /\ Cardinality(Tracked(trend')) = TrendCap
                    /\ \A q \in Tracked(trend') : Key(RowOf(r)') <= Key(trend'[q])
  BY DEF ForgottenIsOlder, Tracked, Flush, history
<1> DEFINE x == recency'
           y == trend'
           old == Tracked(trend)
<1>1. /\ b \in [Query -> Nat] /\ trend \in [Query -> State] /\ now \in Nat
      /\ x = Bumped(trend, b, now) /\ y \in Evicted(x) /\ step = "idle" /\ phase # "down"
      /\ RowOf(r)' = IF b[r] > 0 THEN x[r] ELSE Queued(r).recent
      /\ \A q \in Query : trend[q].ts <= now
  BY FlushAssumption DEF AgeInv, FlushTypeOK, Stamped, Flush, Alive, RowOf, InBatch, Queued
<1>2. /\ x \in [Query -> State] /\ old \subseteq Tracked(x)
      /\ \A q \in Query : b[q] = 0 => x[q] = trend[q]
      /\ \A q \in Query : b[q] > 0 => q \in Tracked(x)
      /\ \A q \in Query : Key(trend[q]) <= Key(x[q])
  <2> HIDE DEF x, y, old
  <2>1. /\ Bumped(trend, b, now) \in [Query -> State]
        /\ old \subseteq Tracked(Bumped(trend, b, now))
        /\ \A q \in Query : b[q] = 0 => Bumped(trend, b, now)[q] = trend[q]
        /\ \A q \in Query : b[q] > 0 => q \in Tracked(Bumped(trend, b, now))
        /\ \A q \in Query : Key(trend[q]) <= Key(Bumped(trend, b, now)[q])
    BY <1>1, BumpedProperties DEF old
  <2> QED
    BY <1>1, <2>1
<1>3. /\ y \in [Query -> State] /\ Tracked(y) \subseteq Tracked(x)
      /\ \A q \in Tracked(y) : y[q] = x[q]
      /\ IsFiniteSet(Tracked(y)) /\ Cardinality(Tracked(y)) <= TrendCap
      /\ \A d \in Tracked(x) \ Tracked(y) :
           /\ Cardinality(Tracked(y)) = TrendCap
           /\ \A q \in Tracked(y) : Key(x[d]) <= Key(x[q])
  BY <1>1, <1>2, EvictedProperties
<1>4. \A q \in Query : Key(trend[q]) \in Nat /\ Key(x[q]) \in Nat
  BY <1>1, <1>2, KeyIsNat
<1>5. Tracked(x) \subseteq Query /\ old \subseteq Query /\ TrendCap \in Nat
  BY TrendingAssumption DEF Tracked
<1> HIDE DEF x, y, old
<1>6. CASE b[r] > 0 \/ r \in old
  <2>1. RowOf(r)' = x[r]
    <3>1. CASE b[r] > 0
      BY <1>1, <3>1
    <3>2. CASE b[r] = 0
      BY <1>1, <1>2, <1>6, <3>2 DEF AgeInv, RecencyFollows, old, Tracked
    <3> QED
      BY <1>1, <3>1, <3>2
  <2>2. r \in Tracked(x) \ Tracked(y)
    BY <1>2, <1>6 DEF y
  <2> QED
    BY <1>3, <2>1, <2>2 DEF y
<1>7. CASE b[r] = 0 /\ r \notin old
  <2> DEFINE k == Key(RowOf(r)')
  <2>1. /\ RowOf(r)' = RowOf(r) /\ RowOf(r) = Queued(r).recent
    BY <1>1, <1>7 DEF RowOf
  <2>2. Cardinality(old) = TrendCap /\ \A q \in old : k <= Key(trend[q])
    BY <1>1, <1>7, <2>1 DEF AgeInv, ForgottenIsOlder, old
  <2>3. k \in Nat
    <3>1. Queued(r).recent \in State
      BY DEF AgeInv, FlushTypeOK, Queued, Row
    <3> QED
      BY <2>1, <3>1, KeyIsNat
  <2> HIDE DEF k
  <2>4. IsFiniteSet(Tracked(x)) /\ IsFiniteSet(old) /\ Cardinality(Tracked(y)) \in Nat
    BY <1>3, <1>5, TrendingAssumption, FS_Subset, FS_CardinalityType
  <2>5. Cardinality(Tracked(y)) = TrendCap
    <3>1. CASE Tracked(x) \ Tracked(y) # {}
      BY <1>3, <3>1
    <3>2. CASE Tracked(x) \ Tracked(y) = {}
      <4>1. old \subseteq Tracked(y)
        BY <1>2, <3>2
      <4>2. Cardinality(old) <= Cardinality(Tracked(y))
        BY <1>3, <4>1, FS_Subset
      <4> QED
        BY <1>3, <1>5, <2>2, <2>4, <4>2
    <3> QED
      BY <3>1, <3>2
  <2>6. ASSUME NEW q \in Tracked(y) PROVE k <= Key(x[q])
    <3>1. q \in Query /\ Key(x[q]) \in Nat /\ Key(trend[q]) \in Nat
      BY <1>3, <1>4, <1>5
    <3>2. CASE q \in old
      BY <1>2, <2>2, <2>3, <3>1, <3>2
    <3>3. CASE q \notin old
      <4>1. PICK d \in old : d \notin Tracked(y)
        <5> SUFFICES ASSUME old \subseteq Tracked(y) PROVE FALSE
          OBVIOUS
        <5>1. old = Tracked(y)
          BY <1>3, <2>2, <2>5, FS_Subset
        <5> QED
          BY <3>3, <5>1
      <4>2. Key(x[d]) <= Key(x[q])
        BY <1>2, <1>3, <4>1
      <4>3. k <= Key(trend[d]) /\ Key(trend[d]) <= Key(x[d])
        BY <1>2, <1>5, <2>2
      <4>4. Key(trend[d]) \in Nat /\ Key(x[d]) \in Nat
        BY <1>4, <1>5
      <4> QED
        BY <2>3, <3>1, <4>2, <4>3, <4>4
    <3> QED
      BY <3>2, <3>3
  <2> QED
    BY <1>3, <2>5, <2>6 DEF k, y
<1> QED
  BY <1>1, <1>6, <1>7

LEMMA RestartForgets == AgeInv /\ Restart => ForgottenIsOlder'
<1> SUFFICES ASSUME AgeInv, Restart, NEW r \in Query \ Tracked(trend'), RowOf(r)'.value > 0
             PROVE  /\ Cardinality(Tracked(trend')) = TrendCap
                    /\ \A q \in Tracked(trend') : Key(RowOf(r)') <= Key(trend'[q])
  BY DEF ForgottenIsOlder, Tracked
<1> DEFINE x == [q \in Query |-> store[q].recent]
<1>1. x \in [Query -> State] /\ trend' \in Evicted(x)
  BY DEF AgeInv, FlushTypeOK, Row, Restart
<1>2. RowOf(r)' = x[r]
  BY DEF AgeInv, FlushInv, DownOK, Restart, RowOf, Queued, NoRows
<1> HIDE DEF x
<1>3. r \in Tracked(x)
  BY <1>1, <1>2 DEF Tracked
<1> QED
  BY <1>1, <1>2, <1>3, EvictedProperties

LEMMA ForgottenStep == AgeInv /\ [FlushNext]_flushVars => ForgottenIsOlder'
<1> SUFFICES ASSUME AgeInv, [FlushNext]_flushVars PROVE ForgottenIsOlder'
  OBVIOUS
<1>1. ASSUME UNCHANGED trend, \A q \in Query : RowOf(q)' = RowOf(q),
             phase' # "down" => phase # "down", regressed => regressed'
      PROVE  ForgottenIsOlder'
  BY <1>1 DEF AgeInv, ForgottenIsOlder, Tracked
<1>2. CASE \E q \in Query : Search(q)
  <2>1. \A q \in Query : RowOf(q)' = RowOf(q)
    BY <1>2 DEF Search, RowOf, InBatch, Queued
  <2> QED
    BY <1>1, <1>2, <2>1 DEF Search
<1>3. CASE \E q \in Query : Load(q)
  <2>1. \A q \in Query : store'[q].recent = store[q].recent
    BY <1>3 DEF Load, AgeInv, FlushTypeOK, Row
  <2>2. \A q \in Query : RowOf(q)' = RowOf(q)
    BY <1>3, <2>1 DEF Load, memory, RowOf, InBatch, Queued
  <2> QED
    BY <1>1, <1>3, <2>2 DEF Load, memory
<1>4. CASE CountBatch
  <2>1. \A q \in Query : RowOf(q)' = RowOf(q)
    BY <1>4 DEF CountBatch, RowOf, InBatch, Queued
  <2> QED
    BY <1>1, <1>4, <2>1 DEF CountBatch, history
<1>5. CASE PersistSucceeds \/ PersistFails
  <2>1. ASSUME NEW q \in Query PROVE RowOf(q)' = RowOf(q)
    <3>1. /\ step = "persisting" /\ step' = "done"
          /\ Queued(q)' = IF q \in DOMAIN rows THEN rows[q] ELSE store[q]
      BY <1>5, OtherRows DEF AgeInv, PersistSucceeds, PersistFails, Upserted, ToRetry, Queued, NoRows
    <3>2. CASE q \in DOMAIN rows
      BY <3>1, <3>2, RowsCount DEF AgeInv, RowOf
    <3>3. CASE q \notin DOMAIN rows
      BY <3>1, <3>3, OtherRows DEF AgeInv, RowOf, Queued
    <3> QED
      BY <3>2, <3>3
  <2> QED
    BY <1>1, <1>5, <2>1 DEF PersistSucceeds, PersistFails, history
<1>6. CASE FlushReturns
  <2>1. \A q \in Query : RowOf(q)' = RowOf(q)
    BY <1>6 DEF FlushReturns, RowOf, InBatch, Queued
  <2> QED
    BY <1>1, <1>6, <2>1 DEF FlushReturns, history
<1>7. CASE Exit \/ Crash
  BY <1>7 DEF Exit, Crash, ForgottenIsOlder
<1>8. CASE Stop \/ (\E t \in 0 .. MaxTime : Clock(t)) \/ UNCHANGED flushVars
  <2>1. \A q \in Query : RowOf(q)' = RowOf(q)
    BY <1>8 DEF Stop, Clock, flushVars, memory, RowOf, InBatch, Queued
  <2>2. UNCHANGED trend /\ (phase' # "down" => phase # "down")
    BY <1>8 DEF Stop, Clock, flushVars, memory
  <2>3. regressed => regressed'
    BY <1>8 DEF Stop, Clock, flushVars, history
  <2> QED
    BY <1>1, <2>1, <2>2, <2>3
<1> QED
  BY <1>2, <1>3, <1>4, <1>5, <1>6, <1>7, <1>8, FlushForgets, RestartForgets DEF FlushNext

LEMMA AgeInvInit == FlushInit => AgeInv
<1> SUFFICES ASSUME FlushInit PROVE AgeInv
  OBVIOUS
<1>1. FlushTypeOK /\ FlushInv /\ RecencyFollows
  BY InvInit, FlushTypeInit
<1>2. Stamped /\ ForgottenIsOlder
  BY DEF FlushInit, Stamped, ForgottenIsOlder, Untracked, NoState, NoRows
<1> QED
  BY <1>1, <1>2 DEF AgeInv

LEMMA AgeInvHolds == FlushSpec => [](FlushTypeOK /\ Stamped /\ ForgottenIsOlder)
<1>1. /\ FlushTypeOK /\ FlushInv /\ RecencyFollows /\ Stamped /\ ForgottenIsOlder
      /\ [FlushNext]_flushVars
      => Stamped' /\ ForgottenIsOlder'
  BY StampedStep, ForgottenStep DEF AgeInv
<1>2. FlushInit => Stamped /\ ForgottenIsOlder
  BY AgeInvInit DEF AgeInv
<1> QED
  BY <1>1, <1>2, FlushTypeCorrect, FlushInvHolds, RecencyInvHolds, PTL DEF FlushSpec

-----------------------------------------------------------------------------
(* The theorems.                                                           *)

\* Between two flushes the count of every query is in the table, or queued
\* for the next flush, as memory has it: engine.go:164-166, for any number of
\* failures, retries, crashes and loads.
THEOREM CountsAreQueued == FlushSpec => []CountsQueued
<1>1. FlushInv => CountsQueued
  BY DEF FlushInv, CountsFollow, CountsQueued, Alive
<1> QED
  BY <1>1, FlushInvHolds, PTL

\* The same of the recency of every query that trending tracks, whatever
\* evict has dropped and whichever way the clock went.
THEOREM RecencyIsQueued == FlushSpec => []RecencyQueued
<1>1. RecencyFollows => RecencyQueued
  BY DEF RecencyFollows, RecencyQueued, Tracked
<1> QED
  BY <1>1, RecencyInvHolds, PTL

\* As long as the clock never stepped back, no query that the index has
\* dropped is, by its row, more recent than one that is shown: neither decay
\* nor the rounding of it, neither a failed write nor a crash changes that.
THEOREM ShownIsMostRecent == FlushSpec => []TopIsMostRecent
<1>1. ASSUME FlushTypeOK, Stamped, ForgottenIsOlder PROVE TopIsMostRecent
  <2> SUFFICES ASSUME Alive, step \in {"idle", "done"}, ~regressed,
                      NEW r \in Query \ Tracked(trend)
               PROVE  LET lost == Effective(Queued(r).recent, now)
                      IN  /\ lost > 0 => Cardinality(Tracked(trend)) = TrendCap
                          /\ \A q \in Top(trend, TopK, now) : lost <= Effective(trend[q], now)
    BY DEF TopIsMostRecent
  <2> DEFINE row == Queued(r).recent
             lost == Effective(row, now)
  <2>1. /\ row \in State /\ row.ts <= now /\ now \in Nat /\ trend \in [Query -> State]
        /\ \A q \in Query : trend[q].ts <= now
    BY <1>1 DEF FlushTypeOK, Stamped, Queued, Row
  <2>2. row.value > 0 =>
          /\ Cardinality(Tracked(trend)) = TrendCap
          /\ \A q \in Tracked(trend) : Key(row) <= Key(trend[q])
    BY <1>1 DEF ForgottenIsOlder, RowOf, Alive
  <2> HIDE DEF row
  <2>3. lost \in Nat /\ lost <= row.value /\ row.value \in Nat
    BY <2>1, EffectiveIsNat DEF State
  <2>4. lost > 0 => Cardinality(Tracked(trend)) = TrendCap
    <3> HIDE DEF lost
    <3> QED
      BY <2>2, <2>3
  <2>5. ASSUME NEW q \in Tracked(trend) PROVE lost <= Effective(trend[q], now)
    <3>1. q \in Query /\ trend[q] \in State /\ Effective(trend[q], now) \in Nat
      BY <2>1, EffectiveIsNat DEF Tracked
    <3>2. CASE row.value > 0
      BY <2>1, <2>2, <3>1, <3>2, KeyOrdersEffective
    <3>3. CASE row.value = 0
      <4> HIDE DEF lost
      <4> QED
        BY <2>3, <3>1, <3>3
    <3> QED
      BY <2>3, <3>2, <3>3
  <2> QED
    BY <2>4, <2>5 DEF Top, row
<1> QED
  BY <1>1, AgeInvHolds, PTL

\* No search or load is counted twice, in memory or in the table.
THEOREM NothingOvercounted == FlushSpec => []NeverOvercounts
<1>1. FlushInv => NeverOvercounts
  BY DEF FlushInv
<1> QED
  BY <1>1, FlushInvHolds, PTL

\* A retried row never overwrites a later one: no stored count drops, except
\* for a query that was loaded behind the server's back.
THEOREM StoredCountsGrow == FlushSpec => StoredNeverDrops
<1>1. FlushInv /\ [FlushNext]_flushVars
        => [\A q \in Query \ loaded : store'[q].count >= store[q].count]_flushVars
  <2> SUFFICES ASSUME FlushInv, [FlushNext]_flushVars, NEW q \in Query \ loaded
               PROVE  store'[q].count >= store[q].count
    OBVIOUS
  <2>1. store[q].count \in Nat
    BY DEF FlushInv, CountsOK
  <2>2. CASE \E p \in Query : Load(p)
    BY <2>1, <2>2 DEF Load, FlushInv, CountsOK
  <2>3. CASE PersistSucceeds
    <3>1. phase # "down"
      BY <2>3 DEF PersistSucceeds, FlushInv, DownOK
    <3>2. store[q].count <= trie[q] /\ trie[q] \in Nat
      BY <3>1 DEF FlushInv, CountsOK, StoreBehind
    <3>3. store'[q] = IF q \in DOMAIN rows THEN rows[q] ELSE store[q]
      BY <2>3 DEF PersistSucceeds, Upserted
    <3> QED
      BY <2>1, <2>3, <3>2, <3>3, RowsCount DEF PersistSucceeds
  <2>4. CASE UNCHANGED store
    BY <2>1, <2>4
  <2> QED
    BY <2>2, <2>3, <2>4
       DEF FlushNext, flushVars, history, Search, Flush, CountBatch, PersistFails,
           FlushReturns, Stop, Exit, Crash, Restart, Clock
<1> QED
  BY <1>1, FlushInvHolds, PTL DEF FlushSpec, StoredNeverDrops

=============================================================================
