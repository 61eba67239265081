----------------------------- MODULE ServerProofs -----------------------------
(***************************************************************************)
(* Proofs about BatchWriter and Server, for every set of queries, every    *)
(* finite set of callers, every buffer capacity and every batch size: the  *)
(* writer counts every search once, and main's shutdown order loses none,  *)
(* unless a handler outlives srv.Shutdown.                                 *)
(***************************************************************************)
EXTENDS Server, FiniteSetTheorems, FunctionTheorems, SequenceTheorems, TLAPS

-----------------------------------------------------------------------------
(* BatchWriter: the buffer.                                                *)

\* The positions of q in a buffer s.
Positions(s, q) == {i \in DOMAIN s : s[i] = q}

\* A sequence without one of its elements keeps the others in order.
LEMMA RemoveAtProperties ==
    ASSUME NEW S, NEW s \in Seq(S), NEW i \in 1 .. Len(s)
    PROVE  /\ RemoveAt(s, i) \in Seq(S)
           /\ Len(RemoveAt(s, i)) = Len(s) - 1
           /\ \A j \in 1 .. Len(s) - 1 :
                RemoveAt(s, i)[j] = IF j < i THEN s[j] ELSE s[j + 1]
<1> DEFINE front == SubSeq(s, 1, i - 1)
           back == SubSeq(s, i + 1, Len(s))
<1>1. /\ front \in Seq(S) /\ Len(front) = i - 1
      /\ \A j \in 1 .. i - 1 : front[j] = s[j]
  BY SubSeqProperties, LenProperties
<1>2. /\ back \in Seq(S) /\ Len(back) = Len(s) - i
      /\ \A j \in 1 .. Len(s) - i : back[j] = s[i + j]
  BY SubSeqProperties, LenProperties
<1> HIDE DEF front, back
<1>3. Len(s) \in Nat
  BY LenProperties
<1>4. /\ front \o back \in Seq(S)
      /\ Len(front \o back) = Len(front) + Len(back)
      /\ \A j \in 1 .. Len(front) + Len(back) :
           (front \o back)[j] = IF j <= Len(front) THEN front[j]
                                ELSE back[j - Len(front)]
  BY <1>1, <1>2, ConcatProperties
<1>5. Len(front) + Len(back) = Len(s) - 1
  BY <1>1, <1>2, <1>3
<1>6. ASSUME NEW j \in 1 .. Len(s) - 1
      PROVE  (front \o back)[j] = IF j < i THEN s[j] ELSE s[j + 1]
  <2>1. CASE j < i
    BY <2>1, <1>1, <1>3, <1>4, <1>5
  <2>2. CASE ~(j < i)
    <3>1. j - (i - 1) \in 1 .. Len(s) - i /\ i + (j - (i - 1)) = j + 1
      BY <2>2, <1>3
    <3>2. (front \o back)[j] = back[j - (i - 1)]
      BY <2>2, <1>1, <1>3, <1>4, <1>5
    <3> QED
      BY <2>2, <3>1, <3>2, <1>2
  <2> QED
    BY <2>1, <2>2
<1>7. RemoveAt(s, i) = front \o back
  BY DEF RemoveAt, front, back
<1> QED
  BY <1>4, <1>5, <1>6, <1>7

\* Any buffer holds finitely many searches for a query.
LEMMA PositionsFinite ==
    ASSUME NEW S, NEW s \in Seq(S), NEW q
    PROVE  IsFiniteSet(Positions(s, q)) /\ Cardinality(Positions(s, q)) \in Nat
<1>1. IsFiniteSet(1 .. Len(s))
  BY FS_Interval, LenProperties
<1>2. Positions(s, q) \in SUBSET (1 .. Len(s))
  BY LenProperties DEF Positions
<1> QED
  BY <1>1, <1>2, FS_Subset, FS_CardinalityType

\* A send adds one search for the query sent and none for another.
LEMMA PositionsAppend ==
    ASSUME NEW S, NEW s \in Seq(S), NEW e \in S, NEW q
    PROVE  Cardinality(Positions(Append(s, e), q))
             = Cardinality(Positions(s, q)) + IF e = q THEN 1 ELSE 0
<1> DEFINE t == Append(s, e)
           n == Len(s) + 1
<1>1. /\ t \in Seq(S) /\ Len(t) = n /\ t[n] = e
      /\ \A i \in 1 .. Len(s) : t[i] = s[i]
  BY AppendProperties
<1>2. DOMAIN s = 1 .. Len(s) /\ Len(s) \in Nat /\ DOMAIN t = 1 .. n
  BY <1>1, LenProperties
<1> HIDE DEF t
<1>3. CASE e = q
  <2>1. Positions(t, q) = Positions(s, q) \cup {n}
    BY <1>1, <1>2, <1>3 DEF Positions
  <2>2. n \notin Positions(s, q)
    BY <1>2 DEF Positions
  <2> QED
    BY <2>1, <2>2, <1>3, PositionsFinite, FS_AddElement DEF t
<1>4. CASE e # q
  <2>1. Positions(t, q) = Positions(s, q)
    BY <1>1, <1>2, <1>4 DEF Positions
  <2> QED
    BY <2>1, <1>4, PositionsFinite DEF t
<1> QED
  BY <1>3, <1>4

\* A receive takes out one search for the query received.
LEMMA PositionsTail ==
    ASSUME NEW S, NEW s \in Seq(S), s # <<>>, NEW q
    PROVE  Cardinality(Positions(s, q))
             = Cardinality(Positions(Tail(s), q)) + IF Head(s) = q THEN 1 ELSE 0
<1> DEFINE t == Tail(s)
           later == Positions(s, q) \ {1}
           shift == [i \in Positions(t, q) |-> i + 1]
<1>1. /\ t \in Seq(S) /\ Len(t) = Len(s) - 1
      /\ \A i \in 1 .. Len(t) : t[i] = s[i + 1]
  BY HeadTailProperties
<1>2. /\ DOMAIN s = 1 .. Len(s) /\ Len(s) \in Nat /\ Len(s) >= 1
      /\ DOMAIN t = 1 .. Len(t) /\ Len(t) \in Nat
  BY <1>1, LenProperties, EmptySeq
<1>3. Head(s) = s[1]
  BY <1>2
<1> HIDE DEF t
<1>4. shift \in [Positions(t, q) -> later]
  BY <1>1, <1>2 DEF Positions
<1>5. \A k \in later : \E i \in Positions(t, q) : shift[i] = k
  <2> SUFFICES ASSUME NEW k \in later
               PROVE  k - 1 \in Positions(t, q) /\ (k - 1) + 1 = k
    OBVIOUS
  <2> QED
    BY <1>1, <1>2 DEF Positions
<1>6. \A i, j \in Positions(t, q) : shift[i] = shift[j] => i = j
  BY <1>2 DEF Positions
<1>7. ExistsBijection(Positions(t, q), later)
  <2>1. shift \in Bijection(Positions(t, q), later)
    <3> HIDE DEF shift, later
    <3> QED
      BY <1>4, <1>5, <1>6, Fun_IsBij
  <2> QED
    BY <2>1 DEF ExistsBijection
<1>8. IsFiniteSet(later) /\ Cardinality(later) = Cardinality(Positions(t, q))
  BY <1>1, <1>7, PositionsFinite, FS_Bijection
<1>9. Cardinality(later)
        = IF 1 \in Positions(s, q) THEN Cardinality(Positions(s, q)) - 1
                                   ELSE Cardinality(Positions(s, q))
  BY PositionsFinite, FS_RemoveElement
<1>10. 1 \in Positions(s, q) <=> Head(s) = q
  BY <1>2, <1>3 DEF Positions
<1>11. Cardinality(Positions(s, q)) \in Nat
  BY PositionsFinite
<1> QED
  BY <1>8, <1>9, <1>10, <1>11 DEF t

-----------------------------------------------------------------------------
(* Type correctness.  There may be infinitely many queries, so that the    *)
(* number of rows of a flush is a number only because each map the loop    *)
(* fills, one search at a time, has finitely many keys.                    *)

FiniteMaps == IsFiniteSet(Support(pending)) /\ IsFiniteSet(Support(batch))

TypeInv == TypeOK /\ FiniteMaps

\* Counting one more search keeps a map a map with finitely many keys.
LEMMA BumpProperties ==
    ASSUME NEW f \in [Query -> Nat], NEW q \in Query
    PROVE  /\ Bump(f, q) \in [Query -> Nat]
           /\ \A r \in Query : Bump(f, q)[r] = f[r] + IF r = q THEN 1 ELSE 0
           /\ IsFiniteSet(Support(f)) => IsFiniteSet(Support(Bump(f, q)))
<1>1. /\ Bump(f, q) \in [Query -> Nat]
      /\ \A r \in Query : Bump(f, q)[r] = f[r] + IF r = q THEN 1 ELSE 0
  BY DEF Bump
<1>2. Support(Bump(f, q)) \subseteq Support(f) \cup {q}
  BY <1>1 DEF Support
<1>3. ASSUME IsFiniteSet(Support(f)) PROVE IsFiniteSet(Support(Bump(f, q)))
  <2>1. IsFiniteSet(Support(f) \cup {q})
    BY <1>3, FS_AddElement
  <2> QED
    BY <1>2, <2>1, FS_Subset
<1> QED
  BY <1>1, <1>3

\* The empty map.
LEMMA ZeroProperties == Zero \in [Query -> Nat] /\ Support(Zero) = {}
BY DEF Zero, Support

\* A receive takes a query out of the buffer and keeps the types.
LEMMA DequeueTypes ==
    ASSUME TypeInv, Dequeue
    PROVE  /\ Head(events) \in Query
           /\ events' \in Seq(Query) /\ Len(events') <= BufCap
           /\ sendq' \in Seq(Caller)
           /\ pc' \in [Caller -> CallerState]
           /\ accepted' \in [Query -> Nat]
<1>1. /\ events \in Seq(Query) /\ events # <<>> /\ Len(events) <= BufCap
      /\ sendq \in Seq(Caller) /\ pc \in [Caller -> CallerState]
      /\ arg \in [Caller -> Query] /\ accepted \in [Query -> Nat]
  BY DEF TypeInv, TypeOK, Dequeue
<1>2. /\ Head(events) \in Query /\ Tail(events) \in Seq(Query)
      /\ Len(Tail(events)) = Len(events) - 1 /\ Len(events) \in Nat
  BY <1>1, HeadTailProperties, LenProperties
<1>3. CASE sendq = <<>>
  <2>1. /\ events' = Tail(events)
        /\ UNCHANGED <<sendq, pc, accepted>>
    BY <1>3 DEF Dequeue
  <2> QED
    BY <1>1, <1>2, <2>1, WriterAssumption
<1>4. CASE sendq # <<>>
  <2>1. Head(sendq) \in Caller /\ Tail(sendq) \in Seq(Caller)
    BY <1>1, <1>4, HeadTailProperties
  <2>2. /\ events' = Append(Tail(events), arg[Head(sendq)])
        /\ sendq' = Tail(sendq)
        /\ accepted' = Bump(accepted, arg[Head(sendq)])
        /\ pc' = [pc EXCEPT ![Head(sendq)] = "sent"]
    BY <1>4 DEF Dequeue
  <2>3. events' \in Seq(Query) /\ Len(events') = Len(Tail(events)) + 1
    BY <1>1, <1>2, <2>1, <2>2, AppendProperties
  <2>4. accepted' \in [Query -> Nat]
    BY <1>1, <2>1, <2>2, BumpProperties
  <2> QED
    BY <1>1, <1>2, <2>1, <2>2, <2>3, <2>4, WriterAssumption DEF CallerState
<1> QED
  BY <1>3, <1>4

\* A send into a buffer with room keeps the types.
LEMMA SendTypes ==
    ASSUME TypeInv, NEW c \in Caller, NEW q \in Query, Send(c, q)
    PROVE  /\ events' \in Seq(Query) /\ Len(events') <= BufCap
           /\ sendq' \in Seq(Caller)
           /\ pc' \in [Caller -> CallerState]
           /\ accepted' \in [Query -> Nat]
<1>1. events' \in Seq(Query) /\ Len(events') = Len(events) + 1
  BY AppendProperties DEF TypeInv, TypeOK, Send
<1>2. Len(events) \in Nat /\ Len(events) < BufCap
  BY LenProperties DEF TypeInv, TypeOK, Send, HasRoom
<1>3. accepted' \in [Query -> Nat]
  BY BumpProperties DEF TypeInv, TypeOK, Send
<1> QED
  BY <1>1, <1>2, <1>3, WriterAssumption
  DEF TypeInv, TypeOK, Send, CallerState

\* Every step keeps the types.
LEMMA TypeStep == TypeInv /\ [Next]_vars => TypeInv'
<1> SUFFICES ASSUME TypeInv, [Next]_vars PROVE TypeInv'
  OBVIOUS
<1> USE DEF TypeInv
<1>1. ASSUME NEW c \in Caller, NEW q \in Query, Submit(c, q) PROVE TypeInv'
  <2>1. /\ UNCHANGED <<loopVars, quit, received, dropped>>
        /\ submitted' \in Nat /\ arg' \in [Caller -> Query]
    BY <1>1 DEF Submit, TypeOK
  <2>2. CASE Send(c, q)
    BY <2>1, <2>2, SendTypes DEF TypeOK, FiniteMaps, loopVars, Support
  <2>3. CASE pc' = [pc EXCEPT ![c] = "full"] /\ UNCHANGED channelVars
    BY <2>1, <2>3 DEF TypeOK, FiniteMaps, loopVars, channelVars, Support, CallerState
  <2> QED
    BY <1>1, <2>2, <2>3 DEF Submit
<1>2. ASSUME NEW c \in Caller, Offer(c) PROVE TypeInv'
  <2>1. CASE Send(c, arg[c])
    <3>1. arg[c] \in Query
      BY DEF TypeOK
    <3>2. UNCHANGED <<loopVars, quit, arg, submitted, received, dropped>>
      BY <1>2 DEF Offer
    <3> QED
      BY <2>1, <3>1, <3>2, SendTypes DEF TypeOK, FiniteMaps, loopVars, Support
  <2>2. CASE /\ sendq' = Append(sendq, c)
             /\ pc' = [pc EXCEPT ![c] = "parked"]
             /\ UNCHANGED <<events, accepted>>
    <3>1. sendq' \in Seq(Caller)
      BY <2>2, AppendProperties DEF TypeOK
    <3> QED
      BY <1>2, <2>2, <3>1 DEF Offer, TypeOK, FiniteMaps, loopVars, Support, CallerState
  <2> QED
    BY <1>2, <2>1, <2>2 DEF Offer
<1>3. ASSUME NEW c \in Caller, TimeOut(c) PROVE TypeInv'
  <2>1. PICK i \in DOMAIN sendq : sendq' = RemoveAt(sendq, i)
    BY <1>3 DEF TimeOut
  <2>2. sendq' \in Seq(Caller)
    BY <2>1, RemoveAtProperties, LenProperties DEF TypeOK
  <2>3. /\ UNCHANGED <<loopVars, quit, events, accepted, arg, submitted, received>>
        /\ pc' = [pc EXCEPT ![c] = "idle"] /\ dropped' = dropped + 1
    BY <1>3 DEF TimeOut
  <2>4. pc' \in [Caller -> CallerState] /\ dropped' \in Nat
    BY <2>3 DEF TypeOK, CallerState
  <2>5. FiniteMaps'
    BY <2>3 DEF FiniteMaps, loopVars, Support
  <2> QED
    BY <2>2, <2>3, <2>4, <2>5 DEF TypeOK, loopVars
<1>4. ASSUME NEW c \in Caller, CountReceived(c) PROVE TypeInv'
  BY <1>4
  DEF CountReceived, TypeOK, FiniteMaps, loopVars, channelVars, Support, CallerState
<1>5. CASE LoopReceive
  <2>1. /\ Dequeue /\ UNCHANGED <<upserts, flushes, applied>>
        /\ UNCHANGED <<arg, submitted, received, dropped, quit>>
    BY <1>5 DEF LoopReceive, Dequeue
  <2> DEFINE p == Bump(pending, Head(events))
  <2>2. p \in [Query -> Nat] /\ IsFiniteSet(Support(p))
    BY <2>1, DequeueTypes, BumpProperties DEF TypeOK, FiniteMaps
  <2>3. \/ StartFlush(p, "select")
        \/ /\ pending' = p
           /\ total' = total + 1
           /\ UNCHANGED <<loop, resume, batch>>
    BY <1>5 DEF LoopReceive
  <2> HIDE DEF p
  <2>4. /\ pending' \in [Query -> Nat] /\ batch' \in [Query -> Nat]
        /\ total' \in Nat /\ loop' \in LoopState /\ resume' \in {"select", "exited"}
    BY <2>2, <2>3, ZeroProperties DEF StartFlush, TypeOK, LoopState
  <2>5. FiniteMaps'
    BY <2>2, <2>3, ZeroProperties, FS_EmptySet DEF StartFlush, FiniteMaps, Support
  <2> QED
    BY <2>1, <2>4, <2>5, DequeueTypes DEF TypeOK
<1>6. CASE LoopTick
  BY <1>6, ZeroProperties, FS_EmptySet
  DEF LoopTick, StartFlush, TypeOK, FiniteMaps, callerVars, channelVars, Support, LoopState
<1>7. CASE LoopQuit
  BY <1>7 DEF LoopQuit, TypeOK, FiniteMaps, callerVars, channelVars, Support, LoopState
<1>8. CASE DrainReceive
  <2>1. /\ Dequeue /\ pending' = Bump(pending, Head(events))
        /\ UNCHANGED <<loop, resume, total, batch, upserts, flushes, applied>>
        /\ UNCHANGED <<arg, submitted, received, dropped, quit>>
    BY <1>8 DEF DrainReceive, Dequeue
  <2>2. pending' \in [Query -> Nat] /\ IsFiniteSet(Support(pending'))
    BY <2>1, DequeueTypes, BumpProperties DEF TypeOK, FiniteMaps
  <2> QED
    BY <2>1, <2>2, DequeueTypes DEF TypeOK, FiniteMaps, Support
<1>9. CASE DrainEmpty
  <2>1. /\ UNCHANGED <<callerVars, channelVars, quit, upserts, flushes, applied>>
        /\ \/ StartFlush(pending, "exited")
           \/ loop' = "exited" /\ UNCHANGED <<resume, pending, total, batch>>
    BY <1>9 DEF DrainEmpty
  <2>2. CASE StartFlush(pending, "exited")
    BY <2>1, <2>2, ZeroProperties, FS_EmptySet
    DEF StartFlush, TypeOK, FiniteMaps, callerVars, channelVars, Support, LoopState
  <2>3. CASE loop' = "exited" /\ UNCHANGED <<resume, pending, total, batch>>
    BY <2>1, <2>3
    DEF TypeOK, FiniteMaps, callerVars, channelVars, Support, LoopState
  <2> QED
    BY <2>1, <2>2, <2>3
<1>10. CASE ApplyReturns
  <2>1. applied' \in [Query -> Nat]
    BY <1>10 DEF ApplyReturns, Plus, TypeOK
  <2>2. /\ UNCHANGED <<callerVars, channelVars, quit, resume, pending, total>>
        /\ UNCHANGED <<batch, upserts, flushes>> /\ loop' = "count"
    BY <1>10 DEF ApplyReturns
  <2> QED
    BY <2>1, <2>2
    DEF TypeOK, FiniteMaps, callerVars, channelVars, Support, LoopState
<1>11. CASE CountFlush
  <2>1. upserts' \in Nat
    BY <1>11, FS_CardinalityType DEF CountFlush, TypeOK, FiniteMaps
  <2>2. /\ UNCHANGED <<callerVars, channelVars, quit, resume, pending, total>>
        /\ applied' = applied /\ flushes' = flushes + 1
        /\ loop' = resume /\ batch' = Zero
    BY <1>11 DEF CountFlush
  <2>3. TypeOK'
    BY <2>1, <2>2, ZeroProperties DEF TypeOK, callerVars, channelVars, LoopState
  <2>4. FiniteMaps'
    BY <2>2, ZeroProperties, FS_EmptySet DEF FiniteMaps, Support
  <2> QED
    BY <2>3, <2>4
<1>12. CASE Stop
  BY <1>12 DEF Stop, TypeOK, FiniteMaps, callerVars, channelVars, loopVars, Support
<1>13. CASE UNCHANGED vars
  BY <1>13 DEF vars, TypeOK, FiniteMaps, callerVars, channelVars, loopVars, Support
<1> QED
  BY <1>1, <1>2, <1>3, <1>4, <1>5, <1>6, <1>7, <1>8, <1>9, <1>10, <1>11,
     <1>12, <1>13
  DEF Next, CallerStep, LoopStep

LEMMA TypeInit == Init => TypeInv
<1>1. /\ <<>> \in Seq(Query) /\ <<>> \in Seq(Caller)
      /\ Len(<<>>) <= BufCap
  BY WriterAssumption
<1>2. Init => TypeOK
  <2> SUFFICES ASSUME Init PROVE TypeOK
    OBVIOUS
  <2>1. /\ events \in Seq(Query) /\ Len(events) <= BufCap /\ sendq \in Seq(Caller)
        /\ pc \in [Caller -> CallerState] /\ arg \in [Caller -> Query]
    BY <1>1 DEF Init, CallerState
  <2>2. /\ pending \in [Query -> Nat] /\ batch \in [Query -> Nat]
        /\ accepted \in [Query -> Nat] /\ applied \in [Query -> Nat]
    BY ZeroProperties DEF Init
  <2> QED
    BY <2>1, <2>2 DEF Init, TypeOK, LoopState
<1>3. Init => FiniteMaps
  BY ZeroProperties, FS_EmptySet DEF Init, FiniteMaps
<1> QED
  BY <1>2, <1>3 DEF TypeInv

\* The types of the writer's state: the channel never holds more than its
\* capacity and every counter and count is a natural number.
THEOREM TypeCorrect == Spec => []TypeOK
<1>1. Spec => []TypeInv
  BY TypeInit, TypeStep, PTL DEF Spec
<1> QED
  BY <1>1, PTL DEF TypeInv

-----------------------------------------------------------------------------
(* Sums.  SumFunction folds a set in an order that nobody knows; that the  *)
(* order does not matter, so that any element may be taken out of a sum,   *)
(* is proved by a least counterexample among the finite subsets.           *)

\* The element of s that a fold takes first.
Pick(s) == CHOOSE x \in s : TRUE

\* g gives the subsets of S their sums under f.
IsSum(f, S, g) ==
    g = [s \in SUBSET S |-> IF s = {} THEN 0 ELSE f[Pick(s)] + g[s \ {Pick(s)}]]

SumIter(f, S) == CHOOSE g : IsSum(f, S, g)

LEMMA SumIsChoice ==
    ASSUME NEW f, NEW S
    PROVE  SumFunctionOnSet(f, S) = SumIter(f, S)[S]
BY DEF SumFunctionOnSet, FoldFunctionOnSet, MapThenFoldSet, SumIter, IsSum, Pick

\* A set of subsets has a least one, unless it is empty.
LEMMA LeastSubset ==
    ASSUME NEW S, IsFiniteSet(S), NEW Bad \in SUBSET SUBSET S, Bad # {}
    PROVE  \E m \in Bad : \A t \in SUBSET m : t # m => t \notin Bad
<1>1. Bad \subseteq FiniteSubsetsOf(S)
  BY FS_FiniteSubsetsOfFinite
<1>2. PICK m \in Bad : \A t \in Bad : <<t, m>> \notin StrictSubsetOrdering(S)
  BY <1>1, WFMin, FS_StrictSubsetOrderingWellFounded
<1>3. ASSUME NEW t \in SUBSET m, t # m, t \in Bad PROVE FALSE
  BY <1>2, <1>3 DEF StrictSubsetOrdering
<1> QED
  BY <1>3

LEMMA PickProperties ==
    ASSUME NEW s, s # {}
    PROVE  Pick(s) \in s /\ s \ {Pick(s)} \subseteq s /\ s \ {Pick(s)} # s
BY DEF Pick

LEMMA SumEquation ==
    ASSUME NEW f, NEW S, NEW g, IsSum(f, S, g)
    PROVE  \A s \in SUBSET S : s # {} => g[s] = f[Pick(s)] + g[s \ {Pick(s)}]
BY DEF IsSum

LEMMA SumEmpty ==
    ASSUME NEW f, NEW S, NEW g, IsSum(f, S, g)
    PROVE  g[{}] = 0
BY DEF IsSum

\* The sum of a set does not depend on the set it is a subset of.
LEMMA SumsAgree ==
    ASSUME NEW f, NEW S, IsFiniteSet(S), NEW T, NEW g, IsSum(f, S, g), NEW h, IsSum(f, T, h),
           T \subseteq S, NEW s \in SUBSET T
    PROVE  g[s] = h[s]
<1> DEFINE Bad == {t \in SUBSET T : g[t] # h[t]}
<1> SUFFICES ASSUME Bad # {} PROVE FALSE
  OBVIOUS
<1>1. PICK m \in Bad : \A t \in SUBSET m : t # m => t \notin Bad
  <2>1. Bad \in SUBSET SUBSET S
    OBVIOUS
  <2> HIDE DEF Bad
  <2> QED
    BY <2>1, LeastSubset
<1>2. m # {}
  <2>1. g[{}] = 0
    BY SumEmpty
  <2>2. h[{}] = 0
    BY SumEmpty
  <2> QED
    BY <2>1, <2>2
<1> DEFINE t == m \ {Pick(m)}
<1>3. t \in SUBSET m /\ t # m /\ m \in SUBSET S /\ m \in SUBSET T
  BY <1>2, PickProperties
<1>4. g[t] = h[t]
  <2> HIDE DEF t
  <2>1. t \notin Bad
    BY <1>1, <1>3
  <2> QED
    BY <1>3, <2>1
<1>5. g[m] = f[Pick(m)] + g[t]
  <2>1. \A u \in SUBSET S : u # {} => g[u] = f[Pick(u)] + g[u \ {Pick(u)}]
    BY SumEquation
  <2> QED
    BY <1>2, <1>3, <2>1
<1>6. h[m] = f[Pick(m)] + h[t]
  <2>1. \A u \in SUBSET T : u # {} => h[u] = f[Pick(u)] + h[u \ {Pick(u)}]
    BY SumEquation
  <2> QED
    BY <1>2, <1>3, <2>1
<1> QED
  BY <1>4, <1>5, <1>6

LEMMA SumExists ==
    ASSUME NEW f, NEW S, IsFiniteSet(S)
    PROVE  IsSum(f, S, SumIter(f, S))
<1> SUFFICES \E g : IsSum(f, S, g)
  BY DEF SumIter
<1> DEFINE Bad == {s \in SUBSET S : ~\E g : IsSum(f, s, g)}
<1> SUFFICES ASSUME Bad # {} PROVE FALSE
  OBVIOUS
<1>1. PICK m \in Bad : \A t \in SUBSET m : t # m => t \notin Bad
  <2>1. Bad \in SUBSET SUBSET S
    OBVIOUS
  <2> HIDE DEF Bad
  <2> QED
    BY <2>1, LeastSubset
<1>2. m \in SUBSET S /\ ~\E g : IsSum(f, m, g)
  OBVIOUS
<1>3. \A t \in SUBSET m : t # m => IsSum(f, t, SumIter(f, t))
  BY <1>1, <1>2 DEF SumIter
<1> HIDE DEF Bad
<1> DEFINE rest(s) == s \ {Pick(s)}
           g == [s \in SUBSET m |->
                   IF s = {} THEN 0 ELSE f[Pick(s)] + SumIter(f, rest(s))[rest(s)]]
<1>4. ASSUME NEW s \in SUBSET m, s # {}
      PROVE  g[rest(s)] = SumIter(f, rest(s))[rest(s)]
  <2> DEFINE t == rest(s)
  <2>1. t \in SUBSET m /\ t # m /\ IsFiniteSet(t)
    BY <1>2, <1>3, <1>4, PickProperties, FS_Subset
  <2>2. IsSum(f, t, SumIter(f, t))
    BY <1>3, <2>1
  <2>3. SumIter(f, t)[t] = IF t = {} THEN 0 ELSE f[Pick(t)] + SumIter(f, t)[rest(t)]
    <3>1. CASE t = {}
      BY <2>2, <3>1, SumEmpty
    <3>2. CASE t # {}
      <4>1. \A u \in SUBSET t : u # {} =>
              SumIter(f, t)[u] = f[Pick(u)] + SumIter(f, t)[u \ {Pick(u)}]
        BY <2>2, SumEquation
      <4>2. t \in SUBSET t
        OBVIOUS
      <4> HIDE DEF t
      <4> QED
        BY <3>2, <4>1, <4>2
    <3> QED
      BY <3>1, <3>2
  <2>4. g[t] = IF t = {} THEN 0 ELSE f[Pick(t)] + SumIter(f, rest(t))[rest(t)]
    BY <2>1
  <2>5. t # {} => SumIter(f, t)[rest(t)] = SumIter(f, rest(t))[rest(t)]
    <3> SUFFICES ASSUME t # {} PROVE SumIter(f, t)[rest(t)] = SumIter(f, rest(t))[rest(t)]
      OBVIOUS
    <3> DEFINE u == rest(t)
    <3>1. u \in SUBSET t /\ u # t
      BY PickProperties
    <3>2. u \in SUBSET m /\ u # m
      BY <2>1, <3>1
    <3>3. IsSum(f, u, SumIter(f, u))
      BY <1>3, <3>2
    <3> HIDE DEF u, t
    <3>4. SumIter(f, t)[u] = SumIter(f, u)[u]
      <4>1. u \in SUBSET u /\ u \subseteq t /\ IsFiniteSet(t)
        BY <2>1, <3>1
      <4> QED
        BY <2>2, <3>3, <4>1, SumsAgree
    <3> QED
      BY <3>4 DEF u
  <2> HIDE DEF t, g
  <2> QED
    BY <2>3, <2>4, <2>5 DEF t
<1>5. IsSum(f, m, g)
  BY <1>4 DEF IsSum
<1> QED
  BY <1>2, <1>5

LEMMA SumWithin ==
    ASSUME NEW f, NEW S, IsFiniteSet(S), NEW T \in SUBSET S
    PROVE  SumFunctionOnSet(f, T) = SumIter(f, S)[T]
<1>1. IsSum(f, S, SumIter(f, S)) /\ IsSum(f, T, SumIter(f, T))
  BY SumExists, FS_Subset
<1>2. T \in SUBSET T
  OBVIOUS
<1>3. SumIter(f, S)[T] = SumIter(f, T)[T]
  BY <1>1, <1>2, SumsAgree
<1> QED
  BY <1>3, SumIsChoice

LEMMA SumOfNone ==
    ASSUME NEW f
    PROVE  SumFunctionOnSet(f, {}) = 0
<1>1. IsFiniteSet({})
  BY FS_EmptySet
<1>2. IsSum(f, {}, SumIter(f, {}))
  BY <1>1, SumExists
<1>3. SumIter(f, {})[{}] = 0
  BY <1>2, SumEmpty
<1> QED
  BY <1>3, SumIsChoice

\* The sum of natural numbers is one.
LEMMA SumIsNat ==
    ASSUME NEW f, NEW S, IsFiniteSet(S), \A x \in S : f[x] \in Nat
    PROVE  SumFunctionOnSet(f, S) \in Nat
<1> DEFINE g == SumIter(f, S)
           Bad == {s \in SUBSET S : g[s] \notin Nat}
<1>1. IsSum(f, S, g)
  BY SumExists
<1>2. ASSUME Bad # {} PROVE FALSE
  <2>1. PICK m \in Bad : \A t \in SUBSET m : t # m => t \notin Bad
    <3>1. Bad \in SUBSET SUBSET S
      OBVIOUS
    <3> HIDE DEF Bad
    <3> QED
      BY <1>2, <3>1, LeastSubset
  <2>2. m \in SUBSET S /\ g[m] \notin Nat
    OBVIOUS
  <2> DEFINE t == m \ {Pick(m)}
  <2> HIDE DEF g
  <2>3. g[{}] = 0
    BY <1>1, SumEmpty
  <2>4. m # {}
    BY <2>2, <2>3
  <2>7. g[m] = f[Pick(m)] + g[t]
    <3>1. \A u \in SUBSET S : u # {} => g[u] = f[Pick(u)] + g[u \ {Pick(u)}]
      BY <1>1, SumEquation
    <3> QED
      BY <2>2, <2>4, <3>1
  <2>5. t \in SUBSET m /\ t # m /\ Pick(m) \in S
    BY <2>2, <2>4, PickProperties
  <2>6. g[t] \in Nat
    <3> HIDE DEF t
    <3>1. t \notin Bad /\ t \in SUBSET S
      BY <2>1, <2>2, <2>5
    <3> QED
      BY <3>1
  <2> HIDE DEF t
  <2> QED
    BY <2>2, <2>5, <2>6, <2>7
<1>3. S \in SUBSET S
  OBVIOUS
<1>4. g[S] \in Nat
  <2> HIDE DEF g
  <2> QED
    BY <1>2, <1>3
<1> QED
  BY <1>4, SumIsChoice

\* Any element may be the one that is added last.
LEMMA SumOfOne ==
    ASSUME NEW f, NEW S, IsFiniteSet(S), \A y \in S : f[y] \in Nat, NEW x \in S
    PROVE  SumFunctionOnSet(f, S) = f[x] + SumFunctionOnSet(f, S \ {x})
<1> DEFINE g == SumIter(f, S)
           Bad == {s \in SUBSET S : \E y \in s : g[s] # f[y] + g[s \ {y}]}
<1>1. IsSum(f, S, g)
  BY SumExists
<1>7. \A u \in SUBSET S : u # {} => g[u] = f[Pick(u)] + g[u \ {Pick(u)}]
  <2> HIDE DEF g, Bad
  <2> QED
    BY <1>1, SumEquation
<1>2. ASSUME NEW s \in SUBSET S PROVE g[s] \in Nat
  <2>1. g[s] = SumFunctionOnSet(f, s)
    BY SumWithin
  <2>2. IsFiniteSet(s) /\ \A y \in s : f[y] \in Nat
    BY FS_Subset
  <2> QED
    BY <2>1, <2>2, SumIsNat
<1>3. ASSUME Bad # {} PROVE FALSE
  <2>1. PICK m \in Bad : \A t \in SUBSET m : t # m => t \notin Bad
    <3>1. Bad \in SUBSET SUBSET S
      OBVIOUS
    <3> HIDE DEF Bad
    <3> QED
      BY <1>3, <3>1, LeastSubset
  <2>2. PICK y \in m : g[m] # f[y] + g[m \ {y}]
    OBVIOUS
  <2>3. m \in SUBSET S /\ m # {}
    BY <2>2
  <2> DEFINE p == Pick(m)
  <2> HIDE DEF g
  <2>4. g[m] = f[p] + g[m \ {p}]
    BY <1>7, <2>3
  <2>11. p \in m
    BY <2>3, PickProperties
  <2> HIDE DEF p
  <2>5. p # y
    BY <2>2, <2>4
  <2>6. \A z \in m, u \in m : z # u => g[m \ {z}] = f[u] + g[(m \ {z}) \ {u}]
    <3> SUFFICES ASSUME NEW z \in m, NEW u \in m, z # u
                 PROVE  g[m \ {z}] = f[u] + g[(m \ {z}) \ {u}]
      OBVIOUS
    <3>1. m \ {z} \in SUBSET m /\ m \ {z} # m /\ u \in m \ {z} /\ m \ {z} \in SUBSET S
      BY <2>3
    <3>2. m \ {z} \notin Bad
      BY <2>1, <3>1
    <3> QED
      BY <3>1, <3>2
  <2> HIDE DEF Bad
  <2>7. g[m \ {p}] = f[y] + g[(m \ {p}) \ {y}] /\ g[m \ {y}] = f[p] + g[(m \ {y}) \ {p}]
    BY <2>5, <2>6, <2>11
  <2>8. (m \ {p}) \ {y} = (m \ {y}) \ {p}
    OBVIOUS
  <2> DEFINE n == g[(m \ {p}) \ {y}]
  <2>9. n \in Nat /\ f[p] \in Nat /\ f[y] \in Nat
    <3>1. (m \ {p}) \ {y} \in SUBSET S /\ p \in S /\ y \in S
      BY <2>3, <2>11
    <3> QED
      BY <1>2, <3>1
  <2>10. g[m] = f[p] + (f[y] + n) /\ g[m \ {y}] = f[p] + n
    BY <2>4, <2>7, <2>8
  <2> HIDE DEF n
  <2> QED
    BY <2>2, <2>9, <2>10
<1>4. S \in SUBSET S /\ S \ {x} \in SUBSET S
  OBVIOUS
<1>5. g[S] = f[x] + g[S \ {x}]
  <2> HIDE DEF g
  <2> QED
    BY <1>3, <1>4
<1>6. g[S] = SumFunctionOnSet(f, S) /\ g[S \ {x}] = SumFunctionOnSet(f, S \ {x})
  BY <1>4, SumWithin
<1> QED
  BY <1>5, <1>6

\* Sums are added element by element.
LEMMA SumOfSums ==
    ASSUME NEW f, NEW g, NEW h, NEW S, IsFiniteSet(S),
           \A x \in S : f[x] \in Nat /\ g[x] \in Nat /\ h[x] = f[x] + g[x]
    PROVE  SumFunctionOnSet(h, S) = SumFunctionOnSet(f, S) + SumFunctionOnSet(g, S)
<1> DEFINE Bad == {s \in SUBSET S :
             SumFunctionOnSet(h, s) # SumFunctionOnSet(f, s) + SumFunctionOnSet(g, s)}
<1>1. ASSUME Bad # {} PROVE FALSE
  <2>1. PICK m \in Bad : \A t \in SUBSET m : t # m => t \notin Bad
    <3>1. Bad \in SUBSET SUBSET S
      OBVIOUS
    <3> HIDE DEF Bad
    <3> QED
      BY <1>1, <3>1, LeastSubset
  <2>2. /\ m \in SUBSET S
        /\ SumFunctionOnSet(h, m) # SumFunctionOnSet(f, m) + SumFunctionOnSet(g, m)
    OBVIOUS
  <2>3. m # {}
    <3>1. /\ SumFunctionOnSet(f, {}) = 0 /\ SumFunctionOnSet(g, {}) = 0
          /\ SumFunctionOnSet(h, {}) = 0
      BY SumOfNone
    <3>2. SumFunctionOnSet(h, {}) = SumFunctionOnSet(f, {}) + SumFunctionOnSet(g, {})
      BY <3>1
    <3> HIDE DEF Bad
    <3> QED
      BY <2>2, <3>2
  <2>4. PICK x \in m : TRUE
    BY <2>3
  <2> DEFINE t == m \ {x}
  <2>5. IsFiniteSet(m) /\ IsFiniteSet(t) /\ t \in SUBSET m /\ t # m /\ t \in SUBSET S
    BY <2>2, <2>4, FS_Subset
  <2> HIDE DEF t
  <2>6. SumFunctionOnSet(h, t) = SumFunctionOnSet(f, t) + SumFunctionOnSet(g, t)
    BY <2>1, <2>5
  <2>7. SumFunctionOnSet(f, t) \in Nat /\ SumFunctionOnSet(g, t) \in Nat
    BY <2>5, SumIsNat
  <2>8. \A y \in m : h[y] \in Nat /\ f[y] \in Nat /\ g[y] \in Nat
    BY <2>2
  <2>9. /\ SumFunctionOnSet(h, m) = h[x] + SumFunctionOnSet(h, t)
        /\ SumFunctionOnSet(f, m) = f[x] + SumFunctionOnSet(f, t)
        /\ SumFunctionOnSet(g, m) = g[x] + SumFunctionOnSet(g, t)
    BY <2>4, <2>5, <2>8, SumOfOne DEF t
  <2>10. h[x] = f[x] + g[x] /\ f[x] \in Nat /\ g[x] \in Nat
    BY <2>2, <2>4
  <2> QED
    BY <2>2, <2>6, <2>7, <2>9, <2>10
<1>2. S \in SUBSET S
  OBVIOUS
<1> QED
  BY <1>1, <1>2

\* A sum is at least the number of its positive elements.
LEMMA SumOfPositives ==
    ASSUME NEW f, NEW S, IsFiniteSet(S), \A x \in S : f[x] \in Nat
    PROVE  Cardinality({x \in S : f[x] > 0}) <= SumFunctionOnSet(f, S)
<1> DEFINE P(s) == {x \in s : f[x] > 0}
           Bad == {s \in SUBSET S : ~(Cardinality(P(s)) <= SumFunctionOnSet(f, s))}
<1>1. ASSUME Bad # {} PROVE FALSE
  <2>1. PICK m \in Bad : \A t \in SUBSET m : t # m => t \notin Bad
    <3>1. Bad \in SUBSET SUBSET S
      OBVIOUS
    <3> HIDE DEF Bad
    <3> QED
      BY <1>1, <3>1, LeastSubset
  <2>2. m \in SUBSET S /\ ~(Cardinality(P(m)) <= SumFunctionOnSet(f, m))
    OBVIOUS
  <2>3. m # {}
    <3>1. P({}) = {} /\ Cardinality({}) = 0
      BY FS_EmptySet
    <3>2. SumFunctionOnSet(f, {}) = 0
      BY SumOfNone
    <3> QED
      BY <2>2, <3>1, <3>2
  <2>4. PICK x \in m : TRUE
    BY <2>3
  <2> DEFINE t == m \ {x}
  <2>5. IsFiniteSet(m) /\ IsFiniteSet(t) /\ t \in SUBSET m /\ t # m /\ t \in SUBSET S
    BY <2>2, <2>4, FS_Subset
  <2> HIDE DEF t
  <2>6. Cardinality(P(t)) <= SumFunctionOnSet(f, t)
    BY <2>1, <2>5
  <2>7. SumFunctionOnSet(f, t) \in Nat
    BY <2>5, SumIsNat
  <2>8. SumFunctionOnSet(f, m) = f[x] + SumFunctionOnSet(f, t)
    <3>1. \A y \in m : f[y] \in Nat
      BY <2>2
    <3> QED
      BY <2>4, <2>5, <3>1, SumOfOne DEF t
  <2>9. P(m) = P(t) \cup (IF f[x] > 0 THEN {x} ELSE {}) /\ x \notin P(t)
    BY <2>4 DEF t
  <2>10. IsFiniteSet(P(t)) /\ Cardinality(P(t)) \in Nat
    BY <2>5, FS_Subset, FS_CardinalityType
  <2>11. f[x] \in Nat
    BY <2>2, <2>4
  <2> HIDE DEF P
  <2>12. CASE f[x] > 0
    <3>1. P(m) = P(t) \cup {x}
      BY <2>9, <2>12
    <3>2. Cardinality(P(m)) = Cardinality(P(t)) + 1
      BY <2>9, <2>10, <3>1, FS_AddElement
    <3> QED
      BY <2>2, <2>6, <2>7, <2>8, <2>10, <2>11, <2>12, <3>2
  <2>13. CASE ~(f[x] > 0)
    <3>1. P(m) = P(t)
      BY <2>9, <2>13
    <3> QED
      BY <2>2, <2>6, <2>7, <2>8, <2>10, <2>11, <2>13, <3>1
  <2> QED
    BY <2>12, <2>13
<1>2. S \in SUBSET S
  OBVIOUS
<1>3. S \notin Bad
  BY <1>1
<1> QED
  BY <1>2, <1>3

\* The maps of the writer.
LEMMA SumFunctionIs ==
    ASSUME NEW f \in [Query -> Nat]
    PROVE  SumFunction(f) = SumFunctionOnSet(f, Query)
BY DEF SumFunction

LEMMA MapSums ==
    ASSUME IsFiniteSet(Query), NEW f \in [Query -> Nat]
    PROVE  /\ SumFunction(f) \in Nat
           /\ Cardinality(Support(f)) <= SumFunction(f)
           /\ \A g \in [Query -> Nat] : SumFunction(Plus(f, g)) = SumFunction(f) + SumFunction(g)
<1>1. \A q \in Query : f[q] \in Nat
  OBVIOUS
<1>2. SumFunction(f) \in Nat
  BY <1>1, SumFunctionIs, SumIsNat
<1>3. Cardinality(Support(f)) <= SumFunction(f)
  BY <1>1, SumFunctionIs, SumOfPositives DEF Support
<1>4. ASSUME NEW g \in [Query -> Nat]
      PROVE  SumFunction(Plus(f, g)) = SumFunction(f) + SumFunction(g)
  <2> DEFINE h == Plus(f, g)
  <2>1. \A q \in Query : f[q] \in Nat /\ g[q] \in Nat /\ h[q] = f[q] + g[q]
    BY DEF Plus
  <2>2. h \in [Query -> Nat]
    BY DEF Plus
  <2> HIDE DEF h
  <2>3. SumFunctionOnSet(h, Query) = SumFunctionOnSet(f, Query) + SumFunctionOnSet(g, Query)
    BY <2>1, SumOfSums
  <2> QED
    BY <2>2, <2>3, SumFunctionIs DEF h
<1> QED
  BY <1>2, <1>3, <1>4

LEMMA ZeroSum ==
    ASSUME IsFiniteSet(Query)
    PROVE  SumFunction(Zero) = 0
<1>1. Zero \in [Query -> Nat] /\ \A q \in Query : Zero[q] = Zero[q] + Zero[q]
  BY DEF Zero
<1>2. SumFunction(Zero) \in Nat
  BY <1>1, MapSums
<1>3. Plus(Zero, Zero) = Zero
  BY DEF Plus, Zero
<1>4. SumFunction(Zero) = SumFunction(Zero) + SumFunction(Zero)
  BY <1>1, <1>3, MapSums
<1>5. \A n \in Nat : n = n + n => n = 0
  OBVIOUS
<1> QED
  BY <1>2, <1>4, <1>5

LEMMA BumpSum ==
    ASSUME IsFiniteSet(Query), NEW f \in [Query -> Nat], NEW q \in Query
    PROVE  SumFunction(Bump(f, q)) = SumFunction(f) + 1
<1> DEFINE one == [r \in Query |-> IF r = q THEN 1 ELSE 0]
<1>1. one \in [Query -> Nat] /\ one[q] = 1 /\ \A r \in Query \ {q} : one[r] = Zero[r]
  BY DEF Zero
<1>2. Bump(f, q) = Plus(f, one)
  <2>1. Bump(f, q) = [r \in Query |-> Bump(f, q)[r]]
    BY DEF Bump
  <2>2. ASSUME NEW r \in Query PROVE Bump(f, q)[r] = f[r] + one[r]
    <3>1. CASE r = q
      BY <3>1 DEF Bump
    <3>2. CASE r # q
      BY <3>2 DEF Bump
    <3> QED
      BY <3>1, <3>2
  <2> HIDE DEF one
  <2> QED
    BY <2>1, <2>2 DEF Plus
<1> HIDE DEF one
<1>3. SumFunctionOnSet(one, Query \ {q}) = 0
  <2> DEFINE S == Query \ {q}
  <2>1. IsFiniteSet(S) /\ \A r \in S : one[r] = 0
    BY <1>1, FS_Subset DEF Zero
  <2> HIDE DEF S
  <2>2. \A r \in S : one[r] \in Nat /\ one[r] = one[r] + one[r]
    BY <2>1
  <2>3. SumFunctionOnSet(one, S) = SumFunctionOnSet(one, S) + SumFunctionOnSet(one, S)
    BY <2>1, <2>2, SumOfSums
  <2>4. SumFunctionOnSet(one, S) \in Nat
    BY <2>1, <2>2, SumIsNat
  <2>5. \A n \in Nat : n = n + n => n = 0
    OBVIOUS
  <2>6. SumFunctionOnSet(one, S) = 0
    BY <2>3, <2>4, <2>5
  <2> QED
    BY <2>6 DEF S
<1>4. \A r \in Query : one[r] \in Nat
  BY <1>1
<1>5. SumFunctionOnSet(one, Query) = one[q] + SumFunctionOnSet(one, Query \ {q})
  BY <1>4, SumOfOne
<1>6. SumFunction(one) = 1
  BY <1>1, <1>3, <1>5, SumFunctionIs
<1> QED
  BY <1>1, <1>2, <1>6, MapSums

-----------------------------------------------------------------------------
(* Exactly once.  Together with the types the property is inductive: every *)
(* step moves searches from one of the four places to the next.            *)

\* What a receive does to the buffer and to the searches accepted: the query
\* at the head leaves, and a parked sender's query enters and is accepted.
LEMMA DequeueMoves ==
    ASSUME TypeInv, Dequeue, NEW q \in Query
    PROVE  accepted'[q] - InBuffer(q)'
             = accepted[q] - InBuffer(q) + IF q = Head(events) THEN 1 ELSE 0
<1>1. /\ events \in Seq(Query) /\ events # <<>> /\ sendq \in Seq(Caller)
      /\ arg \in [Caller -> Query] /\ accepted \in [Query -> Nat]
  BY DEF TypeInv, TypeOK, Dequeue
<1>2. Tail(events) \in Seq(Query)
  BY <1>1, HeadTailProperties
<1>3. InBuffer(q) = Cardinality(Positions(events, q))
      /\ InBuffer(q)' = Cardinality(Positions(events', q))
  BY DEF InBuffer, Positions
<1>4. /\ Cardinality(Positions(events, q)) \in Nat
      /\ Cardinality(Positions(Tail(events), q)) \in Nat
      /\ Cardinality(Positions(events, q))
           = Cardinality(Positions(Tail(events), q))
               + IF Head(events) = q THEN 1 ELSE 0
  BY <1>1, <1>2, PositionsFinite, PositionsTail
<1>5. CASE sendq = <<>>
  <2>1. events' = Tail(events) /\ accepted' = accepted
    BY <1>5 DEF Dequeue
  <2> QED
    BY <1>1, <1>3, <1>4, <2>1
<1>6. CASE sendq # <<>>
  <2> DEFINE e == arg[Head(sendq)]
             t == Tail(events)
  <2>1. e \in Query /\ t \in Seq(Query)
    BY <1>1, <1>2, <1>6, HeadTailProperties
  <2>2. events' = Append(t, e) /\ accepted' = Bump(accepted, e)
    BY <1>6 DEF Dequeue
  <2>3. InBuffer(q)' = Cardinality(Positions(Append(t, e), q))
    BY <1>3, <2>2
  <2>4. accepted'[q] = accepted[q] + IF q = e THEN 1 ELSE 0
    <3> HIDE DEF e
    <3> QED
      BY <1>1, <2>1, <2>2, BumpProperties
  <2>5. /\ Cardinality(Positions(t, q)) \in Nat
        /\ Cardinality(Positions(events, q))
             = Cardinality(Positions(t, q)) + IF Head(events) = q THEN 1 ELSE 0
    BY <1>4
  <2>6. Cardinality(Positions(Append(t, e), q))
          = Cardinality(Positions(t, q)) + IF e = q THEN 1 ELSE 0
    <3> HIDE DEF e, t
    <3> QED
      BY <2>1, PositionsAppend
  <2>7. InBuffer(q) = Cardinality(Positions(t, q)) + IF Head(events) = q THEN 1 ELSE 0
    BY <1>3, <2>5
  <2>8. InBuffer(q)' = Cardinality(Positions(t, q)) + IF e = q THEN 1 ELSE 0
    BY <2>3, <2>6
  <2>9. accepted[q] \in Nat /\ Cardinality(Positions(t, q)) \in Nat
    BY <1>1, <2>5
  <2> HIDE DEF e, t
  <2> QED
    BY <2>4, <2>7, <2>8, <2>9
<1> QED
  BY <1>5, <1>6

\* What a send does to them: the query sent enters and is accepted.
LEMMA SendMoves ==
    ASSUME TypeInv, NEW c \in Caller, NEW r \in Query, Send(c, r), NEW q \in Query
    PROVE  accepted'[q] - InBuffer(q)' = accepted[q] - InBuffer(q)
<1>1. /\ events \in Seq(Query) /\ accepted \in [Query -> Nat]
      /\ events' = Append(events, r) /\ accepted' = Bump(accepted, r)
  BY DEF TypeInv, TypeOK, Send
<1>2. InBuffer(q) = Cardinality(Positions(events, q))
      /\ InBuffer(q)' = Cardinality(Positions(events', q))
  BY DEF InBuffer, Positions
<1>3. Cardinality(Positions(events', q))
        = Cardinality(Positions(events, q)) + IF r = q THEN 1 ELSE 0
  BY <1>1, PositionsAppend
<1>4. accepted'[q] = accepted[q] + IF q = r THEN 1 ELSE 0
  BY <1>1, BumpProperties
<1>5. Cardinality(Positions(events, q)) \in Nat
  BY <1>1, PositionsFinite
<1> QED
  BY <1>1, <1>2, <1>3, <1>4, <1>5

\* The searches for q the loop goroutine has taken, and those it has still to
\* take: ExactlyOnce equates the two.
Taken(q) == applied[q] + InFlight(q) + pending[q]
Sent(q) == accepted[q] - InBuffer(q)

PlacesAreNumbers ==
    \A q \in Query :
        /\ accepted[q] \in Nat /\ InBuffer(q) \in Nat /\ applied[q] \in Nat
        /\ InFlight(q) \in Nat /\ pending[q] \in Nat /\ batch[q] \in Nat

LEMMA PlacesTypes == TypeInv => PlacesAreNumbers
<1> SUFFICES ASSUME TypeInv, NEW q \in Query
             PROVE  /\ accepted[q] \in Nat /\ InBuffer(q) \in Nat
                    /\ applied[q] \in Nat /\ InFlight(q) \in Nat
                    /\ pending[q] \in Nat /\ batch[q] \in Nat
  BY DEF PlacesAreNumbers
<1>1. InBuffer(q) \in Nat
  BY PositionsFinite DEF TypeInv, TypeOK, InBuffer, Positions
<1> QED
  BY <1>1 DEF TypeInv, TypeOK, InFlight

\* Handing a non-empty map to the callback moves it as a whole.
LEMMA FlushMoves ==
    ASSUME TypeInv, NEW p \in [Query -> Nat], NEW back, StartFlush(p, back),
           applied' = applied, loop # "apply", NEW q \in Query
    PROVE  Taken(q)' = applied[q] + p[q]
BY DEF StartFlush, Taken, InFlight, Zero, TypeInv, TypeOK

LEMMA TakenStep ==
    ASSUME TypeInv, [Next]_vars, NEW q \in Query
    PROVE  Taken(q)' - Taken(q) = Sent(q)' - Sent(q)
<1> USE DEF Taken, Sent
<1>0. /\ accepted[q] \in Nat /\ InBuffer(q) \in Nat /\ applied[q] \in Nat
      /\ InFlight(q) \in Nat /\ pending[q] \in Nat /\ batch[q] \in Nat
      /\ accepted'[q] \in Nat /\ InBuffer(q)' \in Nat /\ applied'[q] \in Nat
      /\ InFlight(q)' \in Nat /\ pending'[q] \in Nat /\ batch'[q] \in Nat
  <2>1. TypeInv'
    BY TypeStep
  <2>2. PlacesAreNumbers /\ PlacesAreNumbers'
    BY <2>1, PlacesTypes, PTL
  <2> QED
    BY <2>2 DEF PlacesAreNumbers
<1>1. ASSUME UNCHANGED loopVars, Sent(q)' = Sent(q)
      PROVE  Taken(q)' - Taken(q) = Sent(q)' - Sent(q)
  BY <1>0, <1>1 DEF loopVars, InFlight
<1>2. ASSUME NEW c \in Caller, NEW r \in Query, Submit(c, r)
      PROVE  UNCHANGED loopVars /\ Sent(q)' = Sent(q)
  <2>1. CASE Send(c, r)
    BY <1>2, <2>1, SendMoves DEF Submit
  <2>2. CASE UNCHANGED channelVars
    BY <1>2, <2>2 DEF Submit, channelVars, InBuffer
  <2> QED
    BY <1>2, <2>1, <2>2 DEF Submit
<1>3. ASSUME NEW c \in Caller, Offer(c)
      PROVE  UNCHANGED loopVars /\ Sent(q)' = Sent(q)
  <2>1. CASE Send(c, arg[c])
    <3>1. arg[c] \in Query
      BY DEF TypeInv, TypeOK
    <3> QED
      BY <1>3, <2>1, <3>1, SendMoves DEF Offer
  <2>2. CASE UNCHANGED <<events, accepted>>
    BY <1>3, <2>2 DEF Offer, InBuffer
  <2> QED
    BY <1>3, <2>1, <2>2 DEF Offer
<1>4. ASSUME NEW c \in Caller, TimeOut(c) \/ CountReceived(c)
      PROVE  UNCHANGED loopVars /\ Sent(q)' = Sent(q)
  BY <1>4 DEF TimeOut, CountReceived, channelVars, InBuffer
<1>5. ASSUME UNCHANGED channelVars PROVE Sent(q)' = Sent(q)
  BY <1>5 DEF channelVars, InBuffer
<1>6. CASE LoopReceive
  <2> DEFINE p == Bump(pending, Head(events))
  <2>1. /\ Dequeue /\ applied' = applied /\ loop = "select"
    BY <1>6 DEF LoopReceive
  <2>2. /\ p \in [Query -> Nat]
        /\ p[q] = pending[q] + IF q = Head(events) THEN 1 ELSE 0
    BY <2>1, DequeueTypes, BumpProperties DEF TypeInv, TypeOK
  <2>3. \/ StartFlush(p, "select")
        \/ pending' = p /\ UNCHANGED <<loop, batch>>
    BY <1>6 DEF LoopReceive
  <2> HIDE DEF p
  <2>4. Taken(q)' = applied[q] + p[q]
    BY <1>0, <2>1, <2>2, <2>3, FlushMoves DEF InFlight
  <2>5. Taken(q) = applied[q] + pending[q]
    BY <1>0, <2>1 DEF InFlight
  <2>6. Sent(q)' = Sent(q) + IF q = Head(events) THEN 1 ELSE 0
    BY <2>1, DequeueMoves
  <2> QED
    BY <1>0, <2>2, <2>4, <2>5, <2>6
<1>7. CASE DrainReceive
  <2>1. /\ Dequeue /\ UNCHANGED <<loop, batch, applied>>
        /\ pending' = Bump(pending, Head(events))
    BY <1>7 DEF DrainReceive
  <2>2. pending'[q] = pending[q] + IF q = Head(events) THEN 1 ELSE 0
    BY <2>1, DequeueTypes, BumpProperties DEF TypeInv, TypeOK
  <2>3. Sent(q)' = Sent(q) + IF q = Head(events) THEN 1 ELSE 0
    BY <2>1, DequeueMoves
  <2>4. Taken(q)' = Taken(q) + IF q = Head(events) THEN 1 ELSE 0
    BY <1>0, <2>1, <2>2 DEF InFlight
  <2> QED
    BY <1>0, <2>3, <2>4
<1>8. CASE LoopTick \/ DrainEmpty
  <2>1. /\ UNCHANGED channelVars /\ applied' = applied /\ loop # "apply"
        /\ \/ \E back \in {"select", "exited"} : StartFlush(pending, back)
           \/ loop' = "exited" /\ UNCHANGED <<pending, batch>>
    BY <1>8 DEF LoopTick, DrainEmpty
  <2>2. Taken(q)' = applied[q] + pending[q]
    <3>1. pending \in [Query -> Nat]
      BY DEF TypeInv, TypeOK
    <3>2. CASE \E back \in {"select", "exited"} : StartFlush(pending, back)
      BY <2>1, <3>1, <3>2, FlushMoves
    <3>3. CASE loop' = "exited" /\ UNCHANGED <<pending, batch>>
      BY <1>0, <2>1, <3>3 DEF InFlight
    <3> QED
      BY <2>1, <3>2, <3>3
  <2>3. Taken(q) = applied[q] + pending[q]
    BY <1>0, <2>1 DEF InFlight
  <2> QED
    BY <1>0, <1>5, <2>1, <2>2, <2>3
<1>9. CASE ApplyReturns
  <2>1. /\ UNCHANGED channelVars /\ pending' = pending
        /\ loop = "apply" /\ loop' = "count"
        /\ applied'[q] = applied[q] + batch[q]
    BY <1>9 DEF ApplyReturns, Plus
  <2>2. Taken(q)' = Taken(q)
    BY <1>0, <2>1 DEF InFlight
  <2> QED
    BY <1>0, <1>5, <2>1, <2>2
<1>10. CASE LoopQuit \/ CountFlush
  <2>1. /\ UNCHANGED <<channelVars, pending, applied>>
        /\ loop # "apply" /\ loop' # "apply"
    BY <1>10 DEF LoopQuit, CountFlush, TypeInv, TypeOK
  <2> QED
    BY <1>0, <1>5, <2>1 DEF InFlight
<1>11. CASE Stop \/ UNCHANGED vars
  <2>1. UNCHANGED <<channelVars, loopVars>>
    BY <1>11 DEF Stop, vars
  <2> QED
    BY <1>1, <1>5, <2>1
<1> QED
  BY <1>1, <1>2, <1>3, <1>4, <1>6, <1>7, <1>8, <1>9, <1>10, <1>11
  DEF Next, CallerStep, LoopStep

\* No interleaving of callers, flushes and shutdown loses an accepted search
\* or counts one twice.
THEOREM ExactlyOnceHolds == Spec => []ExactlyOnce
<1>1. Init => ExactlyOnce
  <2> SUFFICES ASSUME Init, NEW q \in Query
               PROVE  accepted[q] = applied[q] + InFlight(q) + pending[q] + InBuffer(q)
    BY DEF ExactlyOnce
  <2>1. InBuffer(q) = 0
    BY FS_EmptySet DEF Init, InBuffer
  <2> QED
    BY <2>1 DEF Init, Zero, InFlight
<1>2. TypeInv /\ TypeInv' /\ ExactlyOnce /\ [Next]_vars => ExactlyOnce'
  <2> SUFFICES ASSUME TypeInv, TypeInv', ExactlyOnce, [Next]_vars, NEW q \in Query
               PROVE  (accepted[q] = applied[q] + InFlight(q) + pending[q] + InBuffer(q))'
    BY DEF ExactlyOnce
  <2>0. PlacesAreNumbers /\ PlacesAreNumbers'
    BY PlacesTypes, PTL
  <2>1. Taken(q) = Sent(q)
    BY <2>0 DEF ExactlyOnce, Taken, Sent, PlacesAreNumbers
  <2>2. Taken(q)' - Taken(q) = Sent(q)' - Sent(q)
    BY TakenStep
  <2> QED
    BY <2>0, <2>1, <2>2 DEF Taken, Sent, PlacesAreNumbers
<1> QED
  BY <1>1, <1>2, TypeInit, TypeStep, PTL DEF Spec

-----------------------------------------------------------------------------
(* Calls accounted for.  A parked caller may be woken by the loop or time   *)
(* out; that only one of the two happens, once, rests on the queue of       *)
(* parked callers having each of them once.                                 *)

QueueOK ==
    /\ \A i, j \in DOMAIN sendq : sendq[i] = sendq[j] => i = j
    /\ \A i \in DOMAIN sendq : pc[sendq[i]] = "parked"

Busy == {c \in Caller : pc[c] # "idle"}

\* What a receive does to the callers: at most the oldest parked one is woken.
LEMMA DequeueWakes ==
    ASSUME TypeInv, QueueOK, Dequeue
    PROVE  QueueOK' /\ Busy' = Busy
<1>1. /\ sendq \in Seq(Caller) /\ pc \in [Caller -> CallerState]
      /\ DOMAIN sendq = 1 .. Len(sendq) /\ Len(sendq) \in Nat
  BY LenProperties DEF TypeInv, TypeOK
<1>2. CASE sendq = <<>>
  <2>1. UNCHANGED <<sendq, pc>>
    BY <1>2 DEF Dequeue
  <2> QED
    BY <2>1 DEF QueueOK, Busy
<1>3. CASE sendq # <<>>
  <2>1. sendq' = Tail(sendq) /\ pc' = [pc EXCEPT ![Head(sendq)] = "sent"]
    BY <1>3 DEF Dequeue
  <2>2. /\ Len(sendq) >= 1 /\ Head(sendq) = sendq[1] /\ Head(sendq) \in Caller
        /\ sendq' \in Seq(Caller) /\ Len(sendq') = Len(sendq) - 1
        /\ DOMAIN sendq' = 1 .. Len(sendq')
        /\ \A i \in 1 .. Len(sendq') : sendq'[i] = sendq[i + 1]
    BY <1>1, <1>3, <2>1, HeadTailProperties, LenProperties, EmptySeq
  <2>3. pc[Head(sendq)] = "parked"
    BY <1>1, <2>2 DEF QueueOK
  <2>4. Busy' = Busy
    BY <1>1, <2>1, <2>2, <2>3 DEF Busy
  <2>5. ASSUME NEW i \in DOMAIN sendq', NEW j \in DOMAIN sendq',
               sendq'[i] = sendq'[j]
        PROVE  i = j
    <3>1. /\ i + 1 \in DOMAIN sendq /\ j + 1 \in DOMAIN sendq
          /\ sendq[i + 1] = sendq[j + 1]
      BY <1>1, <2>2, <2>5
    <3>2. i + 1 = j + 1
      BY <3>1 DEF QueueOK
    <3> QED
      BY <1>1, <2>2, <3>2
  <2>6. ASSUME NEW i \in DOMAIN sendq' PROVE pc'[sendq'[i]] = "parked"
    <3>1. /\ i + 1 \in DOMAIN sendq /\ 1 \in DOMAIN sendq /\ i + 1 # 1
          /\ sendq'[i] = sendq[i + 1] /\ sendq[i + 1] \in Caller
      BY <1>1, <2>2
    <3>2. sendq[i + 1] # sendq[1] /\ pc[sendq[i + 1]] = "parked"
      BY <3>1 DEF QueueOK
    <3> QED
      BY <1>1, <2>1, <2>2, <3>1, <3>2
  <2> QED
    BY <2>4, <2>5, <2>6 DEF QueueOK
<1> QED
  BY <1>2, <1>3

\* A caller that is not parked may move on without disturbing the queue.
LEMMA QueueUndisturbed ==
    ASSUME TypeInv, QueueOK, NEW c \in Caller, pc[c] # "parked",
           NEW v, pc' = [pc EXCEPT ![c] = v], sendq' = sendq
    PROVE  QueueOK'
<1>1. /\ sendq \in Seq(Caller) /\ pc \in [Caller -> CallerState]
      /\ DOMAIN sendq = 1 .. Len(sendq)
      /\ \A i \in DOMAIN sendq : sendq[i] \in Caller
  BY LenProperties DEF TypeInv, TypeOK
<1> QED
  BY <1>1 DEF QueueOK

LEMMA QueueStep == TypeInv /\ QueueOK /\ [Next]_vars => QueueOK'
<1> SUFFICES ASSUME TypeInv, QueueOK, [Next]_vars PROVE QueueOK'
  OBVIOUS
<1>0. /\ sendq \in Seq(Caller) /\ pc \in [Caller -> CallerState]
      /\ DOMAIN sendq = 1 .. Len(sendq) /\ Len(sendq) \in Nat
      /\ \A i \in DOMAIN sendq : sendq[i] \in Caller
  BY LenProperties DEF TypeInv, TypeOK
<1>1. ASSUME NEW c \in Caller, NEW q \in Query, Submit(c, q) PROVE QueueOK'
  <2>1. pc[c] # "parked" /\ sendq' = sendq
    BY <1>1 DEF Submit, Send, channelVars
  <2>2. pc' = [pc EXCEPT ![c] = "sent"] \/ pc' = [pc EXCEPT ![c] = "full"]
    BY <1>1 DEF Submit, Send
  <2> QED
    BY <2>1, <2>2, QueueUndisturbed
<1>2. ASSUME NEW c \in Caller, Offer(c) PROVE QueueOK'
  <2>1. CASE Send(c, arg[c])
    <3>1. pc[c] # "parked" /\ sendq' = sendq /\ pc' = [pc EXCEPT ![c] = "sent"]
      BY <1>2, <2>1 DEF Offer, Send
    <3> QED
      BY <3>1, QueueUndisturbed
  <2>2. CASE sendq' = Append(sendq, c) /\ pc' = [pc EXCEPT ![c] = "parked"]
    <3>1. \A i \in DOMAIN sendq : sendq[i] # c
      BY <1>2 DEF Offer, QueueOK
    <3>2. /\ DOMAIN sendq' = 1 .. Len(sendq) + 1
          /\ sendq'[Len(sendq) + 1] = c
          /\ \A i \in 1 .. Len(sendq) : sendq'[i] = sendq[i]
      BY <1>0, <2>2, AppendProperties, LenProperties
    <3>3. ASSUME NEW i \in DOMAIN sendq' PROVE pc'[sendq'[i]] = "parked"
      BY <1>0, <2>2, <3>2 DEF QueueOK
    <3>4. ASSUME NEW i \in DOMAIN sendq', NEW j \in DOMAIN sendq',
                 sendq'[i] = sendq'[j]
          PROVE  i = j
      BY <1>0, <3>1, <3>2, <3>4 DEF QueueOK
    <3> QED
      BY <3>3, <3>4 DEF QueueOK
  <2> QED
    BY <1>2, <2>1, <2>2 DEF Offer
<1>3. ASSUME NEW c \in Caller, TimeOut(c) PROVE QueueOK'
  <2>1. PICK k \in 1 .. Len(sendq) : sendq[k] = c /\ sendq' = RemoveAt(sendq, k)
    BY <1>0, <1>3 DEF TimeOut
  <2>2. pc' = [pc EXCEPT ![c] = "idle"]
    BY <1>3 DEF TimeOut
  <2>3. /\ sendq' \in Seq(Caller) /\ Len(sendq') = Len(sendq) - 1
        /\ \A i \in 1 .. Len(sendq) - 1 :
             sendq'[i] = IF i < k THEN sendq[i] ELSE sendq[i + 1]
    BY <1>0, <2>1, RemoveAtProperties
  <2>4. DOMAIN sendq' = 1 .. Len(sendq) - 1
    BY <2>3, LenProperties
  <2> DEFINE old(i) == IF i < k THEN i ELSE i + 1
  <2>5. ASSUME NEW i \in DOMAIN sendq'
        PROVE  old(i) \in DOMAIN sendq /\ old(i) # k /\ sendq'[i] = sendq[old(i)]
    BY <1>0, <2>1, <2>3, <2>4
  <2>6. \A i, j \in DOMAIN sendq' : old(i) = old(j) => i = j
    BY <1>0, <2>1, <2>4
  <2> HIDE DEF old
  <2>7. \A i \in DOMAIN sendq' : pc'[sendq'[i]] = "parked"
    BY <1>0, <2>1, <2>2, <2>5 DEF QueueOK
  <2>8. \A i, j \in DOMAIN sendq' : sendq'[i] = sendq'[j] => i = j
    BY <2>5, <2>6 DEF QueueOK
  <2> QED
    BY <2>7, <2>8 DEF QueueOK
<1>4. ASSUME NEW c \in Caller, CountReceived(c) PROVE QueueOK'
  <2>1. pc[c] # "parked" /\ sendq' = sendq /\ pc' = [pc EXCEPT ![c] = "idle"]
    BY <1>4 DEF CountReceived, channelVars
  <2> QED
    BY <2>1, QueueUndisturbed
<1>5. CASE LoopReceive \/ DrainReceive
  BY <1>5, DequeueWakes DEF LoopReceive, DrainReceive
<1>6. CASE UNCHANGED <<sendq, pc>>
  BY <1>6 DEF QueueOK
<1> QED
  BY <1>1, <1>2, <1>3, <1>4, <1>5, <1>6
  DEF Next, CallerStep, LoopStep, LoopTick, LoopQuit, DrainEmpty, ApplyReturns,
      CountFlush, Stop, vars, callerVars, channelVars

\* How a caller's entry into Submit, and its return, change the number inside.
LEMMA BusyProperties ==
    ASSUME TypeInv
    PROVE  /\ IsFiniteSet(Busy) /\ Cardinality(Busy) \in Nat
           /\ \A c \in Caller \ Busy :
                Cardinality(Busy \cup {c}) = Cardinality(Busy) + 1
           /\ \A c \in Busy : Cardinality(Busy \ {c}) = Cardinality(Busy) - 1
<1>1. IsFiniteSet(Busy)
  BY WriterAssumption, FS_Subset DEF Busy
<1> QED
  BY <1>1, FS_CardinalityType, FS_AddElement, FS_RemoveElement

LEMMA CallsStep ==
    TypeInv /\ QueueOK /\ CallsAccounted /\ [Next]_vars => CallsAccounted'
<1> SUFFICES ASSUME TypeInv, QueueOK, [Next]_vars,
                    submitted = received + dropped + Cardinality(Busy)
             PROVE  submitted' = received' + dropped' + Cardinality(Busy')
  BY DEF CallsAccounted, Busy
<1>0. /\ pc \in [Caller -> CallerState] /\ Cardinality(Busy) \in Nat
      /\ submitted \in Nat /\ received \in Nat /\ dropped \in Nat
  BY BusyProperties DEF TypeInv, TypeOK
<1> DEFINE Counted == submitted' = received' + dropped' + Cardinality(Busy')
<1>1. ASSUME NEW c \in Caller, NEW q \in Query, Submit(c, q) PROVE Counted
  <2>1. /\ submitted' = submitted + 1 /\ UNCHANGED <<received, dropped>>
        /\ pc[c] = "idle"
        /\ pc' = [pc EXCEPT ![c] = "sent"] \/ pc' = [pc EXCEPT ![c] = "full"]
    BY <1>1 DEF Submit, Send
  <2>2. c \notin Busy /\ Busy' = Busy \cup {c}
    BY <1>0, <2>1 DEF Busy
  <2>3. Cardinality(Busy') = Cardinality(Busy) + 1
    BY <2>2, BusyProperties
  <2> QED
    BY <1>0, <2>1, <2>3
<1>2. ASSUME NEW c \in Caller, Offer(c) PROVE Counted
  <2>1. /\ UNCHANGED <<submitted, received, dropped>>
        /\ pc[c] = "full"
        /\ pc' = [pc EXCEPT ![c] = "sent"] \/ pc' = [pc EXCEPT ![c] = "parked"]
    BY <1>2 DEF Offer, Send
  <2>2. Busy' = Busy
    BY <1>0, <2>1 DEF Busy
  <2> QED
    BY <2>1, <2>2
<1>3. ASSUME NEW c \in Caller, TimeOut(c) \/ CountReceived(c) PROVE Counted
  <2>1. /\ submitted' = submitted
        /\ \/ dropped' = dropped + 1 /\ received' = received
           \/ received' = received + 1 /\ dropped' = dropped
        /\ pc[c] # "idle" /\ pc' = [pc EXCEPT ![c] = "idle"]
    BY <1>3 DEF TimeOut, CountReceived
  <2>2. c \in Busy /\ Busy' = Busy \ {c}
    BY <1>0, <2>1 DEF Busy
  <2>3. Cardinality(Busy') = Cardinality(Busy) - 1
    BY <2>2, BusyProperties
  <2> QED
    BY <1>0, <2>1, <2>3
<1>4. CASE LoopReceive \/ DrainReceive
  <2>1. Dequeue /\ UNCHANGED <<submitted, received, dropped>>
    BY <1>4 DEF LoopReceive, DrainReceive, Dequeue
  <2>2. Busy' = Busy
    BY <2>1, DequeueWakes
  <2> QED
    BY <2>1, <2>2
<1>5. CASE UNCHANGED callerVars
  <2>1. Busy' = Busy
    BY <1>5 DEF callerVars, Busy
  <2> QED
    BY <1>5, <2>1 DEF callerVars
<1> QED
  BY <1>1, <1>2, <1>3, <1>4, <1>5
  DEF Next, CallerStep, LoopStep, LoopTick, LoopQuit, DrainEmpty, ApplyReturns,
      CountFlush, Stop, vars

\* received and dropped account for every call of Submit that has returned,
\* each once: a caller woken by the loop cannot time out as well.
THEOREM CallsAccountedHolds == Spec => []CallsAccounted
<1>1. Init => QueueOK /\ CallsAccounted
  <2> SUFFICES ASSUME Init PROVE QueueOK /\ CallsAccounted
    OBVIOUS
  <2>1. {c \in Caller : pc[c] # "idle"} = {}
    BY DEF Init
  <2>2. QueueOK
    BY DEF Init, QueueOK
  <2> QED
    BY <2>1, <2>2, FS_EmptySet DEF Init, CallsAccounted
<1> QED
  BY <1>1, TypeInit, TypeStep, QueueStep, CallsStep, PTL DEF Spec

-----------------------------------------------------------------------------
(* Nothing stranded.  Once the final flush has begun, the loop's map stays *)
(* empty: the flush returns to the loop's exit and not to its select.      *)

FinalFlushOK ==
    /\ loop = "exited" => pending = Zero
    /\ loop \in {"apply", "count"} /\ resume = "exited" => pending = Zero

LEMMA FinalFlushStep == TypeInv /\ FinalFlushOK /\ [Next]_vars => FinalFlushOK'
<1> SUFFICES ASSUME TypeInv, FinalFlushOK, [Next]_vars PROVE FinalFlushOK'
  OBVIOUS
<1> USE DEF FinalFlushOK
<1>1. CASE LoopReceive
  BY <1>1 DEF LoopReceive, StartFlush
<1>2. CASE LoopTick
  BY <1>2 DEF LoopTick, StartFlush
<1>3. CASE LoopQuit \/ DrainReceive
  BY <1>3 DEF LoopQuit, DrainReceive
<1>4. CASE DrainEmpty
  <2>1. CASE StartFlush(pending, "exited")
    BY <2>1 DEF StartFlush
  <2>2. CASE /\ Support(pending) = {} /\ loop' = "exited"
             /\ UNCHANGED <<resume, pending>>
    <3>1. pending \in [Query -> Nat]
      BY DEF TypeInv, TypeOK
    <3>2. pending = Zero
      BY <2>2, <3>1 DEF Support, Zero
    <3> QED
      BY <2>2, <3>2 DEF Zero
  <2> QED
    BY <1>4, <2>1, <2>2 DEF DrainEmpty
<1>5. CASE ApplyReturns
  BY <1>5 DEF ApplyReturns, Zero
<1>6. CASE CountFlush
  <2>1. resume \in {"select", "exited"}
    BY DEF TypeInv, TypeOK
  <2> QED
    BY <1>6, <2>1 DEF CountFlush, Zero
<1>7. CASE UNCHANGED loopVars
  BY <1>7 DEF loopVars, Zero
<1> QED
  BY <1>1, <1>2, <1>3, <1>4, <1>5, <1>6, <1>7
  DEF Next, CallerStep, LoopStep, Submit, Offer, TimeOut, CountReceived, Stop, vars

\* When the loop has returned, its map is empty and no batch is in flight:
\* only searches sent too late for the drain are not applied.
THEOREM NothingStrandedHolds == Spec => []NothingStranded
<1>1. Init => FinalFlushOK
  BY DEF Init, FinalFlushOK
<1>2. FinalFlushOK /\ ExactlyOnce /\ TypeInv => NothingStranded
  <2> SUFFICES ASSUME FinalFlushOK, ExactlyOnce, TypeInv, loop = "exited",
                      NEW q \in Query
               PROVE  accepted[q] = applied[q] + InBuffer(q)
    BY DEF NothingStranded
  <2>1. pending[q] = 0 /\ InFlight(q) = 0
    BY DEF FinalFlushOK, Zero, InFlight
  <2>2. applied[q] \in Nat /\ InBuffer(q) \in Nat
    BY PlacesTypes DEF PlacesAreNumbers
  <2> QED
    BY <2>1, <2>2 DEF ExactlyOnce
<1>3. Spec => []TypeInv
  BY TypeInit, TypeStep, PTL DEF Spec
<1> QED
  BY <1>1, <1>2, <1>3, FinalFlushStep, ExactlyOnceHolds, PTL DEF Spec

-----------------------------------------------------------------------------
(* The unflushed tail, and what a flush counts.                            *)

\* total counts the loop's map, and what is being flushed is not more than
\* a batch, unless it was drained.
CountedOK ==
    /\ loop = "select" => total = SumFunction(pending) /\ total < BatchSize
    /\ loop \in {"apply", "count"} /\ resume = "select" =>
         /\ total = 0 /\ pending = Zero
         /\ SumFunction(batch) <= BatchSize

LEMMA CountedStep ==
    ASSUME IsFiniteSet(Query)
    PROVE  TypeInv /\ CountedOK /\ [Next]_vars => CountedOK'
<1> SUFFICES ASSUME TypeInv, CountedOK, [Next]_vars PROVE CountedOK'
  OBVIOUS
<1>0. /\ pending \in [Query -> Nat] /\ batch \in [Query -> Nat] /\ total \in Nat
      /\ resume \in {"select", "exited"}
  BY DEF TypeInv, TypeOK
<1>1. CASE LoopReceive
  <2> DEFINE p == Bump(pending, Head(events))
  <2>1. loop = "select" /\ Head(events) \in Query
    BY <1>1, DequeueTypes DEF LoopReceive
  <2>2. SumFunction(p) = total + 1 /\ total < BatchSize
    BY <1>0, <2>1, BumpSum DEF CountedOK
  <2>3. \/ StartFlush(p, "select")
        \/ /\ ~SizeReached(total + 1) /\ pending' = p /\ total' = total + 1
           /\ UNCHANGED <<loop, resume, batch>>
    BY <1>1 DEF LoopReceive
  <2> HIDE DEF p
  <2>4. CASE StartFlush(p, "select")
    <3>1. /\ loop' = "apply" /\ batch' = p /\ total' = 0 /\ pending' = Zero /\ Zero' = Zero
      BY <2>4 DEF StartFlush, Zero
    <3>2. SumFunction(p) <= BatchSize
      BY <1>0, <2>2, WriterAssumption
    <3> QED
      BY <3>1, <3>2 DEF CountedOK
  <2>5. CASE /\ ~SizeReached(total + 1) /\ pending' = p /\ total' = total + 1
             /\ UNCHANGED <<loop, resume, batch>>
    <3>1. total + 1 < BatchSize
      BY <1>0, <2>5, WriterAssumption DEF SizeReached
    <3>2. total' = SumFunction(pending') /\ total' < BatchSize /\ loop' = "select"
      BY <2>1, <2>2, <2>5, <3>1
    <3> QED
      BY <3>2 DEF CountedOK
  <2> QED
    BY <2>3, <2>4, <2>5
<1>2. CASE LoopTick
  <2>1. /\ loop = "select" /\ loop' = "apply" /\ batch' = pending /\ total' = 0
        /\ pending' = Zero /\ Zero' = Zero
    BY <1>2 DEF LoopTick, StartFlush, Zero
  <2>2. SumFunction(pending) <= BatchSize
    BY <1>0, <2>1, WriterAssumption DEF CountedOK
  <2> QED
    BY <2>1, <2>2 DEF CountedOK
<1>3. CASE LoopQuit \/ DrainReceive
  BY <1>3 DEF LoopQuit, DrainReceive, CountedOK
<1>4. CASE DrainEmpty
  BY <1>4 DEF DrainEmpty, StartFlush, CountedOK
<1>5. CASE ApplyReturns
  BY <1>5 DEF ApplyReturns, CountedOK, Zero
<1>6. CASE CountFlush
  <2>1. CASE resume = "select"
    <3>1. /\ loop' = "select" /\ total' = 0 /\ pending' = Zero
      BY <1>6, <2>1 DEF CountFlush, CountedOK
    <3>2. SumFunction(Zero) = 0 /\ 0 < BatchSize
      BY ZeroSum, WriterAssumption
    <3> QED
      BY <3>1, <3>2 DEF CountedOK
  <2>2. CASE resume # "select"
    BY <1>0, <1>6, <2>2 DEF CountFlush, CountedOK
  <2> QED
    BY <2>1, <2>2
<1>7. CASE UNCHANGED loopVars
  BY <1>7 DEF loopVars, CountedOK, Zero
<1> QED
  BY <1>1, <1>2, <1>3, <1>4, <1>5, <1>6, <1>7
  DEF Next, CallerStep, LoopStep, Submit, Offer, TimeOut, CountReceived, Stop, vars

\* Until the drain for shutdown the writer holds at most a buffer and a batch
\* of searches: a batch that a callback has still to apply has left nothing in
\* the loop's map, and nothing is received meanwhile.
THEOREM HeldStaysBounded ==
    ASSUME IsFiniteSet(Query)
    PROVE  Spec => []HeldBounded
<1>1. Init => CountedOK
  BY ZeroSum, WriterAssumption DEF Init, CountedOK
<1>2. TypeInv /\ CountedOK /\ [Next]_vars => CountedOK'
  BY CountedStep
<1>3. TypeInv /\ CountedOK => HeldBounded
  <2> SUFFICES ASSUME TypeInv, CountedOK,
                      loop \in {"select", "apply", "count"}, resume = "select"
               PROVE  Held <= BufCap + BatchSize
    BY DEF HeldBounded
  <2>1. /\ Len(events) \in Nat /\ Len(events) <= BufCap
        /\ pending \in [Query -> Nat] /\ batch \in [Query -> Nat] /\ total \in Nat
    BY LenProperties DEF TypeInv, TypeOK
  <2>2. SumFunction(pending) \in Nat /\ SumFunction(batch) \in Nat
    BY <2>1, MapSums
  <2>3. CASE loop = "select"
    <3>1. SumFunction(pending) < BatchSize
      BY <2>3 DEF CountedOK
    <3>2. Held = SumFunction(pending) + Len(events) + 0
      BY <2>3 DEF Held
    <3> QED
      BY <2>1, <2>2, <3>1, <3>2, WriterAssumption
  <2>4. CASE loop \in {"apply", "count"}
    <3>1. SumFunction(pending) = 0 /\ SumFunction(batch) <= BatchSize
      BY <2>4, ZeroSum DEF CountedOK
    <3>2. \/ Held = SumFunction(pending) + Len(events) + SumFunction(batch)
          \/ Held = SumFunction(pending) + Len(events) + 0
      BY DEF Held
    <3> QED
      BY <2>1, <2>2, <3>1, <3>2, WriterAssumption
  <2> QED
    BY <2>3, <2>4
<1> QED
  BY <1>1, <1>2, <1>3, TypeInit, TypeStep, PTL DEF Spec

\* The rows of the batch that has been applied are still to be counted, and
\* no flush is empty.
RowsOK ==
    /\ flushes <= upserts /\ upserts <= SumFunction(applied)
    /\ loop \in {"apply", "count"} => Support(batch) # {}
    /\ loop = "count" => upserts + Cardinality(Support(batch)) <= SumFunction(applied)

LEMMA SomeElements ==
    ASSUME NEW S, IsFiniteSet(S), S # {}
    PROVE  /\ Cardinality(S) \in Nat
           /\ Cardinality(S) # 0
  BY FS_CardinalityType, FS_EmptySet

LEMMA RowsStep ==
    ASSUME IsFiniteSet(Query)
    PROVE  TypeInv /\ RowsOK /\ [Next]_vars => RowsOK'
<1> SUFFICES ASSUME TypeInv, RowsOK, [Next]_vars PROVE RowsOK'
  OBVIOUS
<1>0. /\ pending \in [Query -> Nat] /\ batch \in [Query -> Nat] /\ applied \in [Query -> Nat]
      /\ upserts \in Nat /\ flushes \in Nat /\ resume \in {"select", "exited"}
  BY DEF TypeInv, TypeOK
<1>1. ASSUME NEW p, NEW back, StartFlush(p, back), Support(p) # {},
             UNCHANGED <<upserts, flushes, applied>>
      PROVE  RowsOK'
  <2>1. loop' = "apply" /\ batch' = p
    BY <1>1 DEF StartFlush
  <2>2. Support(batch)' = Support(p)
    BY <2>1 DEF Support
  <2> QED
    BY <1>1, <2>1, <2>2 DEF RowsOK
<1>2. ASSUME UNCHANGED <<upserts, flushes, applied>>, loop' \notin {"apply", "count"}
      PROVE  RowsOK'
  BY <1>2 DEF RowsOK
<1>3. CASE LoopReceive
  <2> DEFINE p == Bump(pending, Head(events))
  <2>1. loop = "select" /\ Head(events) \in Query /\ UNCHANGED <<upserts, flushes, applied>>
    BY <1>3, DequeueTypes DEF LoopReceive
  <2>2. Head(events) \in Support(p)
    <3>1. p[Head(events)] = pending[Head(events)] + 1 /\ pending[Head(events)] \in Nat
      BY <1>0, <2>1, BumpProperties
    <3> QED
      BY <2>1, <3>1 DEF Support
  <2>3. StartFlush(p, "select") \/ UNCHANGED <<loop, resume, batch>>
    BY <1>3 DEF LoopReceive
  <2> HIDE DEF p
  <2> QED
    BY <1>1, <1>2, <2>1, <2>2, <2>3
<1>4. CASE LoopTick
  BY <1>1, <1>4 DEF LoopTick
<1>5. CASE LoopQuit \/ DrainReceive
  BY <1>2, <1>5 DEF LoopQuit, DrainReceive
<1>6. CASE DrainEmpty
  BY <1>1, <1>2, <1>6 DEF DrainEmpty
<1>7. CASE ApplyReturns
  <2>1. /\ applied' = Plus(applied, batch) /\ loop = "apply" /\ loop' = "count"
        /\ UNCHANGED <<batch, upserts, flushes>>
    BY <1>7 DEF ApplyReturns
  <2>2. /\ SumFunction(applied) \in Nat /\ SumFunction(batch) \in Nat
        /\ SumFunction(applied') = SumFunction(applied) + SumFunction(batch)
        /\ Cardinality(Support(batch)) <= SumFunction(batch)
    BY <1>0, <2>1, MapSums
  <2>3. Support(batch)' = Support(batch) /\ Cardinality(Support(batch)) \in Nat
    BY <2>1, FS_CardinalityType DEF TypeInv, FiniteMaps, Support
  <2>4. upserts <= SumFunction(applied')
    BY <1>0, <2>2 DEF RowsOK
  <2>5. upserts + Cardinality(Support(batch)) <= SumFunction(applied')
    BY <1>0, <2>2, <2>3 DEF RowsOK
  <2> QED
    BY <2>1, <2>3, <2>4, <2>5 DEF RowsOK
<1>8. CASE CountFlush
  <2>1. /\ loop = "count" /\ upserts' = upserts + Cardinality(Support(batch))
        /\ flushes' = flushes + 1 /\ applied' = applied /\ loop' = resume
    BY <1>8 DEF CountFlush
  <2>2. /\ Cardinality(Support(batch)) \in Nat
        /\ Cardinality(Support(batch)) # 0
    <3>1. IsFiniteSet(Support(batch)) /\ Support(batch) # {}
      BY <2>1 DEF TypeInv, FiniteMaps, RowsOK
    <3> QED
      BY ONLY <3>1, SomeElements
  <2>3. flushes' <= upserts'
    <3>1. flushes <= upserts
      BY DEF RowsOK
    <3>2. /\ flushes \in Nat /\ upserts \in Nat
          /\ flushes' = flushes + 1 /\ upserts' = upserts + Cardinality(Support(batch))
      BY <2>1 DEF TypeInv, TypeOK
    <3>3. Cardinality(Support(batch)) >= 1
      BY ONLY <2>2
    <3> QED
      BY ONLY <2>2, <3>1, <3>2, <3>3
  <2>4. upserts' <= SumFunction(applied')
    BY <2>1 DEF RowsOK
  <2> QED
    BY <1>0, <2>1, <2>3, <2>4 DEF RowsOK
<1>9. CASE UNCHANGED loopVars
  BY <1>9 DEF loopVars, RowsOK, Support
<1> QED
  BY <1>3, <1>4, <1>5, <1>6, <1>7, <1>8, <1>9
  DEF Next, CallerStep, LoopStep, Submit, Offer, TimeOut, CountReceived, Stop, vars

\* A flush writes a row at least, and all of them write no more rows than
\* searches were applied.
THEOREM BatchingReducesWrites ==
    ASSUME IsFiniteSet(Query)
    PROVE  Spec => []WriteReduction
<1>1. Init => RowsOK
  BY ZeroSum DEF Init, RowsOK
<1>2. TypeInv /\ RowsOK /\ [Next]_vars => RowsOK'
  BY RowsStep
<1>3. RowsOK => WriteReduction
  BY DEF RowsOK, WriteReduction
<1> QED
  BY <1>1, <1>2, <1>3, TypeInit, TypeStep, PTL DEF Spec

\* The callers whose search is in the buffer, but not counted yet.
Uncounted == {c \in Caller : pc[c] = "sent"}

ReceivedOK == SumFunction(accepted) = received + Cardinality(Uncounted)

LEMMA UncountedProperties ==
    ASSUME TypeInv
    PROVE  /\ IsFiniteSet(Uncounted) /\ Cardinality(Uncounted) \in Nat
           /\ \A c \in Caller \ Uncounted :
                Cardinality(Uncounted \cup {c}) = Cardinality(Uncounted) + 1
           /\ \A c \in Uncounted :
                Cardinality(Uncounted \ {c}) = Cardinality(Uncounted) - 1
<1>1. IsFiniteSet(Uncounted)
  BY WriterAssumption, FS_Subset DEF Uncounted
<1> QED
  BY <1>1, FS_CardinalityType, FS_AddElement, FS_RemoveElement

LEMMA ReceivedStep ==
    ASSUME IsFiniteSet(Query)
    PROVE  TypeInv /\ QueueOK /\ ReceivedOK /\ [Next]_vars => ReceivedOK'
<1> SUFFICES ASSUME TypeInv, QueueOK, ReceivedOK, [Next]_vars PROVE ReceivedOK'
  OBVIOUS
<1>0. /\ pc \in [Caller -> CallerState] /\ arg \in [Caller -> Query]
      /\ accepted \in [Query -> Nat] /\ received \in Nat
      /\ Cardinality(Uncounted) \in Nat
  BY UncountedProperties DEF TypeInv, TypeOK
<1>1. ASSUME NEW c \in Caller, NEW q \in Query, pc[c] # "sent",
             pc' = [pc EXCEPT ![c] = "sent"], accepted' = Bump(accepted, q),
             received' = received
      PROVE  ReceivedOK'
  <2>1. c \notin Uncounted /\ Uncounted' = Uncounted \cup {c}
    BY <1>0, <1>1 DEF Uncounted
  <2>2. Cardinality(Uncounted') = Cardinality(Uncounted) + 1
    BY <2>1, UncountedProperties
  <2>3. SumFunction(accepted') = SumFunction(accepted) + 1
    BY <1>0, <1>1, BumpSum
  <2> QED
    BY <1>0, <1>1, <2>2, <2>3 DEF ReceivedOK
<1>2. ASSUME NEW c \in Caller, NEW v, pc[c] # "sent", v # "sent",
             pc' = [pc EXCEPT ![c] = v], UNCHANGED <<accepted, received>>
      PROVE  ReceivedOK'
  <2>1. Uncounted' = Uncounted
    BY <1>0, <1>2 DEF Uncounted
  <2> QED
    BY <1>2, <2>1 DEF ReceivedOK
<1>3. ASSUME NEW c \in Caller, NEW q \in Query, Submit(c, q) PROVE ReceivedOK'
  <2>1. /\ pc[c] = "idle" /\ received' = received
        /\ Send(c, q) \/ (pc' = [pc EXCEPT ![c] = "full"] /\ accepted' = accepted)
    BY <1>3 DEF Submit, channelVars
  <2> QED
    BY <1>1, <1>2, <2>1 DEF Send
<1>4. ASSUME NEW c \in Caller, Offer(c) PROVE ReceivedOK'
  <2>1. /\ pc[c] = "full" /\ received' = received /\ arg[c] \in Query
        /\ Send(c, arg[c]) \/ (pc' = [pc EXCEPT ![c] = "parked"] /\ accepted' = accepted)
    BY <1>0, <1>4 DEF Offer
  <2> QED
    BY <1>1, <1>2, <2>1 DEF Send
<1>5. ASSUME NEW c \in Caller, TimeOut(c) PROVE ReceivedOK'
  BY <1>2, <1>5 DEF TimeOut
<1>6. ASSUME NEW c \in Caller, CountReceived(c) PROVE ReceivedOK'
  <2>1. /\ pc[c] = "sent" /\ pc' = [pc EXCEPT ![c] = "idle"]
        /\ received' = received + 1 /\ accepted' = accepted
    BY <1>6 DEF CountReceived, channelVars
  <2>2. c \in Uncounted /\ Uncounted' = Uncounted \ {c}
    BY <1>0, <2>1 DEF Uncounted
  <2>3. Cardinality(Uncounted') = Cardinality(Uncounted) - 1
    BY <2>2, UncountedProperties
  <2> QED
    BY <1>0, <2>1, <2>3 DEF ReceivedOK
<1>7. CASE LoopReceive \/ DrainReceive
  <2>1. Dequeue /\ received' = received
    BY <1>7 DEF LoopReceive, DrainReceive, Dequeue
  <2>2. CASE sendq = <<>>
    BY <2>1, <2>2 DEF Dequeue, ReceivedOK, Uncounted
  <2>3. CASE sendq # <<>>
    <3>1. /\ Head(sendq) \in Caller /\ pc[Head(sendq)] = "parked"
      <4>1. sendq \in Seq(Caller) /\ Len(sendq) \in Nat /\ DOMAIN sendq = 1 .. Len(sendq)
        BY LenProperties DEF TypeInv, TypeOK
      <4>2. Len(sendq) >= 1 /\ Head(sendq) = sendq[1] /\ Head(sendq) \in Caller
        BY <2>3, <4>1, HeadTailProperties, EmptySeq
      <4> QED
        BY <4>1, <4>2 DEF QueueOK
    <3>2. /\ pc' = [pc EXCEPT ![Head(sendq)] = "sent"]
          /\ accepted' = Bump(accepted, arg[Head(sendq)]) /\ arg[Head(sendq)] \in Query
      BY <1>0, <2>1, <2>3, <3>1 DEF Dequeue
    <3> QED
      BY <1>1, <2>1, <3>1, <3>2
  <2> QED
    BY <2>2, <2>3
<1>8. CASE UNCHANGED <<pc, accepted, received>>
  BY <1>8 DEF ReceivedOK, Uncounted
<1> QED
  BY <1>3, <1>4, <1>5, <1>6, <1>7, <1>8
  DEF Next, CallerStep, LoopStep, LoopTick, LoopQuit, DrainEmpty, ApplyReturns,
      CountFlush, Stop, vars, callerVars, channelVars

\* received is what the channel accepted, but for the searches whose callers
\* have yet to count them.
LEMMA ReceivedHolds ==
    ASSUME IsFiniteSet(Query)
    PROVE  Spec => []ReceivedOK
<1>1. Init => QueueOK /\ ReceivedOK
  <2> SUFFICES ASSUME Init PROVE QueueOK /\ ReceivedOK
    OBVIOUS
  <2>1. Uncounted = {}
    BY DEF Init, Uncounted
  <2>2. Cardinality(Uncounted) = 0 /\ SumFunction(Zero) = 0
    BY <2>1, FS_EmptySet, ZeroSum
  <2> QED
    BY <2>2 DEF Init, QueueOK, ReceivedOK
<1>2. TypeInv /\ QueueOK /\ ReceivedOK /\ [Next]_vars => ReceivedOK'
  BY ReceivedStep
<1> QED
  BY <1>1, <1>2, TypeInit, TypeStep, QueueStep, PTL DEF Spec

-----------------------------------------------------------------------------
(* Requests and shutdown use the writer through its operations only, so    *)
(* that everything proved of the writer holds in the server.               *)

LEMMA ServerStepIsWriterStep == [ServerNext]_allVars => [Next]_vars
<1> SUFFICES ASSUME [ServerNext]_allVars PROVE [Next]_vars
  OBVIOUS
<1>1. ASSUME NEW c \in Caller, RequestStep(c) PROVE [Next]_vars
  BY <1>1
  DEF RequestStep, Arrive, RejectEmpty, Record, Answer, SubmitStep, Next
<1>2. CASE ServeFails \/ Signal \/ Exit
  BY <1>2 DEF ServeFails, Signal, Exit
<1>3. CASE ShutdownDone \/ ShutdownTimesOut
  BY <1>3 DEF ShutdownDone, ShutdownTimesOut, Next
<1>4. CASE WriterStep \/ WriterQuit
  BY <1>4 DEF WriterStep, WriterQuit, Next
<1>5. CASE UNCHANGED allVars
  BY <1>5 DEF allVars
<1> QED
  BY <1>1, <1>2, <1>3, <1>4, <1>5 DEF ServerNext

THEOREM ServerUsesWriter == ServerSpec => Spec
<1>1. ServerInit => Init
  BY DEF ServerInit
<1> QED
  BY <1>1, ServerStepIsWriterStep, PTL DEF ServerSpec, Spec

-----------------------------------------------------------------------------
(* The invariant: quit is closed only when no handler is left, and no send *)
(* can follow the moment when the drain found the buffer empty, unless     *)
(* Shutdown was cut off.                                                   *)

HandlersOK ==
    /\ phase \in Phase
    /\ handler \in [Caller -> HandlerState]
    /\ cutOff \in BOOLEAN
    /\ \A c \in Caller : pc[c] # "idle" => handler[c] = "submitting"

StoppedIsQuiet ==
    /\ quit <=> phase \in {"stopping", "exited"}
    /\ quit => Quiet \/ cutOff

DrainOK ==
    /\ loop \in {"drain", "exited"} \/ resume = "exited" => quit
    /\ loop = "exited" \/ resume = "exited" => events = <<>> \/ cutOff
    /\ resume = "exited" => loop \in {"apply", "count", "exited"}
    /\ phase = "exited" => loop = "exited"

ServerInv == HandlersOK /\ StoppedIsQuiet /\ DrainOK

\* Handlers: the only way into Submit is Record, and Answer waits for it.
LEMMA HandlersStep ==
    TypeInv /\ QueueOK /\ HandlersOK /\ [ServerNext]_allVars => HandlersOK'
<1> SUFFICES ASSUME TypeInv, QueueOK, HandlersOK, [ServerNext]_allVars
             PROVE  HandlersOK'
  OBVIOUS
<1>0. pc \in [Caller -> CallerState]
  BY DEF TypeInv, TypeOK
<1>1. ASSUME NEW c \in Caller, Arrive(c) \/ RejectEmpty(c) \/ Answer(c)
      PROVE  HandlersOK'
  BY <1>1 DEF Arrive, RejectEmpty, Answer, HandlersOK, HandlerState, vars, callerVars
<1>2. ASSUME NEW c \in Caller, NEW q \in Query, Record(c, q) PROVE HandlersOK'
  <2>1. /\ UNCHANGED <<phase, cutOff>> /\ handler' = [handler EXCEPT ![c] = "submitting"]
        /\ pc' = [pc EXCEPT ![c] = "sent"] \/ pc' = [pc EXCEPT ![c] = "full"]
    BY <1>2 DEF Record, Submit, Send
  <2> QED
    BY <1>0, <2>1 DEF HandlersOK, HandlerState
<1>3. ASSUME NEW c \in Caller, SubmitStep(c) PROVE HandlersOK'
  <2>1. /\ UNCHANGED <<phase, handler, cutOff>> /\ pc[c] # "idle"
        /\ \E v \in CallerState : pc' = [pc EXCEPT ![c] = v]
    BY <1>3
    DEF SubmitStep, serverVars, CallerStep, Offer, Send, TimeOut, CountReceived,
        CallerState
  <2> QED
    BY <1>0, <2>1 DEF HandlersOK
<1>4. CASE Dequeue /\ UNCHANGED serverVars
  <2>1. Busy' = Busy
    BY <1>4, DequeueWakes
  <2> QED
    BY <1>4, <2>1 DEF HandlersOK, serverVars, Busy
<1>5. CASE ServeFails \/ Signal \/ ShutdownDone \/ ShutdownTimesOut \/ Exit
  BY <1>5
  DEF ServeFails, Signal, ShutdownDone, ShutdownTimesOut, Exit, Stop, HandlersOK, Phase, vars,
      callerVars
<1>6. CASE UNCHANGED <<pc, serverVars>>
  BY <1>6 DEF HandlersOK, serverVars
<1> QED
  BY <1>1, <1>2, <1>3, <1>4, <1>5, <1>6
  DEF ServerNext, RequestStep, WriterStep, WriterQuit, LoopStep, LoopReceive,
      DrainReceive, LoopTick, LoopQuit, DrainEmpty, ApplyReturns, CountFlush,
      allVars, vars, callerVars

\* Once quit is closed no request is left that could start or continue a send.
LEMMA QuietStep ==
    /\ HandlersOK /\ StoppedIsQuiet /\ [ServerNext]_allVars
    => StoppedIsQuiet'
<1> SUFFICES ASSUME HandlersOK, StoppedIsQuiet, [ServerNext]_allVars
             PROVE  StoppedIsQuiet'
  OBVIOUS
<1>1. ASSUME NEW c \in Caller, RequestStep(c) PROVE StoppedIsQuiet'
  <2>1. UNCHANGED <<quit, phase, cutOff>>
    BY <1>1
    DEF RequestStep, Arrive, RejectEmpty, Record, Answer, SubmitStep, vars,
        Submit, CallerStep, Offer, TimeOut, CountReceived, serverVars
  <2>2. CASE quit /\ ~cutOff
    <3>1. handler[c] = "none" /\ pc[c] = "idle" /\ phase # "serving"
      BY <2>2 DEF StoppedIsQuiet, Quiet, HandlersOK
    <3> QED
      BY <1>1, <3>1
      DEF RequestStep, Arrive, RejectEmpty, Record, Answer, SubmitStep,
          CallerStep, Offer, TimeOut, CountReceived
  <2>3. CASE ~quit \/ cutOff
    BY <2>1, <2>3 DEF StoppedIsQuiet
  <2> QED
    BY <2>2, <2>3 DEF StoppedIsQuiet
<1>2. CASE ServeFails \/ Signal
  BY <1>2 DEF ServeFails, Signal, StoppedIsQuiet, Quiet, vars
<1>3. CASE ShutdownDone
  BY <1>3 DEF ShutdownDone, Stop, StoppedIsQuiet, Quiet
<1>4. CASE Exit
  BY <1>4 DEF Exit, StoppedIsQuiet, Quiet, vars
<1>5. CASE UNCHANGED <<quit, serverVars>>
  BY <1>5 DEF StoppedIsQuiet, Quiet, serverVars
<1>6. CASE ShutdownTimesOut
  BY <1>6 DEF ShutdownTimesOut, Stop, StoppedIsQuiet
<1> QED
  BY <1>1, <1>2, <1>3, <1>4, <1>5, <1>6
  DEF ServerNext, WriterStep, WriterQuit, LoopStep, LoopReceive, Dequeue,
      DrainReceive, LoopTick, LoopQuit, DrainEmpty, ApplyReturns, CountFlush,
      allVars, vars

\* While the handlers are quiet after quit nothing enters the buffer, so that
\* it is still empty when the final flush returns.
LEMMA DrainStep ==
    /\ TypeInv /\ HandlersOK /\ StoppedIsQuiet /\ DrainOK
    /\ [ServerNext]_allVars
    => DrainOK'
<1> SUFFICES ASSUME TypeInv, HandlersOK, StoppedIsQuiet, DrainOK,
                    [ServerNext]_allVars
             PROVE  DrainOK'
  OBVIOUS
<1>0. resume \in {"select", "exited"} /\ loop \in LoopState
  BY DEF TypeInv, TypeOK
<1>1. ASSUME NEW c \in Caller, RequestStep(c) PROVE DrainOK'
  <2>1. UNCHANGED <<loop, resume, quit, phase, cutOff>>
    BY <1>1
    DEF RequestStep, Arrive, RejectEmpty, Record, Answer, SubmitStep, vars,
        Submit, CallerStep, Offer, TimeOut, CountReceived, serverVars, loopVars
  <2>2. CASE quit /\ ~cutOff
    <3>1. handler[c] = "none" /\ pc[c] = "idle" /\ phase # "serving"
      BY <2>2 DEF StoppedIsQuiet, Quiet, HandlersOK
    <3> QED
      BY <1>1, <3>1
      DEF RequestStep, Arrive, RejectEmpty, Record, Answer, SubmitStep,
          CallerStep, Offer, TimeOut, CountReceived
  <2>3. CASE ~quit \/ cutOff
    BY <2>1, <2>3 DEF DrainOK
  <2> QED
    BY <2>2, <2>3
<1>2. CASE ServeFails \/ Signal \/ Exit
  BY <1>2 DEF ServeFails, Signal, Exit, DrainOK, vars, channelVars, loopVars
<1>3. CASE ShutdownDone \/ ShutdownTimesOut
  BY <1>3
  DEF ShutdownDone, ShutdownTimesOut, Stop, DrainOK, channelVars, loopVars
<1>4. CASE LoopReceive /\ UNCHANGED serverVars
  <2>1. events # <<>> /\ UNCHANGED <<quit, serverVars>>
    BY <1>4 DEF LoopReceive, Dequeue
  <2>2. resume' = "select" /\ loop' \in {"select", "apply"}
    BY <1>0, <1>4, <2>1 DEF LoopReceive, StartFlush, DrainOK
  <2>3. phase # "exited"
    BY <1>4 DEF LoopReceive, DrainOK
  <2> QED
    BY <2>1, <2>2, <2>3 DEF DrainOK, serverVars
<1>5. CASE LoopTick /\ UNCHANGED serverVars
  BY <1>5 DEF LoopTick, StartFlush, DrainOK, serverVars, channelVars
<1>6. CASE LoopQuit /\ UNCHANGED serverVars
  BY <1>6 DEF LoopQuit, DrainOK, serverVars, channelVars
<1>7. CASE DrainReceive /\ UNCHANGED serverVars
  BY <1>7 DEF DrainReceive, Dequeue, DrainOK, serverVars
<1>8. CASE DrainEmpty /\ UNCHANGED serverVars
  BY <1>8 DEF DrainEmpty, StartFlush, DrainOK, serverVars, channelVars
<1>9. CASE (ApplyReturns \/ CountFlush) /\ UNCHANGED serverVars
  BY <1>0, <1>9 DEF ApplyReturns, CountFlush, DrainOK, serverVars, channelVars
<1>10. CASE UNCHANGED allVars
  BY <1>10 DEF allVars, vars, channelVars, loopVars, serverVars, DrainOK
<1> QED
  BY <1>1, <1>2, <1>3, <1>4, <1>5, <1>6, <1>7, <1>8, <1>9, <1>10
  DEF ServerNext, WriterStep, WriterQuit, LoopStep

LEMMA ServerInvInit == ServerInit => TypeInv /\ QueueOK /\ ServerInv
<1> SUFFICES ASSUME ServerInit PROVE TypeInv /\ QueueOK /\ ServerInv
  OBVIOUS
<1>1. TypeInv /\ QueueOK
  BY TypeInit DEF ServerInit, Init, QueueOK
<1>2. HandlersOK
  <2>1. cutOff \in BOOLEAN
    BY DEF ServerInit
  <2>2. phase \in Phase /\ handler \in [Caller -> HandlerState]
    BY DEF ServerInit, Phase, HandlerState
  <2>3. \A c \in Caller : pc[c] = "idle"
    BY DEF ServerInit, Init
  <2> QED
    BY <2>1, <2>2, <2>3 DEF HandlersOK
<1>3. StoppedIsQuiet /\ DrainOK
  BY DEF ServerInit, Init, StoppedIsQuiet, DrainOK
<1> QED
  BY <1>1, <1>2, <1>3 DEF ServerInv

LEMMA ServerInvHolds == ServerSpec => [](TypeInv /\ ServerInv)
<1>1. TypeInv /\ QueueOK /\ ServerInv /\ [ServerNext]_allVars
        => (TypeInv /\ QueueOK /\ ServerInv)'
  BY ServerStepIsWriterStep, TypeStep, QueueStep, HandlersStep, QuietStep, DrainStep
  DEF ServerInv
<1> QED
  BY ServerInvInit, <1>1, PTL DEF ServerSpec

\* Handlers inside Submit are exactly where the writer's callers are, and the
\* writer's types hold in the server.
THEOREM ServerTypeCorrect == ServerSpec => []ServerTypeOK
<1>1. ServerInit => TypeInv /\ QueueOK /\ HandlersOK
  BY ServerInvInit DEF ServerInv
<1>2. TypeInv /\ QueueOK /\ HandlersOK /\ [ServerNext]_allVars
        => (TypeInv /\ QueueOK /\ HandlersOK)'
  BY ServerStepIsWriterStep, TypeStep, QueueStep, HandlersStep
<1>3. TypeInv /\ HandlersOK => ServerTypeOK
  BY DEF TypeInv, HandlersOK, ServerTypeOK
<1> QED
  BY <1>1, <1>2, <1>3, PTL DEF ServerSpec

\* A clean shutdown flushes the buffer: unless a handler outlived srv.Shutdown,
\* every accepted search has been applied when the process exits.
THEOREM NothingIsLostAtExit == ServerSpec => []NothingLostAtExit
<1>1. TypeInv /\ ServerInv /\ NothingStranded => NothingLostAtExit
  <2> SUFFICES ASSUME TypeInv, ServerInv, NothingStranded, phase = "exited", ~cutOff,
                      NEW q \in Query
               PROVE  applied[q] = accepted[q]
    BY DEF NothingLostAtExit
  <2>1. loop = "exited" /\ events = <<>>
    BY DEF ServerInv, DrainOK
  <2>2. InBuffer(q) = 0
    BY <2>1, FS_EmptySet DEF InBuffer
  <2>3. applied[q] \in Nat
    BY DEF TypeInv, TypeOK
  <2> QED
    BY <2>1, <2>2, <2>3 DEF NothingStranded
<1> QED
  BY <1>1, ServerInvHolds, ServerUsesWriter, NothingStrandedHolds, PTL

\* When main returns, no handler is left inside Submit, so that every counter
\* is final: what was received has been applied, and the rest was dropped.
THEOREM ExitCountersAreFinal ==
    ASSUME IsFiniteSet(Query)
    PROVE  ServerSpec => []ExitStatsComplete
<1>1. /\ TypeInv /\ ServerInv /\ NothingLostAtExit /\ CallsAccounted /\ ReceivedOK
      => ExitStatsComplete
  <2> SUFFICES ASSUME TypeInv, ServerInv, NothingLostAtExit, CallsAccounted, ReceivedOK,
                      phase = "exited", ~cutOff
               PROVE  submitted = received + dropped /\ received = SumFunction(applied)
    BY DEF ExitStatsComplete
  <2>1. \A c \in Caller : pc[c] = "idle"
    BY DEF ServerInv, StoppedIsQuiet, HandlersOK, Quiet
  <2>2. {c \in Caller : pc[c] # "idle"} = {} /\ Uncounted = {}
    BY <2>1 DEF Uncounted
  <2>3. Cardinality({}) = 0
    BY FS_EmptySet
  <2>4. submitted \in Nat /\ received \in Nat /\ dropped \in Nat
        /\ applied \in [Query -> Nat] /\ accepted \in [Query -> Nat]
    BY DEF TypeInv, TypeOK
  <2>5. applied = accepted
    BY <2>4 DEF NothingLostAtExit
  <2>6. submitted = received + dropped
    BY <2>2, <2>3, <2>4 DEF CallsAccounted
  <2>7. SumFunction(accepted) = received
    BY <2>2, <2>3, <2>4 DEF ReceivedOK
  <2> QED
    BY <2>5, <2>6, <2>7
<1>2. Spec => []ReceivedOK
  BY ReceivedHolds
<1> QED
  BY <1>1, <1>2, ServerInvHolds, ServerUsesWriter, NothingIsLostAtExit, CallsAccountedHolds, PTL

-----------------------------------------------------------------------------
(* The server implements the ledger.                                       *)

\* A receive accepts the oldest parked search, if there is one.
LEMMA DequeueIsAccept ==
    ASSUME TypeInv, Dequeue, Running, UNCHANGED <<phase, cutOff>>, applied' = applied
    PROVE  [Ledger!Next]_(Ledger!ledger)
<1>1. CASE sendq = <<>>
  BY <1>1 DEF Dequeue, Ledger!ledger
<1>2. CASE sendq # <<>>
  <2>1. arg[Head(sendq)] \in Query
    BY <1>2, HeadTailProperties DEF TypeInv, TypeOK
  <2>2. Ledger!Accept(arg[Head(sendq)])
    BY <1>2 DEF Dequeue, Bump, Running, Ledger!Accept
  <2> QED
    BY <2>1, <2>2 DEF Ledger!Next
<1> QED
  BY <1>1, <1>2

LEMMA SendIsAccept ==
    ASSUME NEW c \in Caller, NEW q \in Query, Send(c, q), Running,
           UNCHANGED <<phase, cutOff>>, applied' = applied
    PROVE  [Ledger!Next]_(Ledger!ledger)
<1>1. Ledger!Accept(q)
  BY DEF Send, Bump, Running, Ledger!Accept
<1> QED
  BY <1>1 DEF Ledger!Next

LEMMA LedgerStep ==
    /\ TypeInv /\ TypeInv' /\ ExactlyOnce /\ NothingLostAtExit'
    /\ [ServerNext]_allVars
    => [Ledger!Next]_(Ledger!ledger)
<1> SUFFICES ASSUME TypeInv, TypeInv', ExactlyOnce, NothingLostAtExit',
                    [ServerNext]_allVars
             PROVE  [Ledger!Next]_(Ledger!ledger)
  OBVIOUS
<1>1. CASE UNCHANGED <<accepted, applied, phase, cutOff>>
  BY <1>1 DEF Ledger!ledger
<1>2. ASSUME NEW c \in Caller, NEW q \in Query, Record(c, q)
      PROVE  [Ledger!Next]_(Ledger!ledger)
  <2>1. Running /\ UNCHANGED <<phase, cutOff>> /\ applied' = applied
    BY <1>2 DEF Record, Submit, loopVars
  <2>2. CASE Send(c, q)
    BY <2>1, <2>2, SendIsAccept
  <2>3. CASE UNCHANGED channelVars
    BY <1>1, <2>1, <2>3 DEF channelVars
  <2> QED
    BY <1>2, <2>2, <2>3 DEF Record, Submit
<1>3. ASSUME NEW c \in Caller, SubmitStep(c)
      PROVE  [Ledger!Next]_(Ledger!ledger)
  <2>1. Running /\ UNCHANGED <<phase, cutOff>> /\ applied' = applied
    BY <1>3
    DEF SubmitStep, CallerStep, Offer, TimeOut, CountReceived, loopVars, serverVars
  <2>2. CASE Send(c, arg[c])
    <3>1. arg[c] \in Query
      BY DEF TypeInv, TypeOK
    <3> QED
      BY <2>1, <2>2, <3>1, SendIsAccept
  <2>3. CASE accepted' = accepted
    BY <1>1, <2>1, <2>3
  <2> QED
    BY <1>3, <2>2, <2>3
    DEF SubmitStep, CallerStep, Offer, TimeOut, CountReceived, channelVars
<1>4. CASE Running /\ (LoopReceive \/ DrainReceive) /\ UNCHANGED serverVars
  BY <1>4, DequeueIsAccept DEF LoopReceive, DrainReceive, serverVars
<1>5. CASE Running /\ ApplyReturns /\ UNCHANGED serverVars
  <2>1. /\ accepted' = accepted /\ phase' = phase /\ loop = "apply"
        /\ applied' = Plus(applied, batch)
    BY <1>5 DEF ApplyReturns, channelVars, serverVars
  <2>2. applied' \in [Query -> Nat]
    BY DEF TypeInv, TypeOK
  <2>3. ASSUME NEW q \in Query
        PROVE  applied[q] <= applied'[q] /\ applied'[q] <= accepted[q]
    <3>1. /\ applied[q] \in Nat /\ batch[q] \in Nat
          /\ pending[q] \in Nat /\ InBuffer(q) \in Nat
      BY PlacesTypes DEF PlacesAreNumbers
    <3>2. /\ applied'[q] = applied[q] + batch[q]
          /\ accepted[q] = applied[q] + batch[q] + pending[q] + InBuffer(q)
      BY <2>1 DEF Plus, ExactlyOnce, InFlight
    <3> QED
      BY <3>1, <3>2
  <2>4. Ledger!Apply
    BY <1>5, <2>1, <2>2, <2>3 DEF Running, Ledger!Apply
  <2> QED
    BY <2>4 DEF Ledger!Next
<1>6. CASE Exit
  <2>1. /\ UNCHANGED <<accepted, applied>>
        /\ phase = "stopping" /\ phase' = "exited" /\ cutOff' = cutOff
    BY <1>6 DEF Exit, vars, channelVars, loopVars
  <2>2. CASE cutOff
    BY <2>1, <2>2 DEF Ledger!ledger
  <2>3. CASE ~cutOff
    <3>1. applied \in [Query -> Nat] /\ accepted \in [Query -> Nat]
      BY DEF TypeInv, TypeOK
    <3>2. \A q \in Query : applied[q] = accepted[q]
      BY <2>1, <2>3 DEF NothingLostAtExit
    <3>3. Ledger!Close
      BY <2>1, <2>3, <3>1, <3>2 DEF Ledger!Close
    <3> QED
      BY <3>3 DEF Ledger!Next
  <2> QED
    BY <2>2, <2>3
<1>7. CASE ServeFails \/ Signal \/ ShutdownDone \/ ShutdownTimesOut
  <2>1. /\ UNCHANGED <<accepted, applied>>
        /\ phase # "exited" /\ phase' # "exited"
    BY <1>7
    DEF ServeFails, Signal, ShutdownDone, ShutdownTimesOut, Stop, vars, channelVars, loopVars
  <2> QED
    BY <2>1 DEF Ledger!ledger
<1> QED
  BY <1>1, <1>2, <1>3, <1>4, <1>5, <1>6, <1>7
  DEF ServerNext, RequestStep, Arrive, RejectEmpty, Answer, WriterStep, WriterQuit,
      LoopStep, LoopTick, LoopQuit, DrainEmpty, CountFlush, allVars, vars,
      channelVars, loopVars, serverVars

\* The server implements the ledger: every step of a goroutine is a step of the
\* ledger or changes nothing there.
THEOREM ServerImplementsLedger == ServerSpec => ImplementsLedger
<1>1. ServerInit => Ledger!Init
  BY DEF ServerInit, Init, Zero, Ledger!Init
<1>2. Spec => []TypeInv
  BY TypeInit, TypeStep, PTL DEF Spec
<1> QED
  BY <1>1, <1>2, LedgerStep, ServerUsesWriter, ExactlyOnceHolds,
     NothingIsLostAtExit, PTL
  DEF ServerSpec, ImplementsLedger, Ledger!Spec

===============================================================================
