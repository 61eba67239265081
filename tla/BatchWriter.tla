----------------------------- MODULE BatchWriter -----------------------------
(***************************************************************************)
(* internal/batch/writer.go: HTTP handlers call Submit, which sends on a   *)
(* buffered channel (waiting a bounded time when it is full); one          *)
(* goroutine, loop, drains the channel into an aggregating map and hands   *)
(* the map to the flush callback by size, on a ticker, and once more when  *)
(* Stop closes quit.                                                       *)
(*                                                                         *)
(* A step is what one goroutine does between two operations that another   *)
(* goroutine can observe: a channel operation, an atomic counter, the call *)
(* or the return of the callback.  Queries are opaque values.              *)
(***************************************************************************)
EXTENDS Integers, SequencesExt

CONSTANTS
    Query,       \* the normalized, non-empty query strings
    Caller,      \* the goroutines that may be inside Submit at one time
    BufCap,      \* capacity of the events channel (EVENT_BUFFER_CAP)
    BatchSize,   \* searches that force a flush (BATCH_SIZE)
    MaxSubmits   \* bound of the model: calls of Submit in a behaviour

\* New replaces any smaller bufCap or batchSize by a positive default.
ASSUME WriterAssumption ==
    /\ BufCap \in Nat \ {0}
    /\ BatchSize \in Nat \ {0}
    /\ MaxSubmits \in Nat
    /\ IsFiniteSet(Caller)

VARIABLES
    events,     \* the channel's buffer, oldest first
    sendq,      \* callers parked on the full channel, oldest first
    pc,         \* where each caller is in Submit
    arg,        \* the query each caller submitted last
    loop,       \* where the loop goroutine is
    resume,     \* where flush() returns to
    pending,    \* the loop's map: searches aggregated since the last flush
    total,      \* the loop's count of them
    batch,      \* the map handed to the callback
    quit,       \* Stop has closed the quit channel
    received, dropped, upserts, flushes,   \* the atomic counters
    submitted,  \* history: calls of Submit
    accepted,   \* history: per query, successful sends on the channel
    applied     \* history: per query, what completed callbacks were given

callerVars == <<pc, arg, submitted, received, dropped>>
channelVars == <<events, sendq, accepted>>
loopVars == <<loop, resume, pending, total, batch, upserts, flushes, applied>>
vars == <<callerVars, channelVars, loopVars, quit>>

Zero == [q \in Query |-> 0]
Bump(f, q) == [f EXCEPT ![q] = @ + 1]
Plus(f, g) == [q \in Query |-> f[q] + g[q]]
Support(f) == {q \in Query : f[q] > 0}

CallerState == {"idle", "full", "parked", "sent"}
LoopState == {"select", "apply", "count", "drain", "exited"}

Init ==
    /\ events = <<>> /\ sendq = <<>>
    /\ pc = [c \in Caller |-> "idle"]
    /\ arg \in [Caller -> Query]
    /\ loop = "select" /\ resume = "select" /\ quit = FALSE
    /\ pending = Zero /\ total = 0 /\ batch = Zero
    /\ received = 0 /\ dropped = 0 /\ upserts = 0 /\ flushes = 0
    /\ submitted = 0 /\ accepted = Zero /\ applied = Zero

-----------------------------------------------------------------------------
(* Submit.  A send finds room, or fails, or parks the caller in sendq.     *)

\* Faulty variant of HasRoom.
HasRoomAtCap == Len(events) <= BufCap

HasRoom == Len(events) < BufCap

\* The search is in the buffer; received is counted by a later step.
Send(c, q) ==
    /\ HasRoom
    /\ events' = Append(events, q)
    /\ accepted' = Bump(accepted, q)
    /\ pc' = [pc EXCEPT ![c] = "sent"]
    /\ UNCHANGED sendq

\* The first select: send without waiting, or fall through its default.
Submit(c, q) ==
    /\ pc[c] = "idle"
    /\ submitted < MaxSubmits
    /\ submitted' = submitted + 1
    /\ arg' = [arg EXCEPT ![c] = q]
    /\ \/ Send(c, q)
       \/ /\ ~HasRoom
          /\ pc' = [pc EXCEPT ![c] = "full"]
          /\ UNCHANGED channelVars
    /\ UNCHANGED <<loopVars, quit, received, dropped>>

\* The second select: send if there is room by now, otherwise park.
Offer(c) ==
    /\ pc[c] = "full"
    /\ \/ Send(c, arg[c])
       \/ /\ ~HasRoom
          /\ sendq' = Append(sendq, c)
          /\ pc' = [pc EXCEPT ![c] = "parked"]
          /\ UNCHANGED <<events, accepted>>
    /\ UNCHANGED <<loopVars, quit, arg, submitted, received, dropped>>

\* Faulty variant of TimeOut: a plain blocking send, which never gives up.
TimeOutNever(c) == FALSE /\ UNCHANGED vars

\* Faulty variant of TimeOut: the drop is not counted.
TimeOutUncounted(c) ==
    /\ pc[c] = "parked"
    /\ \E i \in DOMAIN sendq : sendq[i] = c /\ sendq' = RemoveAt(sendq, i)
    /\ pc' = [pc EXCEPT ![c] = "idle"]
    /\ UNCHANGED <<loopVars, quit, events, accepted, arg, submitted, received,
                   dropped>>

\* submitBlockTimeout passed first: the search is dropped and counted.
TimeOut(c) ==
    /\ pc[c] = "parked"
    /\ \E i \in DOMAIN sendq : sendq[i] = c /\ sendq' = RemoveAt(sendq, i)
    /\ pc' = [pc EXCEPT ![c] = "idle"]
    /\ dropped' = dropped + 1
    /\ UNCHANGED <<loopVars, quit, events, accepted, arg, submitted, received>>

\* received.Add(1), after the send it counts is already visible to the loop.
CountReceived(c) ==
    /\ pc[c] = "sent"
    /\ received' = received + 1
    /\ pc' = [pc EXCEPT ![c] = "idle"]
    /\ UNCHANGED <<loopVars, channelVars, quit, arg, submitted, dropped>>

-----------------------------------------------------------------------------
(* The loop goroutine.                                                     *)

\* Receiving from a full channel also moves the oldest parked sender's value
\* into the buffer and wakes it (the Go runtime does both at once).
Dequeue ==
    /\ events # <<>>
    /\ \/ /\ sendq = <<>>
          /\ events' = Tail(events)
          /\ UNCHANGED <<sendq, pc, accepted>>
       \/ /\ sendq # <<>>
          /\ events' = Append(Tail(events), arg[Head(sendq)])
          /\ sendq' = Tail(sendq)
          /\ accepted' = Bump(accepted, arg[Head(sendq)])
          /\ pc' = [pc EXCEPT ![Head(sendq)] = "sent"]
    /\ UNCHANGED <<arg, submitted, received, dropped, quit>>

\* Faulty variant of StartFlush: pending is handed over but not replaced.
StartFlushKeepsPending(p, back) ==
    /\ batch' = p
    /\ pending' = p
    /\ total' = 0
    /\ loop' = "apply"
    /\ resume' = back

\* flush() on a non-empty map p, up to the call of the callback.
StartFlush(p, back) ==
    /\ batch' = p
    /\ pending' = Zero
    /\ total' = 0
    /\ loop' = "apply"
    /\ resume' = back

\* Faulty variant of SizeReached: a flush one search too late.
SizeReachedLate(n) == n > BatchSize

SizeReached(n) == n >= BatchSize

LoopReceive ==
    /\ loop = "select"
    /\ Dequeue
    /\ LET p == Bump(pending, Head(events))
       IN  \/ /\ SizeReached(total + 1)
              /\ StartFlush(p, "select")
           \/ /\ ~SizeReached(total + 1)
              /\ pending' = p
              /\ total' = total + 1
              /\ UNCHANGED <<loop, resume, batch>>
    /\ UNCHANGED <<upserts, flushes, applied>>

\* Faulty variant of LoopTick: flush() without its test for an empty map.
LoopTickAlways ==
    /\ loop = "select"
    /\ StartFlush(pending, "select")
    /\ UNCHANGED <<callerVars, channelVars, quit, upserts, flushes, applied>>

\* Faulty variant of LoopTick: the ticker was never started.
LoopTickNever == FALSE /\ UNCHANGED vars

\* A tick with an empty map changes nothing.
LoopTick ==
    /\ loop = "select"
    /\ Support(pending) # {}
    /\ StartFlush(pending, "select")
    /\ UNCHANGED <<callerVars, channelVars, quit, upserts, flushes, applied>>

LoopQuit ==
    /\ loop = "select"
    /\ quit
    /\ loop' = "drain"
    /\ UNCHANGED <<callerVars, channelVars, quit, resume, pending, total,
                   batch, upserts, flushes, applied>>

\* Draining counts into pending only: neither total nor the size test.
DrainReceive ==
    /\ loop = "drain"
    /\ Dequeue
    /\ pending' = Bump(pending, Head(events))
    /\ UNCHANGED <<loop, resume, total, batch, upserts, flushes, applied>>

\* Faulty variant of DrainEmpty: return without the final flush.
DrainEmptyNoFlush ==
    /\ loop = "drain"
    /\ events = <<>>
    /\ loop' = "exited"
    /\ UNCHANGED <<resume, pending, total, batch>>
    /\ UNCHANGED <<callerVars, channelVars, quit, upserts, flushes, applied>>

\* Faulty variant of DrainEmpty: drain with a receive that waits for the next
\* search instead of taking the default case.
DrainEmptyWaits == FALSE /\ UNCHANGED vars

\* Nothing buffered: the final flush, and then return.
DrainEmpty ==
    /\ loop = "drain"
    /\ events = <<>>
    /\ \/ /\ Support(pending) # {}
          /\ StartFlush(pending, "exited")
       \/ /\ Support(pending) = {}
          /\ loop' = "exited"
          /\ UNCHANGED <<resume, pending, total, batch>>
    /\ UNCHANGED <<callerVars, channelVars, quit, upserts, flushes, applied>>

\* The callback returns: the whole batch has been applied.
ApplyReturns ==
    /\ loop = "apply"
    /\ applied' = Plus(applied, batch)
    /\ loop' = "count"
    /\ UNCHANGED <<callerVars, channelVars, quit, resume, pending, total,
                   batch, upserts, flushes>>

\* upserts and flushes are counted and flush() returns to its caller.
CountFlush ==
    /\ loop = "count"
    /\ upserts' = upserts + Cardinality(Support(batch))
    /\ flushes' = flushes + 1
    /\ batch' = Zero
    /\ loop' = resume
    /\ UNCHANGED <<callerVars, channelVars, quit, resume, pending, total,
                   applied>>

\* Stop closes quit and then waits for loop = "exited".
Stop ==
    /\ ~quit
    /\ quit' = TRUE
    /\ UNCHANGED <<callerVars, channelVars, loopVars>>

-----------------------------------------------------------------------------

\* The steps of a call of Submit after its first select.
CallerStep(c) == Offer(c) \/ TimeOut(c) \/ CountReceived(c)

\* What the loop does in its select or inside flush, except taking quit.
LoopStep ==
    \/ LoopReceive \/ LoopTick
    \/ DrainReceive \/ DrainEmpty
    \/ ApplyReturns \/ CountFlush

Next ==
    \/ \E c \in Caller : CallerStep(c) \/ \E q \in Query : Submit(c, q)
    \/ LoopStep \/ LoopQuit \/ Stop

Spec == Init /\ [][Next]_vars

\* The scheduler runs every goroutine and the timers fire.  Weak fairness is
\* enough for a closed quit: the searches that compete with it in the select
\* come to an end, in the program because the listener is closed before Stop.
Fairness ==
    /\ WF_vars(LoopStep)
    /\ WF_vars(LoopQuit)
    /\ \A c \in Caller : WF_vars(CallerStep(c))

FairSpec == Spec /\ Fairness

-----------------------------------------------------------------------------
(* Properties.                                                             *)

\* The searches for q in the buffer, and in a batch the callback still has.
InBuffer(q) == Cardinality({i \in DOMAIN events : events[i] = q})
InFlight(q) == IF loop = "apply" THEN batch[q] ELSE 0

\* The searches that wait in the writer for the end of a callback.
Held ==
    SumFunction(pending) + Len(events)
        + IF loop = "apply" THEN SumFunction(batch) ELSE 0

\* Type correctness.
TypeOK ==
    /\ events \in Seq(Query) /\ Len(events) <= BufCap
    /\ sendq \in Seq(Caller)
    /\ pc \in [Caller -> CallerState]
    /\ arg \in [Caller -> Query]
    /\ loop \in LoopState /\ resume \in {"select", "exited"}
    /\ quit \in BOOLEAN
    /\ pending \in [Query -> Nat] /\ batch \in [Query -> Nat]
    /\ accepted \in [Query -> Nat] /\ applied \in [Query -> Nat]
    /\ total \in Nat /\ received \in Nat /\ dropped \in Nat
    /\ upserts \in Nat /\ flushes \in Nat /\ submitted \in Nat

\* Every search the channel accepted is in exactly one place: the buffer, the
\* loop's map, a batch being applied, or applied.  No interleaving of senders,
\* size flush, tick and shutdown loses or repeats one.
ExactlyOnce ==
    \A q \in Query :
        accepted[q] = applied[q] + InFlight(q) + pending[q] + InBuffer(q)

\* Every call of Submit is counted once, as received or as dropped, or has
\* not returned yet.
CallsAccounted ==
    submitted = received + dropped
                  + Cardinality({c \in Caller : pc[c] # "idle"})

\* The loop goroutine leaves nothing behind in its own maps: after it returned,
\* the only searches not applied are those sent after it found the buffer empty.
NothingStranded ==
    loop = "exited" =>
        \A q \in Query : accepted[q] = applied[q] + InBuffer(q)

\* What waits in the writer is bounded although senders do not wait for a
\* callback to end: by a buffer and a batch, since the loop tests the size at
\* each receive and receives nothing while a callback runs.  The drain for
\* shutdown is excepted, as it aggregates without a limit.
\*
\* This is not all that a crash loses.  A callback also returns when its
\* transaction has failed, and keeps the rows in memory (engine.go:178-179);
\* FlushPath has them in retry, and no size bounds them.
HeldBounded ==
    loop \in {"select", "apply", "count"} /\ resume = "select" =>
        Held <= BufCap + BatchSize

\* Batching only ever reduces writes: a flush has at least one row, and no
\* more rows are counted than searches were applied.
WriteReduction ==
    /\ flushes <= upserts
    /\ upserts <= SumFunction(applied)

\* A call of Submit returns, whatever the loop does: the handler of POST
\* /search never hangs on a full buffer, not even after the loop returned.
SubmitReturns == \A c \in Caller : pc[c] # "idle" ~> pc[c] = "idle"

\* An accepted search reaches the callback, unless the writer is stopped.
AcceptedIsApplied ==
    \A q \in Query, n \in 1 .. MaxSubmits :
        accepted[q] >= n ~> (applied[q] >= n \/ loop = "exited")

\* Stop returns: a closed quit leads to the loop's return.
StopReturns == quit ~> loop = "exited"

=============================================================================
