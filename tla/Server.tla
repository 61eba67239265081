-------------------------------- MODULE Server --------------------------------
(***************************************************************************)
(* cmd/server/main.go from writer.Start() on, and POST /search: request    *)
(* handlers call Submit of the batch writer; on SIGINT or SIGTERM the      *)
(* listener is closed, srv.Shutdown waits for the handlers for at most     *)
(* five seconds, and then main calls writer.Stop and returns.  If          *)
(* ListenAndServe fails, main ends the process without any of this.        *)
(*                                                                         *)
(* The goroutine of a request is a Caller of BatchWriter.                  *)
(***************************************************************************)
EXTENDS BatchWriter

VARIABLES
    phase,      \* where main and its signal goroutine are
    handler,    \* where the handler of each request is
    cutOff      \* history: Shutdown's context expired before they were done

serverVars == <<phase, handler, cutOff>>
allVars == <<vars, serverVars>>

Phase == {"serving", "failed", "draining", "stopping", "exited"}
HandlerState == {"none", "reading", "submitting"}

ServerInit ==
    /\ Init
    /\ phase = "serving"
    /\ handler = [c \in Caller |-> "none"]
    /\ cutOff = FALSE

Running == phase \notin {"failed", "exited"}

-----------------------------------------------------------------------------
(* A request for POST /search.                                             *)

\* The listener hands a connection over only until Shutdown closes it.
Arrive(c) ==
    /\ phase = "serving"
    /\ handler[c] = "none"
    /\ handler' = [handler EXCEPT ![c] = "reading"]
    /\ UNCHANGED <<vars, phase, cutOff>>

\* The body decodes to an empty query: 400, and the writer is not called.
RejectEmpty(c) ==
    /\ Running
    /\ handler[c] = "reading"
    /\ handler' = [handler EXCEPT ![c] = "none"]
    /\ UNCHANGED <<vars, phase, cutOff>>

\* The body has been read and names q: Record calls Submit.
Record(c, q) ==
    /\ Running
    /\ handler[c] = "reading"
    /\ Submit(c, q)
    /\ handler' = [handler EXCEPT ![c] = "submitting"]
    /\ UNCHANGED <<phase, cutOff>>

\* Faulty variant of Answer: the search is submitted in the background.
AnswerAtOnce(c) ==
    /\ Running
    /\ handler[c] = "submitting"
    /\ handler' = [handler EXCEPT ![c] = "none"]
    /\ UNCHANGED <<vars, phase, cutOff>>

\* Submit has returned: 200, also when the search was dropped.
Answer(c) ==
    /\ Running
    /\ handler[c] = "submitting"
    /\ pc[c] = "idle"
    /\ handler' = [handler EXCEPT ![c] = "none"]
    /\ UNCHANGED <<vars, phase, cutOff>>

-----------------------------------------------------------------------------
(* The end of the process.                                                 *)

Signal ==
    /\ phase = "serving"
    /\ phase' = "draining"
    /\ UNCHANGED <<vars, handler, cutOff>>

\* ListenAndServe returns another error than ErrServerClosed: log.Fatal ends
\* the process, writer.Stop is not called.
ServeFails ==
    /\ phase = "serving"
    /\ phase' = "failed"
    /\ UNCHANGED <<vars, handler, cutOff>>

\* No connection is active.
Quiet == \A c \in Caller : handler[c] = "none"

\* Faulty variant of ShutdownDone: main goes on as soon as ListenAndServe
\* returns, without waiting for stopped.
ShutdownNotAwaited ==
    /\ phase = "draining"
    /\ phase' = "stopping"
    /\ Stop
    /\ UNCHANGED <<handler, cutOff>>

\* Shutdown returns, stopped is closed, and main calls writer.Stop.
ShutdownDone ==
    /\ phase = "draining"
    /\ Quiet
    /\ phase' = "stopping"
    /\ Stop
    /\ UNCHANGED <<handler, cutOff>>

\* Faulty variant of ShutdownTimesOut: Shutdown with a context that has no
\* deadline.
ShutdownWaits == FALSE /\ UNCHANGED allVars

\* The context expires first.  Shutdown's error is ignored, so that main goes
\* on in the same way, with handlers still running.
ShutdownTimesOut ==
    /\ phase = "draining"
    /\ ~Quiet
    /\ phase' = "stopping"
    /\ cutOff' = TRUE
    /\ Stop
    /\ UNCHANGED handler

\* Faulty variant of Exit: Stop does not wait for the loop.
ExitAtOnce ==
    /\ phase = "stopping"
    /\ phase' = "exited"
    /\ UNCHANGED <<vars, handler, cutOff>>

\* writer.Stop returns and so does main: every goroutine is gone.
Exit ==
    /\ phase = "stopping"
    /\ loop = "exited"
    /\ phase' = "exited"
    /\ UNCHANGED <<vars, handler, cutOff>>

-----------------------------------------------------------------------------

SubmitStep(c) == Running /\ CallerStep(c) /\ UNCHANGED serverVars
WriterStep == Running /\ LoopStep /\ UNCHANGED serverVars
WriterQuit == Running /\ LoopQuit /\ UNCHANGED serverVars

RequestStep(c) ==
    \/ Arrive(c) \/ RejectEmpty(c) \/ Answer(c) \/ SubmitStep(c)
    \/ \E q \in Query : Record(c, q)

ServerNext ==
    \/ \E c \in Caller : RequestStep(c)
    \/ ServeFails \/ Signal \/ ShutdownDone \/ ShutdownTimesOut \/ Exit
    \/ WriterStep \/ WriterQuit

ServerSpec == ServerInit /\ [][ServerNext]_allVars

\* Goroutines are scheduled and timers fire.  Nothing is assumed of clients:
\* a request may stay in "reading" for ever.
ServerFairness ==
    /\ \A c \in Caller : WF_allVars(SubmitStep(c)) /\ WF_allVars(Answer(c))
    /\ WF_allVars(WriterStep) /\ WF_allVars(WriterQuit)
    /\ WF_allVars(ShutdownDone \/ ShutdownTimesOut)
    /\ WF_allVars(Exit)

ServerFairSpec == ServerSpec /\ ServerFairness

-----------------------------------------------------------------------------
(* Properties.                                                             *)

\* Type correctness, and the handlers that are inside Submit.
ServerTypeOK ==
    /\ TypeOK
    /\ phase \in Phase
    /\ handler \in [Caller -> HandlerState]
    /\ cutOff \in BOOLEAN
    /\ \A c \in Caller : pc[c] # "idle" => handler[c] = "submitting"

\* Unless Shutdown's context expires, every accepted search has been applied
\* when main returns, whatever the handlers, the loop and main interleave.
NothingLostAtExit ==
    phase = "exited" /\ ~cutOff => \A q \in Query : applied[q] = accepted[q]

\* "On SIGINT/SIGTERM it stops the listener and flushes the buffer before
\* exiting" (main.go:2-4): so it is after every shutdown.
FlushedBeforeExit ==
    phase = "exited" => \A q \in Query : applied[q] = accepted[q]

\* A counter of the writer is final when main logs "flushed on exit": what it
\* logs as received is what was accepted, and all of it has been applied.
ExitStatsComplete ==
    phase = "exited" /\ ~cutOff =>
        /\ submitted = received + dropped
        /\ received = SumFunction(applied)

\* Once signalled the process exits, even if a client never ends its request.
ExitsAfterSignal == phase = "draining" ~> phase = "exited"

\* The server implements the ledger: searches are applied at most once, only
\* after they were accepted, and all of them before it is closed.  A server
\* that was cut off or failed just stops and never closes the ledger.
Ledger == INSTANCE SearchLedger WITH closed <- (phase = "exited" /\ ~cutOff)
ImplementsLedger == Ledger!Spec

===============================================================================
