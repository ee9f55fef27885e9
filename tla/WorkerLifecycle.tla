-------------------------- MODULE WorkerLifecycle ---------------------------
(***************************************************************************)
(* The lifecycle of the two workers: Start, Stop, IsRunning and the        *)
(* goroutine that Start leaves behind (populator.go:135-219, which         *)
(* processor.go:214-308 repeats).                                          *)
(*                                                                         *)
(* A run of a worker is named by the caller that started it: main starts   *)
(* each worker once, and so does a request at most.  The error a run ends  *)
(* with is left out, as all that is ever done with it is to log it.        *)
(***************************************************************************)
CONSTANTS
    Requests,   \* the requests to auto-send there can be
    Main,       \* the main goroutine
    Nobody,     \* no caller: a nil cancel
    Faults      \* what goes wrong, see FaultKinds

FaultKinds ==
    {"timeout",    \* the wait of a Stop, or of the server's Shutdown, times out
     "limiter"}    \* the processor's limiter fails, which ends its run

Callers == Requests \cup {Main}
Workers == {"populator", "processor"}

ASSUME LifecycleAssumption ==
    /\ Main \notin Requests
    /\ Nobody \notin Callers
    /\ Faults \subseteq FaultKinds

VARIABLES
    cancel,      \* of each worker: the run whose cancel function it holds
    phase,       \* of each run: see Phases
    cancelled,   \* of each worker: the runs whose cancel function has been called
    ctxDone,     \* the context the workers' contexts derive from is cancelled
    chClosed     \* messagesCh is closed

lifeVars == <<cancel, phase, cancelled, ctxDone, chClosed>>

\* A run works until populate or Process returns; then it resets cancel under
\* the mutex, and closes done last of all.
Phases == {"none", "working", "returning", "closing", "closed"}
Live   == {"working", "returning"}

LifecycleTypeOK ==
    /\ cancel \in [Workers -> Callers \cup {Nobody}]
    /\ phase \in [Workers -> [Callers -> Phases]]
    /\ cancelled \in [Workers -> SUBSET Callers]
    /\ ctxDone \in BOOLEAN
    /\ chClosed \in BOOLEAN

\* main has started both workers before it serves any request.
LifecycleInit ==
    /\ cancel = [w \in Workers |-> Main]
    /\ phase = [w \in Workers |-> [c \in Callers |-> IF c = Main THEN "working" ELSE "none"]]
    /\ cancelled = [w \in Workers |-> {}]
    /\ ctxDone = FALSE
    /\ chClosed = FALSE

-----------------------------------------------------------------------------
IsRunning(w) == cancel[w] # Nobody

\* A slip for a mutation run: a start that does not look at cancel.
StartUnchecked(w, c) ==
    /\ cancel' = [cancel EXCEPT ![w] = c]
    /\ phase' = [phase EXCEPT ![w][c] = "working"]
    /\ UNCHANGED <<cancelled, ctxDone, chClosed>>

\* Start: "worker already running" while cancel is set.
StartWorker(w, c) ==
    /\ ~IsRunning(w)
    /\ cancel' = [cancel EXCEPT ![w] = c]
    /\ phase' = [phase EXCEPT ![w][c] = "working"]
    /\ UNCHANGED <<cancelled, ctxDone, chClosed>>

\* A slip for a mutation run: a stop that resets cancel.
StopAndClear(w) ==
    /\ IsRunning(w)
    /\ cancelled' = [cancelled EXCEPT ![w] = @ \cup {cancel[w]}]
    /\ cancel' = [cancel EXCEPT ![w] = Nobody]
    /\ UNCHANGED <<phase, ctxDone, chClosed>>

\* The first half of Stop.  It takes cancel and done together under the mutex
\* and calls cancel after it; as that only concerns the run it has taken, the
\* two are one step.
StopWorker(w) ==
    /\ IsRunning(w)
    /\ cancelled' = [cancelled EXCEPT ![w] = @ \cup {cancel[w]}]
    /\ UNCHANGED <<cancel, phase, ctxDone, chClosed>>

\* done of run c is closed, for which the second half of Stop waits.
Ended(w, c) == phase[w][c] = "closed"

-----------------------------------------------------------------------------
Move(w, c, from, to) ==
    /\ phase[w][c] = from
    /\ phase' = [phase EXCEPT ![w][c] = to]

\* populate or Process returns because its context is cancelled.
ReturnCancelled(w, c) ==
    /\ c \in cancelled[w] \/ ctxDone
    /\ Move(w, c, "working", "returning")
    /\ UNCHANGED <<cancel, cancelled, ctxDone, chClosed>>

\* Process also returns when the channel is closed or the limiter fails.
ReturnAlone(c) ==
    /\ chClosed \/ "limiter" \in Faults
    /\ Move("processor", c, "working", "returning")
    /\ UNCHANGED <<cancel, cancelled, ctxDone, chClosed>>

ResetCancel(w, c) ==
    /\ Move(w, c, "returning", "closing")
    /\ cancel' = [cancel EXCEPT ![w] = Nobody]
    /\ UNCHANGED <<cancelled, ctxDone, chClosed>>

\* The run and its context are gone.
CloseDone(w, c) ==
    /\ Move(w, c, "closing", "closed")
    /\ cancelled' = [cancelled EXCEPT ![w] = @ \ {c}]
    /\ UNCHANGED <<cancel, ctxDone, chClosed>>

RunStep(w, c) ==
    ReturnCancelled(w, c) \/ ResetCancel(w, c) \/ CloseDone(w, c)
=============================================================================
