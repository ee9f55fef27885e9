-------------------------------- MODULE Ulak --------------------------------
(***************************************************************************)
(* The program as a whole (src/cmd/main.go), from its start to its exit:   *)
(* the requests, main and the runs of AutoSend beside the pipeline of      *)
(* Delivery.  The two meet in the workers' contexts, which a stop and the  *)
(* shutdown cancel, and in the return of populate and Process, for which a *)
(* stop waits.                                                             *)
(***************************************************************************)
EXTENDS AutoSend, Integers, Sequences

CONSTANTS
    MaxOffset, NewStatuses, MessageChannelSize, MaxRecordsPerRead,
    MessageChannelSendTimeout, RateLimitBurst,
    CallFaults   \* what goes wrong in the pipeline, beside the stops

VARIABLES
    status, messagesCh,
    popPc, messages, next, isProcessing, lastProcessedOffset,
    procPc, held, task, delivered, recorded,
    dropped, late

pipeVars == <<status, messagesCh, popPc, messages, next, isProcessing,
              lastProcessedOffset, procPc, held, task, delivered, recorded, dropped, late>>

progVars == <<vars, pipeVars>>

\* What the loop of worker w can see of its run.
RunOf(w) ==
    IF \A c \in Callers : phase[w][c] # "working" THEN "off"
    ELSE IF ctxDone \/ cancel[w] \in cancelled[w] THEN "cancelled" ELSE "on"

Pipeline == INSTANCE Delivery
              WITH popRun <- RunOf("populator"), procRun <- RunOf("processor"),
                   Faults <- CallFaults \cup {"stop"}, restarts <- 0, MaxRestarts <- 0

ASSUME UlakAssumption ==
    /\ Pipeline!StoreAssumption /\ Pipeline!ChannelAssumption
    /\ Pipeline!PopulatorAssumption /\ Pipeline!ProcessorAssumption
    /\ "limiter" \in Faults <=> RateLimitBurst = 0

ProgInit == Init /\ Pipeline!Init

-----------------------------------------------------------------------------
\* Requests, the signal and main touch the pipeline through the runs alone.
Arrive(r) == Accept(r) /\ UNCHANGED pipeVars
Answer(r) == Serve(r) /\ UNCHANGED pipeVars
Interrupt == Signal /\ UNCHANGED pipeVars
Finish    == ShutDown /\ UNCHANGED pipeVars

\* A step inside the loops leaves the lifecycle alone.
Inward == Alive /\ UNCHANGED vars

Insert == Inward /\ \E m \in Pipeline!Offsets : Pipeline!Insert(m)

\* populate returns when it is cancelled ...
PopulatorReturns ==
    \E c \in Callers : Run("populator", c) /\ Pipeline!ExitPopulator /\ Pipeline!Populate

\* ... and Process when it is, or when its limiter fails.  A channel that is
\* closed makes it return as its context does, which is done by then.
ProcessorReturns ==
    \E c \in Callers :
        /\ \/ Run("processor", c) /\ Pipeline!ExitProcessor
           \/ RunEndsAlone(c) /\ Pipeline!LimiterFails
        /\ Pipeline!Process

\* A send on the closed channel would panic and end the program, which is Exit.
Populate ==
    \/ Inward /\ Pipeline!Populate /\ (chClosed => UNCHANGED messagesCh)
    \/ PopulatorReturns

Process == (Inward /\ Pipeline!Process) \/ ProcessorReturns

ProcessMessage(m) == Inward /\ Pipeline!ProcessMessage(m)

\* A slip for a mutation run: the goroutine does not wait for the return.
AfterNothing(w, c) == Run(w, c) /\ UNCHANGED pipeVars

\* What the goroutine of a run does after the return.
AfterReturn(w, c) ==
    /\ phase[w][c] \in {"returning", "closing"}
    /\ Run(w, c)
    /\ UNCHANGED pipeVars

ProgNext ==
    \/ \E r \in Requests : Arrive(r) \/ Answer(r)
    \/ Interrupt \/ Finish
    \/ \E w \in Workers, c \in Callers : AfterReturn(w, c)
    \/ Insert \/ Populate \/ Process
    \/ \E m \in Pipeline!Offsets : ProcessMessage(m)
    \/ ~Alive /\ UNCHANGED progVars

ProgSpec == ProgInit /\ [][ProgNext]_progVars

\* A request that has been accepted is served, main and the goroutines of the
\* runs go on, and the pipeline as in Delivery.  That a run that is cancelled
\* ends is not assumed.  Nothing obliges anyone to send a request or a signal.
ProgFairness ==
    /\ \A r \in Requests : WF_progVars(Answer(r))
    /\ WF_progVars(Finish)
    /\ \A w \in Workers, c \in Callers : WF_progVars(AfterReturn(w, c))
    /\ WF_progVars(Populate)
    /\ SF_progVars(PopulatorReturns)
    /\ WF_progVars(Process)
    /\ \A m \in Pipeline!Offsets : WF_progVars(ProcessMessage(m))

ProgFairSpec == ProgSpec /\ ProgFairness

-----------------------------------------------------------------------------
\* Whatever requests, timeouts and the shutdown do, the pipeline only sees the
\* starts and cancellations that Delivery allows for.
ImplementsPipeline == Pipeline!Spec

\* While IsRunning says of both workers that they are off, nobody sends a
\* message, records one or writes to a row that is there: a goroutine of a run
\* that was stopped does not go on behind the answer (processor.go:174-177,
\* message.go:36-41).
SilentWhenStopped ==
    [][(\A w \in Workers : ~IsRunning(w)) =>
          /\ delivered' = delivered /\ recorded' = recorded
          /\ \A m \in Pipeline!Offsets : status[m] # "ABSENT" => status'[m] = status[m]
      ]_progVars

\* A shutdown that does not time out closes the channel when both loops are at
\* rest and no message is in anybody's hands: nothing is lost by the exit but
\* what is still in the channel (main.go:132-139).
CleanExit ==
    chClosed =>
        /\ popPc = "select" /\ procPc = "select"
        /\ Pipeline!Unsent = {} /\ Pipeline!Held = {} /\ Pipeline!Active = {}
=============================================================================
