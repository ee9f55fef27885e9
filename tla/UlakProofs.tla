----------------------------- MODULE UlakProofs -----------------------------
(***************************************************************************)
(* The program implements both of its halves: seen from the requests it is *)
(* AutoSend, seen from the messages it is Delivery.  What is proved of     *)
(* either holds of the program.                                            *)
(***************************************************************************)
EXTENDS Ulak, AutoSendProofs

\* The small sets of names are expanded everywhere.
USE DEF Callers, Workers, Phases, Live, IsRunning

-----------------------------------------------------------------------------
(***************************************************************************)
(* The lifecycle.                                                          *)
(***************************************************************************)
LEMMA StepLifecycle == [ProgNext]_progVars => [Next]_vars
<1> SUFFICES ASSUME [ProgNext]_progVars PROVE [Next]_vars
  OBVIOUS
<1>1. CASE UNCHANGED progVars
  BY <1>1 DEF progVars
<1>2. CASE \E r \in Requests : Arrive(r) \/ Answer(r)
  BY <1>2 DEF Arrive, Answer, Next
<1>3. CASE Interrupt \/ Finish
  BY <1>3 DEF Interrupt, Finish, Next
<1>4. CASE \E w \in Workers, c \in Callers : AfterReturn(w, c)
  BY <1>4 DEF AfterReturn, Next
<1>5. CASE Insert \/ Populate \/ Process \/ \E m \in Pipeline!Offsets : ProcessMessage(m)
  <2>1. CASE PopulatorReturns \/ ProcessorReturns
    BY <2>1 DEF PopulatorReturns, ProcessorReturns, Next
  <2> QED
    BY <1>5, <2>1 DEF Insert, Populate, Process, ProcessMessage, Inward
<1> QED
  BY <1>1, <1>2, <1>3, <1>4, <1>5 DEF ProgNext

\* What AutoSendProofs shows of requests, main and runs holds of the program.
THEOREM ProgramImplementsLifecycle == ProgSpec => Spec
  BY StepLifecycle, PTL DEF ProgSpec, ProgInit, Spec

LEMMA ProgramAInv == ProgSpec => []AInv
  BY ProgramImplementsLifecycle, LifecycleInvariant, PTL

-----------------------------------------------------------------------------
(***************************************************************************)
(* What the lifecycle's steps are for the loops.                           *)
(***************************************************************************)
LoopsUnaware == RunOf("populator")' = RunOf("populator") /\ RunOf("processor")' = RunOf("processor")

\* Only the phases, cancel, the cancelled runs and main's context count.
LEMMA UnawareOfCallers == UNCHANGED lifeVars => LoopsUnaware
  BY DEF lifeVars, LoopsUnaware, RunOf

\* A run that has been started is one the loop has not seen before.
LEMMA StartAware ==
  ASSUME AInv, NEW w \in Workers, NEW r \in Requests, StartWorker(w, r), phase[w][r] = "none"
  PROVE  /\ RunOf(w) = "off" /\ RunOf(w)' \in {"on", "cancelled"}
         /\ \A v \in Workers \ {w} : RunOf(v)' = RunOf(v)
<1> USE LifecycleAssumption DEF AInv, TypeOK, LifecycleTypeOK, StartWorker, RunOf
<1>1. RunOf(w) = "off"
  BY DEF HandleIsRun
<1>2. RunOf(w)' \in {"on", "cancelled"}
  OBVIOUS
<1>3. \A v \in Workers \ {w} : RunOf(v)' = RunOf(v)
  OBVIOUS
<1> QED
  BY <1>1, <1>2, <1>3

\* A stop cancels the context of its worker's loop, if that is still there.
LEMMA StopAware ==
  ASSUME AInv, NEW w \in Workers, StopWorker(w)
  PROVE  /\ RunOf(w)' = IF RunOf(w) = "off" THEN "off" ELSE "cancelled"
         /\ \A v \in Workers \ {w} : RunOf(v)' = RunOf(v)
<1> USE LifecycleAssumption DEF AInv, TypeOK, LifecycleTypeOK, StopWorker, RunOf
<1>1. RunOf(w)' = IF RunOf(w) = "off" THEN "off" ELSE "cancelled"
  OBVIOUS
<1>2. \A v \in Workers \ {w} : RunOf(v)' = RunOf(v)
  OBVIOUS
<1> QED
  BY <1>1, <1>2

\* The end of main's context cancels every loop.
LEMMA ShutdownAware ==
  ASSUME Shutdown, NEW w \in Workers
  PROVE  RunOf(w)' = IF RunOf(w) = "off" THEN "off" ELSE "cancelled"
  BY DEF Shutdown, RunOf

\* What a run does after the return is nothing to a loop: there is none.
LEMMA AfterReturnUnaware ==
  ASSUME AInv, NEW w \in Workers, NEW c \in Callers, AfterReturn(w, c)
  PROVE  LoopsUnaware
<1> USE LifecycleAssumption DEF AInv, TypeOK, LifecycleTypeOK, RunOf
<1>1. ASSUME NEW v \in Workers PROVE RunOf(v)' = RunOf(v)
  <2>1. CASE ResetCancel(w, c)
    <3>1. v # w => RunOf(v)' = RunOf(v)
      BY <2>1 DEF ResetCancel, Move
    <3>2. RunOf(w) = "off" /\ RunOf(w)' = "off"
      BY <2>1 DEF ResetCancel, Move, HandleIsRun
    <3> QED
      BY <3>1, <3>2
  <2>2. CASE CloseDone(w, c)
    <3>1. cancel[w] # c
      BY <2>2 DEF CloseDone, Move, HandleIsRun
    <3> QED
      BY <2>2, <3>1 DEF CloseDone, Move
  <2>3. ~ReturnCancelled(w, c)
    BY DEF AfterReturn, ReturnCancelled, Move
  <2> QED
    BY <2>1, <2>2, <2>3 DEF AfterReturn, Run, RunStep
<1> QED
  BY <1>1 DEF LoopsUnaware

-----------------------------------------------------------------------------
(***************************************************************************)
(* The pipeline.                                                           *)
(***************************************************************************)
Same(w)      == RunOf(w)' = RunOf(w)
Started(w)   == RunOf(w) = "off" /\ RunOf(w)' \in {"on", "cancelled"}
Cancelled(w) == RunOf(w) = "on" /\ RunOf(w)' = "cancelled"

\* Such changes of the runs are what Delivery's Operate allows for.
LEMMA RunsAreOperated ==
  ASSUME UNCHANGED pipeVars,
         \/ Same("populator") /\ Same("processor")
         \/ (Started("populator") \/ Cancelled("populator")) /\ Same("processor")
         \/ Same("populator") /\ (Started("processor") \/ Cancelled("processor"))
         \/ Cancelled("populator") /\ Cancelled("processor")
  PROVE  [Pipeline!Next]_(Pipeline!vars)
<1> USE DEF pipeVars, Same, Started, Cancelled
<1>1. CASE Same("populator") /\ Same("processor")
  BY <1>1 DEF Pipeline!vars, Pipeline!popVars, Pipeline!procVars, Pipeline!history
<1>2. ASSUME Started("populator") \/ Cancelled("populator"), Same("processor")
      PROVE  Pipeline!Operate
  BY <1>2 DEF Pipeline!Operate, Pipeline!StartPopulator, Pipeline!CancelPopulator, Pipeline!procVars, Pipeline!history
<1>3. ASSUME Started("processor") \/ Cancelled("processor"), Same("populator")
      PROVE  Pipeline!Operate
  BY <1>3 DEF Pipeline!Operate, Pipeline!StartProcessor, Pipeline!CancelProcessor, Pipeline!popVars, Pipeline!history
<1>4. ASSUME Cancelled("populator"), Cancelled("processor")
      PROVE  Pipeline!Operate
  BY <1>4 DEF Pipeline!Operate, Pipeline!CancelPopulator, Pipeline!CancelProcessor, Pipeline!history
<1> QED
  BY <1>1, <1>2, <1>3, <1>4 DEF Pipeline!Next

\* A loop that is told to end is off, has been told before, or is told now.
LEMMA RunOfType == \A w \in Workers : RunOf(w) \in {"off", "on", "cancelled"}
  BY DEF RunOf

LEMMA StopIsOperated ==
  ASSUME AInv, NEW w \in Workers, StopWorker(w), UNCHANGED pipeVars
  PROVE  [Pipeline!Next]_(Pipeline!vars)
<1>1. Same(w) \/ Cancelled(w)
  BY StopAware, RunOfType DEF Same, Cancelled
<1>2. \A v \in Workers \ {w} : Same(v)
  BY StopAware DEF Same
<1> QED
  BY <1>1, <1>2, RunsAreOperated

LEMMA ServeIsOperated ==
  ASSUME AInv, NEW r \in Requests, Serve(r), UNCHANGED pipeVars
  PROVE  [Pipeline!Next]_(Pipeline!vars)
<1>1. CASE UNCHANGED lifeVars
  BY <1>1, UnawareOfCallers, RunsAreOperated DEF LoopsUnaware, Same
<1>2. ASSUME NEW w \in Workers, at[r] = w, StartWorker(w, r), pc[r] = "start"
      PROVE  [Pipeline!Next]_(Pipeline!vars)
  <2>1. phase[w][r] = "none"
    BY <1>2 DEF AInv, StartsOnce
  <2>2. Started(w) /\ \A v \in Workers \ {w} : Same(v)
    BY <1>2, <2>1, StartAware DEF Started, Same
  <2> QED
    BY <2>2, RunsAreOperated
<1>3. ASSUME NEW w \in Workers, StopWorker(w) PROVE [Pipeline!Next]_(Pipeline!vars)
  BY <1>3, StopIsOperated
<1>4. at[r] \in Workers
  BY DEF AInv, TypeOK
<1> QED
  BY <1>1, <1>2, <1>3, <1>4 DEF Serve, Enter, GetStatus, StartWorkers, StopWorkers, Wait, GetStatusAgain, Leave

LEMMA ShutDownIsOperated ==
  ASSUME AInv, ShutDown, UNCHANGED pipeVars
  PROVE  [Pipeline!Next]_(Pipeline!vars)
<1>1. CASE Shutdown
  <2>1. \A w \in Workers : Same(w) \/ Cancelled(w)
    BY <1>1, ShutdownAware, RunOfType DEF Same, Cancelled
  <2> QED
    BY <2>1, RunsAreOperated
<1>2. ASSUME NEW w \in Workers, StopWorker(w) PROVE [Pipeline!Next]_(Pipeline!vars)
  BY <1>2, StopIsOperated
<1>3. CASE UNCHANGED <<cancel, phase, cancelled, ctxDone>>
  BY <1>3, RunsAreOperated DEF RunOf, Same
<1>4. at[Main] \in Workers
  BY DEF AInv, TypeOK
<1> QED
  BY <1>1, <1>2, <1>3, <1>4 DEF ShutDown, StopWorkers, Wait, CloseChannel, Exit, lifeVars

LEMMA StepPipeline == AInv /\ [ProgNext]_progVars => [Pipeline!Next]_(Pipeline!vars)
<1> SUFFICES ASSUME AInv, [ProgNext]_progVars PROVE [Pipeline!Next]_(Pipeline!vars)
  OBVIOUS
<1>1. CASE UNCHANGED progVars
  BY <1>1, UnawareOfCallers, RunsAreOperated DEF progVars, vars, LoopsUnaware, Same
<1>2. ASSUME NEW r \in Requests, Arrive(r) PROVE [Pipeline!Next]_(Pipeline!vars)
  BY <1>2, UnawareOfCallers, RunsAreOperated DEF Arrive, Accept, LoopsUnaware, Same
<1>3. ASSUME NEW r \in Requests, Answer(r) PROVE [Pipeline!Next]_(Pipeline!vars)
  BY <1>3, ServeIsOperated DEF Answer
<1>4. CASE Interrupt
  BY <1>4, UnawareOfCallers, RunsAreOperated DEF Interrupt, Signal, LoopsUnaware, Same
<1>5. CASE Finish
  BY <1>5, ShutDownIsOperated DEF Finish
<1>6. ASSUME NEW w \in Workers, NEW c \in Callers, AfterReturn(w, c)
      PROVE  [Pipeline!Next]_(Pipeline!vars)
  BY <1>6, AfterReturnUnaware, RunsAreOperated DEF AfterReturn, LoopsUnaware, Same
<1>7. CASE Insert \/ Populate \/ Process \/ \E m \in Pipeline!Offsets : ProcessMessage(m)
  BY <1>7 DEF Insert, Populate, PopulatorReturns, Process, ProcessorReturns, ProcessMessage, Pipeline!Next
<1> QED
  BY <1>1, <1>2, <1>3, <1>4, <1>5, <1>6, <1>7 DEF ProgNext

\* Whatever requests come, whatever times out and fails and whenever the
\* program is told to end, its messages move as Delivery says.
THEOREM ProgramImplementsPipeline == ProgSpec => ImplementsPipeline
<1>1. ProgInit => Pipeline!Init
  BY DEF ProgInit
<1> QED
  BY <1>1, StepPipeline, ProgramAInv, PTL DEF ProgSpec, ImplementsPipeline, Pipeline!Spec

-----------------------------------------------------------------------------
(***************************************************************************)
(* A loop that has ended has left nothing behind.                          *)
(***************************************************************************)
AtRest ==
    /\ Pipeline!IdleWhenOff
    /\ Pipeline!DrainedBeforeOff
    /\ Pipeline!NoBurstNoTask
    /\ popPc = "select" => messages = <<>> /\ next = 1

LEMMA InitAtRest == Pipeline!Init => AtRest
  BY DEF Pipeline!Init, Pipeline!PopulatorInit, Pipeline!ProcessorInit, AtRest, Pipeline!IdleWhenOff,
     Pipeline!DrainedBeforeOff, Pipeline!NoBurstNoTask, Pipeline!Active, Pipeline!Started, Pipeline!Working

\* A goroutine that takes a step has been started and has not returned.
LEMMA StepOfActive ==
  ASSUME NEW m \in Pipeline!Offsets, Pipeline!ProcessMessage(m)
  PROVE  /\ m \in Pipeline!Active /\ m \in Pipeline!Started
         /\ UNCHANGED <<RunOf("processor"), procPc>> /\ UNCHANGED Pipeline!popVars
  BY DEF Pipeline!ProcessMessage, Pipeline!BeginTx, Pipeline!NotificationSent, Pipeline!NotificationFails,
     Pipeline!NotificationPanics, Pipeline!TxUpdate, Pipeline!SetMessageDelivered,
     Pipeline!SetMessageDeliveredFails, Pipeline!Commit, Pipeline!CommitFails, Pipeline!MarkFailed,
     Pipeline!Active, Pipeline!Started, Pipeline!Working

LEMMA StepAtRest == AtRest /\ [Pipeline!Next]_(Pipeline!vars) => AtRest'
<1> SUFFICES ASSUME AtRest, [Pipeline!Next]_(Pipeline!vars) PROVE AtRest'
  OBVIOUS
<1> USE DEF AtRest, Pipeline!IdleWhenOff, Pipeline!DrainedBeforeOff, Pipeline!NoBurstNoTask,
        Pipeline!Active, Pipeline!Started, Pipeline!popVars, Pipeline!procVars
<1>1. ASSUME NEW m \in Pipeline!Offsets, Pipeline!Insert(m) PROVE AtRest'
  BY <1>1 DEF Pipeline!Insert
<1>2. ASSUME NEW m \in Pipeline!Offsets, Pipeline!ProcessMessage(m) PROVE AtRest'
  BY <1>2, StepOfActive
<1>3. ~Pipeline!Restart
  BY DEF Pipeline!Restart
<1>4. CASE Pipeline!Operate
  BY <1>4 DEF Pipeline!Operate, Pipeline!StartPopulator, Pipeline!CancelPopulator,
     Pipeline!StartProcessor, Pipeline!CancelProcessor
<1>5. CASE Pipeline!Populate
  BY <1>5 DEF Pipeline!Populate, Pipeline!Tick, Pipeline!PausePopulator, Pipeline!AcceptBatch,
     Pipeline!SendMessage, Pipeline!SendFails, Pipeline!Sending, Pipeline!CompleteBatch,
     Pipeline!EndPass, Pipeline!ExitPopulator
<1>6. CASE Pipeline!Process
  <2>1. CASE Pipeline!SpawnTask
    BY <2>1, <1>6 DEF Pipeline!SpawnTask, Pipeline!Process
  <2>2. CASE Pipeline!LimiterFails
    BY <2>2, <1>6 DEF Pipeline!LimiterFails, Pipeline!Process, Pipeline!Working
  <2> QED
    BY <1>6, <2>1, <2>2 DEF Pipeline!Process, Pipeline!ReceiveMessage, Pipeline!DropCancelled,
       Pipeline!BeginDrain, Pipeline!ExitProcessor
<1>7. CASE UNCHANGED Pipeline!vars
  BY <1>7 DEF Pipeline!vars
<1> QED
  BY <1>1, <1>2, <1>3, <1>4, <1>5, <1>6, <1>7 DEF Pipeline!Next

LEMMA ProgramAtRest == ProgSpec => []AtRest
  BY InitAtRest, StepAtRest, ProgramImplementsPipeline, PTL DEF ImplementsPipeline, Pipeline!Spec

\* IsRunning tells the truth about the loop.
LEMMA NotRunningIsOff == AInv => \A w \in Workers : ~IsRunning(w) => RunOf(w) = "off"
  BY LifecycleAssumption DEF AInv, HandleIsRun, RunOf

\* After a stop nothing is sent, recorded or written until the next start,
\* whatever times out or fails (processor.go:174-177, message.go:36-41).
THEOREM StoppedIsSilent == ProgSpec => SilentWhenStopped
<1> DEFINE Kept == /\ delivered' = delivered /\ recorded' = recorded
                   /\ \A m \in Pipeline!Offsets : status[m] # "ABSENT" => status'[m] = status[m]
<1>1. ASSUME AInv, AtRest, [Pipeline!Next]_(Pipeline!vars), \A w \in Workers : ~IsRunning(w)
      PROVE  Kept
  <2>1. RunOf("populator") = "off" /\ RunOf("processor") = "off"
    BY <1>1, NotRunningIsOff
  <2>2. Pipeline!Active = {} /\ procPc = "select"
    BY <1>1, <2>1 DEF AtRest, Pipeline!IdleWhenOff, Pipeline!DrainedBeforeOff
  <2>3. ASSUME NEW m \in Pipeline!Offsets, Pipeline!Insert(m) PROVE Kept
    BY <2>3 DEF Pipeline!Insert, Pipeline!Create, Pipeline!Visible, Pipeline!procVars
  <2>4. \A m \in Pipeline!Offsets : ~Pipeline!ProcessMessage(m)
    BY <2>2, StepOfActive
  <2>5. CASE Pipeline!Operate
    BY <2>5 DEF Pipeline!Operate, Pipeline!StartPopulator, Pipeline!CancelPopulator,
       Pipeline!StartProcessor, Pipeline!CancelProcessor, Pipeline!procVars
  <2>6. CASE Pipeline!Populate
    BY <2>6 DEF Pipeline!Populate, Pipeline!Tick, Pipeline!PausePopulator, Pipeline!AcceptBatch,
       Pipeline!SendMessage, Pipeline!SendFails, Pipeline!CompleteBatch,
       Pipeline!EndPass, Pipeline!ExitPopulator, Pipeline!procVars
  <2>7. CASE Pipeline!Process
    BY <2>7 DEF Pipeline!Process, Pipeline!ReceiveMessage, Pipeline!SpawnTask, Pipeline!DropCancelled,
       Pipeline!LimiterFails, Pipeline!BeginDrain, Pipeline!ExitProcessor
  <2>8. CASE UNCHANGED Pipeline!vars
    BY <2>8 DEF Pipeline!vars, Pipeline!procVars
  <2> QED
    BY <1>1, <2>3, <2>4, <2>5, <2>6, <2>7, <2>8 DEF Pipeline!Next, Pipeline!Restart
<1>2. AInv /\ AtRest /\ [ProgNext]_progVars => [(\A w \in Workers : ~IsRunning(w)) => Kept]_progVars
  BY <1>1, StepPipeline
<1> QED
  BY <1>2, ProgramAInv, ProgramAtRest, PTL DEF ProgSpec, SilentWhenStopped

\* A shutdown without timeouts leaves nothing in anybody's hands
\* (main.go:132-139).
THEOREM ExitIsClean ==
    ASSUME "timeout" \notin Faults PROVE ProgSpec => []CleanExit
<1>1. ASSUME AInv, AtRest, chClosed PROVE CleanExit
  <2>1. \A w \in Workers : ~IsRunning(w)
    BY <1>1 DEF AInv, InStep, ShutsDownAlone
  <2>2. RunOf("populator") = "off" /\ RunOf("processor") = "off"
    BY <1>1, <2>1, NotRunningIsOff
  <2>3. popPc = "select" /\ procPc = "select" /\ messages = <<>> /\ next = 1 /\ Pipeline!Active = {}
    BY <1>1, <2>2 DEF AtRest, Pipeline!IdleWhenOff, Pipeline!DrainedBeforeOff
  <2>4. next..Len(messages) = {}
    BY <2>3
  <2> QED
    BY <2>3, <2>4 DEF CleanExit, Pipeline!Unsent, Pipeline!Held
<1>2. AInv /\ AtRest => CleanExit
  BY <1>1 DEF CleanExit
<1> QED
  BY <1>2, ProgramAInv, ProgramAtRest, PTL
=============================================================================
