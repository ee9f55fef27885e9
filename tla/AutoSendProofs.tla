--------------------------- MODULE AutoSendProofs ---------------------------
(***************************************************************************)
(* Proofs about AutoSend, for any number of requests: a worker has one run *)
(* at a time, a stop stops, a start starts, the channel is closed last,    *)
(* and the lifecycle implements WorkerRuns.                                *)
(***************************************************************************)
EXTENDS AutoSend, TLAPS

callerVars == <<pc, at, stopping, timedOut, reqVars>>

\* The small sets of names are expanded everywhere.
USE DEF Callers, Workers, Phases, Live, RequestSteps, MainSteps, Actions, Inside,
        Pairwise, IsRunning

-----------------------------------------------------------------------------
(***************************************************************************)
(* The inductive invariant, one lemma for each action.                     *)
(***************************************************************************)

\* A request arrives; it has not started anything yet.
LEMMA AcceptAInv ==
  ASSUME AInv, NEW r \in Requests, Accept(r)
  PROVE  AInv'
<1> USE LifecycleAssumption DEF AInv, TypeOK, LifecycleTypeOK, reqVars, lifeVars, Accept, Goto
<1>1. TypeOK'
  OBVIOUS
<1>2. HandleIsRun'
  BY DEF HandleIsRun
<1>3. EndsForCause'
  BY DEF HandleIsRun, EndsForCause
<1>4. StartsOnce'
  BY DEF StartsOnce
<1>5. InStep'
  BY DEF InStep
<1>6. RequestsAwaitLast'
  BY DEF HandleIsRun, InStep, RequestsAwaitLast, AwaitsLast
<1>7. StopsInTurn'
  BY DEF HandleIsRun, InStep, RequestsAwaitLast, AwaitsLast, StopsInTurn, StopInTurn
<1>8. ShutsDownAlone'
  BY DEF HandleIsRun, InStep, AwaitsLast, ShutsDownAlone
<1>9. Faultless'
  BY DEF HandleIsRun, EndsForCause, StartsOnce, InStep, RequestsAwaitLast, AwaitsLast, ShutsDownAlone, Faultless, EndingIsAwaited, BothOrNone, StartInTurn, Midway, RunningOn
<1> QED
  BY <1>1, <1>2, <1>3, <1>4, <1>5, <1>6, <1>7, <1>8, <1>9

\* The lock was free: no other request is inside.
LEMMA EnterAInv ==
  ASSUME AInv, NEW r \in Requests, Enter(r)
  PROVE  AInv'
<1> USE LifecycleAssumption DEF AInv, TypeOK, LifecycleTypeOK, reqVars, lifeVars, Enter, Goto
<1>1. TypeOK'
  OBVIOUS
<1>2. HandleIsRun'
  BY DEF HandleIsRun
<1>3. EndsForCause'
  BY DEF HandleIsRun, EndsForCause
<1>4. StartsOnce'
  BY DEF StartsOnce
<1>5. InStep'
  BY DEF InStep
<1>6. RequestsAwaitLast'
  BY DEF HandleIsRun, InStep, RequestsAwaitLast, AwaitsLast
<1>7. StopsInTurn'
  BY DEF HandleIsRun, InStep, RequestsAwaitLast, AwaitsLast, StopsInTurn, StopInTurn
<1>8. ShutsDownAlone'
  BY DEF HandleIsRun, InStep, AwaitsLast, ShutsDownAlone
<1>9. Faultless'
  BY DEF HandleIsRun, EndsForCause, StartsOnce, InStep, RequestsAwaitLast, AwaitsLast, ShutsDownAlone, Faultless, EndingIsAwaited, BothOrNone, StartInTurn, Midway, RunningOn
<1> QED
  BY <1>1, <1>2, <1>3, <1>4, <1>5, <1>6, <1>7, <1>8, <1>9

\* The status is read by the only request that is inside.
LEMMA GetStatusAInv ==
  ASSUME AInv, NEW r \in Requests, GetStatus(r)
  PROVE  AInv'
<1> USE LifecycleAssumption DEF AInv, TypeOK, LifecycleTypeOK, reqVars, lifeVars, GetStatus, Alternate, Seen, Refuses
<1>1. TypeOK'
  <2>1. action[r] \in Actions
    BY DEF InStep
  <2>2. pc'[r] \in RequestSteps
    BY <2>1
  <2> QED
    BY <2>2
<1>2. HandleIsRun'
  BY DEF HandleIsRun
<1>3. EndsForCause'
  BY DEF HandleIsRun, EndsForCause
<1>4. StartsOnce'
  BY DEF StartsOnce
<1>5. InStep'
  BY DEF InStep
<1>6. RequestsAwaitLast'
  BY DEF HandleIsRun, InStep, RequestsAwaitLast, AwaitsLast
<1>7. StopsInTurn'
  <2> SUFFICES ASSUME NEW q \in Requests PROVE StopInTurn(q)'
    BY DEF StopsInTurn
  <2>1. CASE q # r
    BY <2>1 DEF InStep, StopsInTurn, StopInTurn
  <2>2. CASE q = r /\ at[r] = "populator"
    BY <2>2 DEF InStep, StopsInTurn, StopInTurn
  <2>3. CASE q = r /\ at[r] = "processor"
    BY <2>3 DEF InStep, StopsInTurn, StopInTurn
  <2> QED
    BY <2>1, <2>2, <2>3
<1>8. ShutsDownAlone'
  BY DEF HandleIsRun, InStep, AwaitsLast, ShutsDownAlone
<1>9. Faultless'
  BY DEF HandleIsRun, EndsForCause, StartsOnce, InStep, RequestsAwaitLast, AwaitsLast, ShutsDownAlone, Faultless, EndingIsAwaited, BothOrNone, StartInTurn, Midway, RunningOn
<1> QED
  BY <1>1, <1>2, <1>3, <1>4, <1>5, <1>6, <1>7, <1>8, <1>9

\* A run is started where there was none, by a caller that had none.
LEMMA StartWorkersAInv ==
  ASSUME AInv, NEW r \in Requests, StartWorkers(r)
  PROVE  AInv'
<1> USE LifecycleAssumption DEF AInv, TypeOK, LifecycleTypeOK, reqVars, lifeVars, StartWorkers, StartWorker, Alternate, Goto
<1>1. TypeOK'
  OBVIOUS
<1>2. HandleIsRun'
  BY DEF HandleIsRun
<1>3. EndsForCause'
  BY DEF HandleIsRun, EndsForCause
<1>4. StartsOnce'
  BY DEF StartsOnce
<1>5. InStep'
  BY DEF InStep
<1>6. RequestsAwaitLast'
  BY DEF HandleIsRun, InStep, RequestsAwaitLast, AwaitsLast
<1>7. StopsInTurn'
  BY DEF HandleIsRun, InStep, RequestsAwaitLast, AwaitsLast, StopsInTurn, StopInTurn
<1>8. ShutsDownAlone'
  BY DEF HandleIsRun, InStep, AwaitsLast, ShutsDownAlone
<1>9. Faultless'
  <2> SUFFICES ASSUME Faults = {}, ~ctxDone'
               PROVE  EndingIsAwaited' /\ BothOrNone' /\ \A q \in Requests : StartInTurn(q)'
    BY DEF Faultless
  <2>1. ~ctxDone /\ EndingIsAwaited /\ BothOrNone /\ \A q \in Requests : StartInTurn(q)
    BY DEF Faultless
  <2>2. EndingIsAwaited'
    BY <2>1 DEF EndingIsAwaited, HandleIsRun, EndsForCause, StartsOnce, InStep, RequestsAwaitLast, AwaitsLast, RunningOn
  <2>3. BothOrNone'
    BY <2>1 DEF BothOrNone, StartInTurn, HandleIsRun, InStep, RequestsAwaitLast, AwaitsLast, StopsInTurn, StopInTurn, Midway
  <2>4. \A q \in Requests : StartInTurn(q)'
    BY <2>1 DEF EndingIsAwaited, BothOrNone, StartInTurn, HandleIsRun, InStep, RequestsAwaitLast, AwaitsLast, Midway, RunningOn
  <2> QED
    BY <2>2, <2>3, <2>4
<1> QED
  BY <1>1, <1>2, <1>3, <1>4, <1>5, <1>6, <1>7, <1>8, <1>9

\* The run that is taken is the last of its worker.
LEMMA StopWorkersAInv ==
  ASSUME AInv, NEW c \in Callers, StopWorkers(c)
  PROVE  AInv'
<1> USE LifecycleAssumption DEF AInv, TypeOK, LifecycleTypeOK, reqVars, lifeVars, StopWorkers, StopWorker, StopNext, Alternate, Goto
<1>1. TypeOK'
  OBVIOUS
<1>2. HandleIsRun'
  BY DEF HandleIsRun
<1>3. EndsForCause'
  BY DEF HandleIsRun, EndsForCause
<1>4. StartsOnce'
  BY DEF StartsOnce
<1>5. InStep'
  BY DEF InStep
<1>6. RequestsAwaitLast'
  BY DEF HandleIsRun, InStep, RequestsAwaitLast, AwaitsLast
<1>7. StopsInTurn'
  BY DEF HandleIsRun, InStep, RequestsAwaitLast, AwaitsLast, StopsInTurn, StopInTurn
<1>8. ShutsDownAlone'
  BY DEF HandleIsRun, InStep, AwaitsLast, ShutsDownAlone
<1>9. Faultless'
  <2> SUFFICES ASSUME Faults = {}, ~ctxDone'
               PROVE  EndingIsAwaited' /\ BothOrNone' /\ \A q \in Requests : StartInTurn(q)'
    BY DEF Faultless
  <2>1. ~ctxDone /\ EndingIsAwaited /\ BothOrNone /\ \A q \in Requests : StartInTurn(q)
    BY DEF Faultless
  <2>2. EndingIsAwaited'
    BY <2>1 DEF EndingIsAwaited, HandleIsRun, EndsForCause, StartsOnce, InStep, RequestsAwaitLast, AwaitsLast, RunningOn
  <2>3. BothOrNone'
    BY <2>1 DEF BothOrNone, StartInTurn, HandleIsRun, InStep, RequestsAwaitLast, AwaitsLast, StopsInTurn, StopInTurn, Midway
  <2>4. \A q \in Requests : StartInTurn(q)'
    BY <2>1 DEF EndingIsAwaited, BothOrNone, StartInTurn, HandleIsRun, InStep, RequestsAwaitLast, AwaitsLast, Midway, RunningOn
  <2> QED
    BY <2>2, <2>3, <2>4
<1> QED
  BY <1>1, <1>2, <1>3, <1>4, <1>5, <1>6, <1>7, <1>8, <1>9

\* A run that has ended is not the one the worker has.
LEMMA WaitAInv ==
  ASSUME AInv, NEW c \in Callers, Wait(c)
  PROVE  AInv'
<1> USE LifecycleAssumption DEF AInv, TypeOK, LifecycleTypeOK, reqVars, lifeVars, Wait, Ended, StopNext, Alternate
<1>1. TypeOK'
  OBVIOUS
<1>2. HandleIsRun'
  BY DEF HandleIsRun
<1>3. EndsForCause'
  BY DEF HandleIsRun, EndsForCause
<1>4. StartsOnce'
  BY DEF StartsOnce
<1>5. InStep'
  BY DEF InStep
<1>6. RequestsAwaitLast'
  BY DEF HandleIsRun, InStep, RequestsAwaitLast, AwaitsLast
<1>7. StopsInTurn'
  BY DEF HandleIsRun, InStep, RequestsAwaitLast, AwaitsLast, StopsInTurn, StopInTurn
<1>8. ShutsDownAlone'
  BY DEF HandleIsRun, InStep, AwaitsLast, ShutsDownAlone
<1>9. Faultless'
  <2> SUFFICES ASSUME Faults = {}, ~ctxDone'
               PROVE  EndingIsAwaited' /\ BothOrNone' /\ \A q \in Requests : StartInTurn(q)'
    BY DEF Faultless
  <2>1. ~ctxDone /\ EndingIsAwaited /\ BothOrNone /\ \A q \in Requests : StartInTurn(q)
    BY DEF Faultless
  <2>2. EndingIsAwaited'
    BY <2>1 DEF EndingIsAwaited, HandleIsRun, EndsForCause, StartsOnce, InStep, RequestsAwaitLast, AwaitsLast, RunningOn
  <2>3. BothOrNone'
    BY <2>1 DEF BothOrNone, StartInTurn, HandleIsRun, InStep, RequestsAwaitLast, AwaitsLast, StopsInTurn, StopInTurn, Midway
  <2>4. \A q \in Requests : StartInTurn(q)'
    BY <2>1 DEF EndingIsAwaited, BothOrNone, StartInTurn, HandleIsRun, InStep, RequestsAwaitLast, AwaitsLast, Midway, RunningOn
  <2> QED
    BY <2>2, <2>3, <2>4
<1> QED
  BY <1>1, <1>2, <1>3, <1>4, <1>5, <1>6, <1>7, <1>8, <1>9

\* Nothing has changed since the start or the stop of the same request.
LEMMA GetStatusAgainAInv ==
  ASSUME AInv, NEW r \in Requests, GetStatusAgain(r)
  PROVE  AInv'
<1> USE LifecycleAssumption DEF AInv, TypeOK, LifecycleTypeOK, reqVars, lifeVars, GetStatusAgain, Alternate, Seen
<1>1. TypeOK'
  OBVIOUS
<1>2. HandleIsRun'
  BY DEF HandleIsRun
<1>3. EndsForCause'
  BY DEF HandleIsRun, EndsForCause
<1>4. StartsOnce'
  BY DEF StartsOnce
<1>5. InStep'
  BY DEF InStep
<1>6. RequestsAwaitLast'
  BY DEF HandleIsRun, InStep, RequestsAwaitLast, AwaitsLast
<1>7. StopsInTurn'
  BY DEF HandleIsRun, InStep, RequestsAwaitLast, AwaitsLast, StopsInTurn, StopInTurn
<1>8. ShutsDownAlone'
  BY DEF HandleIsRun, InStep, AwaitsLast, ShutsDownAlone
<1>9. Faultless'
  BY DEF HandleIsRun, EndsForCause, StartsOnce, InStep, RequestsAwaitLast, AwaitsLast, ShutsDownAlone, Faultless, EndingIsAwaited, BothOrNone, StartInTurn, Midway, RunningOn
<1> QED
  BY <1>1, <1>2, <1>3, <1>4, <1>5, <1>6, <1>7, <1>8, <1>9

\* What is said of a request inside is said no more.
LEMMA LeaveAInv ==
  ASSUME AInv, NEW r \in Requests, Leave(r)
  PROVE  AInv'
<1> USE LifecycleAssumption DEF AInv, TypeOK, LifecycleTypeOK, reqVars, lifeVars, Leave, Goto
<1>1. TypeOK'
  OBVIOUS
<1>2. HandleIsRun'
  BY DEF HandleIsRun
<1>3. EndsForCause'
  BY DEF HandleIsRun, EndsForCause
<1>4. StartsOnce'
  BY DEF StartsOnce
<1>5. InStep'
  BY DEF InStep
<1>6. RequestsAwaitLast'
  BY DEF HandleIsRun, InStep, RequestsAwaitLast, AwaitsLast
<1>7. StopsInTurn'
  BY DEF HandleIsRun, InStep, RequestsAwaitLast, AwaitsLast, StopsInTurn, StopInTurn
<1>8. ShutsDownAlone'
  BY DEF HandleIsRun, InStep, AwaitsLast, ShutsDownAlone
<1>9. Faultless'
  BY DEF HandleIsRun, EndsForCause, StartsOnce, InStep, RequestsAwaitLast, AwaitsLast, ShutsDownAlone, Faultless, EndingIsAwaited, BothOrNone, StartInTurn, Midway, RunningOn
<1> QED
  BY <1>1, <1>2, <1>3, <1>4, <1>5, <1>6, <1>7, <1>8, <1>9

\* Only main moves.
LEMMA SignalAInv ==
  ASSUME AInv, Signal
  PROVE  AInv'
<1> USE LifecycleAssumption DEF AInv, TypeOK, LifecycleTypeOK, reqVars, lifeVars, Signal, Goto
<1>1. TypeOK'
  OBVIOUS
<1>2. HandleIsRun'
  BY DEF HandleIsRun
<1>3. EndsForCause'
  BY DEF HandleIsRun, EndsForCause
<1>4. StartsOnce'
  BY DEF StartsOnce
<1>5. InStep'
  BY DEF InStep
<1>6. RequestsAwaitLast'
  BY DEF HandleIsRun, InStep, RequestsAwaitLast, AwaitsLast
<1>7. StopsInTurn'
  BY DEF HandleIsRun, InStep, RequestsAwaitLast, AwaitsLast, StopsInTurn, StopInTurn
<1>8. ShutsDownAlone'
  BY DEF HandleIsRun, InStep, AwaitsLast, ShutsDownAlone
<1>9. Faultless'
  BY DEF HandleIsRun, EndsForCause, StartsOnce, InStep, RequestsAwaitLast, AwaitsLast, ShutsDownAlone, Faultless, EndingIsAwaited, BothOrNone, StartInTurn, Midway, RunningOn
<1> QED
  BY <1>1, <1>2, <1>3, <1>4, <1>5, <1>6, <1>7, <1>8, <1>9

\* Without a timeout no request is inside.
LEMMA ShutdownAInv ==
  ASSUME AInv, Shutdown
  PROVE  AInv'
<1> USE LifecycleAssumption DEF AInv, TypeOK, LifecycleTypeOK, reqVars, lifeVars, Shutdown, Goto
<1>1. TypeOK'
  OBVIOUS
<1>2. HandleIsRun'
  BY DEF HandleIsRun
<1>3. EndsForCause'
  BY DEF HandleIsRun, EndsForCause
<1>4. StartsOnce'
  BY DEF StartsOnce
<1>5. InStep'
  BY DEF InStep
<1>6. RequestsAwaitLast'
  BY DEF HandleIsRun, InStep, RequestsAwaitLast, AwaitsLast
<1>7. StopsInTurn'
  BY DEF HandleIsRun, InStep, RequestsAwaitLast, AwaitsLast, StopsInTurn, StopInTurn
<1>8. ShutsDownAlone'
  BY DEF HandleIsRun, InStep, AwaitsLast, ShutsDownAlone
<1>9. Faultless'
  BY DEF HandleIsRun, EndsForCause, StartsOnce, InStep, RequestsAwaitLast, AwaitsLast, ShutsDownAlone, Faultless, EndingIsAwaited, BothOrNone, StartInTurn, Midway, RunningOn
<1> QED
  BY <1>1, <1>2, <1>3, <1>4, <1>5, <1>6, <1>7, <1>8, <1>9

\* The populator has been stopped by then.
LEMMA CloseChannelAInv ==
  ASSUME AInv, CloseChannel
  PROVE  AInv'
<1> USE LifecycleAssumption DEF AInv, TypeOK, LifecycleTypeOK, reqVars, lifeVars, CloseChannel, Goto
<1>1. TypeOK'
  OBVIOUS
<1>2. HandleIsRun'
  BY DEF HandleIsRun
<1>3. EndsForCause'
  BY DEF HandleIsRun, EndsForCause
<1>4. StartsOnce'
  BY DEF StartsOnce
<1>5. InStep'
  BY DEF InStep
<1>6. RequestsAwaitLast'
  BY DEF HandleIsRun, InStep, RequestsAwaitLast, AwaitsLast
<1>7. StopsInTurn'
  BY DEF HandleIsRun, InStep, RequestsAwaitLast, AwaitsLast, StopsInTurn, StopInTurn
<1>8. ShutsDownAlone'
  BY DEF HandleIsRun, InStep, AwaitsLast, ShutsDownAlone
<1>9. Faultless'
  BY DEF HandleIsRun, EndsForCause, StartsOnce, InStep, RequestsAwaitLast, AwaitsLast, ShutsDownAlone, Faultless, EndingIsAwaited, BothOrNone, StartInTurn, Midway, RunningOn
<1> QED
  BY <1>1, <1>2, <1>3, <1>4, <1>5, <1>6, <1>7, <1>8, <1>9

\* Only main moves.
LEMMA ExitAInv ==
  ASSUME AInv, Exit
  PROVE  AInv'
<1> USE LifecycleAssumption DEF AInv, TypeOK, LifecycleTypeOK, reqVars, lifeVars, Exit, Goto
<1>1. TypeOK'
  OBVIOUS
<1>2. HandleIsRun'
  BY DEF HandleIsRun
<1>3. EndsForCause'
  BY DEF HandleIsRun, EndsForCause
<1>4. StartsOnce'
  BY DEF StartsOnce
<1>5. InStep'
  BY DEF InStep
<1>6. RequestsAwaitLast'
  BY DEF HandleIsRun, InStep, RequestsAwaitLast, AwaitsLast
<1>7. StopsInTurn'
  BY DEF HandleIsRun, InStep, RequestsAwaitLast, AwaitsLast, StopsInTurn, StopInTurn
<1>8. ShutsDownAlone'
  BY DEF HandleIsRun, InStep, AwaitsLast, ShutsDownAlone
<1>9. Faultless'
  BY DEF HandleIsRun, EndsForCause, StartsOnce, InStep, RequestsAwaitLast, AwaitsLast, ShutsDownAlone, Faultless, EndingIsAwaited, BothOrNone, StartInTurn, Midway, RunningOn
<1> QED
  BY <1>1, <1>2, <1>3, <1>4, <1>5, <1>6, <1>7, <1>8, <1>9

\* The run stays the one of its worker until it resets cancel.
LEMMA ReturnCancelledAInv ==
  ASSUME AInv, NEW w \in Workers, NEW c \in Callers, ReturnCancelled(w, c), UNCHANGED callerVars
  PROVE  AInv'
<1> USE LifecycleAssumption DEF AInv, TypeOK, LifecycleTypeOK, callerVars, reqVars, lifeVars, ReturnCancelled, Move
<1>1. TypeOK'
  OBVIOUS
<1>2. HandleIsRun'
  BY DEF HandleIsRun
<1>3. EndsForCause'
  BY DEF HandleIsRun, EndsForCause
<1>4. StartsOnce'
  BY DEF StartsOnce
<1>5. InStep'
  BY DEF InStep
<1>6. RequestsAwaitLast'
  BY DEF HandleIsRun, InStep, RequestsAwaitLast, AwaitsLast
<1>7. StopsInTurn'
  BY DEF HandleIsRun, InStep, RequestsAwaitLast, AwaitsLast, StopsInTurn, StopInTurn
<1>8. ShutsDownAlone'
  BY DEF HandleIsRun, InStep, AwaitsLast, ShutsDownAlone
<1>9. Faultless'
  BY DEF HandleIsRun, EndsForCause, StartsOnce, InStep, RequestsAwaitLast, AwaitsLast, ShutsDownAlone, Faultless, EndingIsAwaited, BothOrNone, StartInTurn, Midway, RunningOn
<1> QED
  BY <1>1, <1>2, <1>3, <1>4, <1>5, <1>6, <1>7, <1>8, <1>9

\* The same for a run that ends by itself.
LEMMA ReturnAloneAInv ==
  ASSUME AInv, NEW c \in Callers, ReturnAlone(c), UNCHANGED callerVars
  PROVE  AInv'
<1> USE LifecycleAssumption DEF AInv, TypeOK, LifecycleTypeOK, callerVars, reqVars, lifeVars, ReturnAlone, Move
<1>1. TypeOK'
  OBVIOUS
<1>2. HandleIsRun'
  BY DEF HandleIsRun
<1>3. EndsForCause'
  BY DEF HandleIsRun, EndsForCause, InStep
<1>4. StartsOnce'
  BY DEF StartsOnce
<1>5. InStep'
  BY DEF InStep
<1>6. RequestsAwaitLast'
  BY DEF HandleIsRun, InStep, RequestsAwaitLast, AwaitsLast
<1>7. StopsInTurn'
  BY DEF HandleIsRun, InStep, RequestsAwaitLast, AwaitsLast, StopsInTurn, StopInTurn
<1>8. ShutsDownAlone'
  BY DEF HandleIsRun, InStep, AwaitsLast, ShutsDownAlone
<1>9. Faultless'
  BY DEF HandleIsRun, EndsForCause, StartsOnce, InStep, RequestsAwaitLast, AwaitsLast, ShutsDownAlone, Faultless, EndingIsAwaited, BothOrNone, StartInTurn, Midway, RunningOn
<1> QED
  BY <1>1, <1>2, <1>3, <1>4, <1>5, <1>6, <1>7, <1>8, <1>9

\* The worker is off from here on.
LEMMA ResetCancelAInv ==
  ASSUME AInv, NEW w \in Workers, NEW c \in Callers, ResetCancel(w, c), UNCHANGED callerVars
  PROVE  AInv'
<1> USE LifecycleAssumption DEF AInv, TypeOK, LifecycleTypeOK, callerVars, reqVars, lifeVars, ResetCancel, Move
<1>1. TypeOK'
  OBVIOUS
<1>2. HandleIsRun'
  BY DEF HandleIsRun
<1>3. EndsForCause'
  BY DEF HandleIsRun, EndsForCause
<1>4. StartsOnce'
  BY DEF StartsOnce
<1>5. InStep'
  BY DEF InStep
<1>6. RequestsAwaitLast'
  BY DEF HandleIsRun, InStep, RequestsAwaitLast, AwaitsLast
<1>7. StopsInTurn'
  BY DEF HandleIsRun, InStep, RequestsAwaitLast, AwaitsLast, StopsInTurn, StopInTurn
<1>8. ShutsDownAlone'
  BY DEF HandleIsRun, InStep, AwaitsLast, ShutsDownAlone
<1>9. Faultless'
  BY DEF HandleIsRun, EndsForCause, StartsOnce, InStep, RequestsAwaitLast, AwaitsLast, ShutsDownAlone, Faultless, EndingIsAwaited, BothOrNone, StartInTurn, Midway, RunningOn
<1> QED
  BY <1>1, <1>2, <1>3, <1>4, <1>5, <1>6, <1>7, <1>8, <1>9

\* Only the phase of the run and its place among the cancelled change.
LEMMA CloseDoneAInv ==
  ASSUME AInv, NEW w \in Workers, NEW c \in Callers, CloseDone(w, c), UNCHANGED callerVars
  PROVE  AInv'
<1> USE LifecycleAssumption DEF AInv, TypeOK, LifecycleTypeOK, callerVars, reqVars, lifeVars, CloseDone, Move
<1>1. TypeOK'
  OBVIOUS
<1>2. HandleIsRun'
  BY DEF HandleIsRun
<1>3. EndsForCause'
  BY DEF HandleIsRun, EndsForCause
<1>4. StartsOnce'
  BY DEF StartsOnce
<1>5. InStep'
  BY DEF InStep
<1>6. RequestsAwaitLast'
  BY DEF HandleIsRun, InStep, RequestsAwaitLast, AwaitsLast
<1>7. StopsInTurn'
  BY DEF HandleIsRun, InStep, RequestsAwaitLast, AwaitsLast, StopsInTurn, StopInTurn
<1>8. ShutsDownAlone'
  BY DEF HandleIsRun, InStep, AwaitsLast, ShutsDownAlone
<1>9. Faultless'
  BY DEF HandleIsRun, EndsForCause, StartsOnce, InStep, RequestsAwaitLast, AwaitsLast, ShutsDownAlone, Faultless, EndingIsAwaited, BothOrNone, StartInTurn, Midway, RunningOn
<1> QED
  BY <1>1, <1>2, <1>3, <1>4, <1>5, <1>6, <1>7, <1>8, <1>9

LEMMA InitAInv == Init => AInv
<1> SUFFICES ASSUME Init PROVE AInv
  OBVIOUS
<1> USE LifecycleAssumption DEF Init, LifecycleInit
<1>1. TypeOK /\ HandleIsRun /\ EndsForCause
  BY DEF TypeOK, LifecycleTypeOK, HandleIsRun, EndsForCause
<1>2. StartsOnce /\ InStep /\ RequestsAwaitLast
  BY DEF StartsOnce, InStep, RequestsAwaitLast, AwaitsLast
<1>3. StopsInTurn
  BY DEF StopsInTurn, StopInTurn
<1>4. ShutsDownAlone
  BY DEF ShutsDownAlone, AwaitsLast
<1>5. Faultless
  BY DEF Faultless, EndingIsAwaited, BothOrNone, StartInTurn, RunningOn
<1> QED
  BY <1>1, <1>2, <1>3, <1>4, <1>5 DEF AInv

LEMMA StutterAInv == AInv /\ UNCHANGED vars => AInv'
<1> SUFFICES ASSUME AInv, UNCHANGED vars PROVE AInv'
  OBVIOUS
<1> USE DEF AInv, vars, lifeVars, reqVars
<1>1. TypeOK' /\ HandleIsRun' /\ EndsForCause' /\ StartsOnce' /\ InStep'
  BY DEF TypeOK, LifecycleTypeOK, HandleIsRun, EndsForCause, StartsOnce, InStep
<1>2. RequestsAwaitLast' /\ StopsInTurn' /\ ShutsDownAlone'
  BY DEF RequestsAwaitLast, AwaitsLast, StopsInTurn, StopInTurn, ShutsDownAlone
<1>3. Faultless'
  BY DEF Faultless, EndingIsAwaited, BothOrNone, StartInTurn, Midway, RunningOn
<1> QED
  BY <1>1, <1>2, <1>3

LEMMA NextAInv == AInv /\ [Next]_vars => AInv'
<1> SUFFICES ASSUME AInv, [Next]_vars PROVE AInv'
  OBVIOUS
<1>1. CASE UNCHANGED vars
  BY <1>1, StutterAInv
<1>2. CASE \E r \in Requests : Accept(r) \/ Serve(r)
  BY <1>2, AcceptAInv, EnterAInv, GetStatusAInv, StartWorkersAInv, StopWorkersAInv,
     WaitAInv, GetStatusAgainAInv, LeaveAInv DEF Serve
<1>3. CASE \E c \in Callers : RunEndsAlone(c)
  BY <1>3, ReturnAloneAInv DEF RunEndsAlone, callerVars
<1>4. CASE \E c \in Callers, w \in Workers : Run(w, c)
  BY <1>4, ReturnCancelledAInv, ResetCancelAInv, CloseDoneAInv DEF Run, RunStep, callerVars
<1>5. CASE Signal
  BY <1>5, SignalAInv
<1>6. CASE ShutDown
  BY <1>6, ShutdownAInv, StopWorkersAInv, WaitAInv, CloseChannelAInv, ExitAInv DEF ShutDown
<1> QED
  BY <1>1, <1>2, <1>3, <1>4, <1>5, <1>6 DEF Next

\* The inductive invariant of requests, main and runs.
THEOREM LifecycleInvariant == Spec => []AInv
  BY InitAInv, NextAInv, PTL DEF Spec

-----------------------------------------------------------------------------
\* The variables of the workers, the requests and main keep their types.
THEOREM LifecycleTypeCorrect == Spec => []TypeOK
<1>1. AInv => TypeOK
  BY DEF AInv
<1> QED
  BY <1>1, LifecycleInvariant, PTL

\* A worker never has two goroutines in its loop, for any number of requests,
\* timeouts and failures (populator.go:139-146,156-159).
THEOREM OneRunAtATime == Spec => []OneRun
<1>1. AInv => OneRun
  BY DEF AInv, HandleIsRun, OneRun
<1> QED
  BY <1>1, LifecycleInvariant, PTL

\* A stop that does not time out leaves both workers off and says so
\* (manager.go:61-75).
THEOREM StopIsEffective == Spec => []StopStops
<1>1. AInv => StopStops
  BY DEF AInv, StopsInTurn, StopInTurn, StopStops
<1> QED
  BY <1>1, LifecycleInvariant, PTL

\* As long as no wait times out and no limiter fails, a start leaves both
\* workers on and says so (manager.go:46-59).
THEOREM StartIsEffective ==
  ASSUME Faults = {} PROVE Spec => []StartEnables
<1>1. ASSUME AInv PROVE StartEnables
  <2> SUFFICES ASSUME NEW r \in Requests,
                      pc[r] = "leave", action[r] = "start", ~ctxDone
               PROVE  (\A w \in Workers : RunningOn(w)) /\ active[r] = Workers
    BY DEF StartEnables
  <2>1. EndingIsAwaited /\ StartInTurn(r)
    BY <1>1 DEF AInv, Faultless
  <2>2. \A q \in Requests : pc[q] # "wait"
    BY <1>1 DEF AInv, InStep
  <2> QED
    BY <2>1, <2>2 DEF EndingIsAwaited, StartInTurn
<1> QED
  BY <1>1, LifecycleInvariant, PTL

\* As long as no wait times out, the channel is closed when no populator is
\* left to send on it (main.go:134-139).
THEOREM ChannelClosedLast ==
  ASSUME "timeout" \notin Faults PROVE Spec => []NoSendOnClosed
<1>1. AInv => NoSendOnClosed
  BY LifecycleAssumption DEF AInv, ShutsDownAlone, InStep, HandleIsRun, TypeOK, LifecycleTypeOK, NoSendOnClosed
<1> QED
  BY <1>1, LifecycleInvariant, PTL

-----------------------------------------------------------------------------
(***************************************************************************)
(* The lifecycle implements WorkerRuns.                                    *)
(***************************************************************************)
LEMMA InitRuns == Init => Runs!Init
  BY LifecycleAssumption DEF Init, LifecycleInit, Runs!Init, RunState

\* The state of one worker's runs.
StateOf(w) ==
    IF ~IsRunning(w) THEN "off"
    ELSE IF ctxDone \/ cancel[w] \in cancelled[w] THEN "cancelled" ELSE "on"

\* RunState changes at w alone when nothing changes for the other workers.
LEMMA RunStateUpdate ==
  ASSUME NEW w \in Workers, NEW s, StateOf(w)' = s,
         \A v \in Workers \ {w} : StateOf(v)' = StateOf(v)
  PROVE  RunState' = [RunState EXCEPT ![w] = s]
<1>1. RunState = [v \in Workers |-> StateOf(v)]
  BY DEF RunState, StateOf
<1>2. RunState' = [v \in Workers |-> StateOf(v)']
  BY DEF RunState, StateOf
<1> HIDE DEF StateOf
<1> QED
  BY <1>1, <1>2

\* A start brings a worker from off to on, or to cancelled at the end.
LEMMA StartRuns ==
  ASSUME AInv, NEW w \in Workers, NEW r \in Requests, StartWorker(w, r),
         phase[w][r] = "none"
  PROVE  Runs!Start(w)
<1>1. r \notin cancelled[w]
  BY DEF AInv, EndsForCause
<1>2. StateOf(w)' = IF ctxDone THEN "cancelled" ELSE "on"
  BY <1>1, LifecycleAssumption DEF AInv, TypeOK, LifecycleTypeOK, StartWorker, StateOf
<1>3. \A v \in Workers \ {w} : StateOf(v)' = StateOf(v)
  BY DEF AInv, TypeOK, LifecycleTypeOK, StartWorker, StateOf
<1>4. RunState[w] = "off"
  BY DEF StartWorker, RunState
<1>5. RunState' = [RunState EXCEPT ![w] = IF ctxDone THEN "cancelled" ELSE "on"]
  BY <1>2, <1>3, RunStateUpdate
<1> QED
  BY <1>4, <1>5 DEF StartWorker, Runs!Start

\* A stop cancels a worker that is on, and changes nothing of another.
LEMMA StopRuns ==
  ASSUME AInv, NEW w \in Workers, StopWorker(w)
  PROVE  Runs!Cancel(w) \/ UNCHANGED Runs!vars
<1>1. StateOf(w)' = "cancelled"
  BY DEF AInv, TypeOK, LifecycleTypeOK, StopWorker, StateOf
<1>2. \A v \in Workers \ {w} : StateOf(v)' = StateOf(v)
  BY DEF AInv, TypeOK, LifecycleTypeOK, StopWorker, StateOf
<1>3. RunState' = [RunState EXCEPT ![w] = "cancelled"]
  BY <1>1, <1>2, RunStateUpdate
<1>4. RunState[w] \in {"on", "cancelled"}
  BY DEF StopWorker, RunState
<1>5. CASE RunState[w] = "on"
  BY <1>3, <1>5 DEF StopWorker, Runs!Cancel
<1>6. CASE RunState[w] = "cancelled"
  BY <1>3, <1>6 DEF StopWorker, Runs!vars, RunState
<1> QED
  BY <1>4, <1>5, <1>6

\* A run that resets cancel was cancelled, or may end by itself.
LEMMA ResetRuns ==
  ASSUME AInv, NEW w \in Workers, NEW c \in Callers, ResetCancel(w, c)
  PROVE  Runs!Return(w)
<1>1. cancel[w] = c
  BY DEF AInv, HandleIsRun, ResetCancel, Move
<1>2. c \in cancelled[w] \/ ctxDone \/ (w = "processor" /\ "limiter" \in Faults)
  BY DEF AInv, EndsForCause, ResetCancel, Move
<1>3. \/ RunState[w] = "cancelled"
      \/ RunState[w] = "on" /\ w = "processor" /\ "limiter" \in Faults
  BY <1>1, <1>2, LifecycleAssumption DEF RunState
<1>4. StateOf(w)' = "off"
  BY DEF AInv, TypeOK, LifecycleTypeOK, ResetCancel, StateOf
<1>5. \A v \in Workers \ {w} : StateOf(v)' = StateOf(v)
  BY DEF AInv, TypeOK, LifecycleTypeOK, ResetCancel, StateOf
<1>6. RunState' = [RunState EXCEPT ![w] = "off"]
  BY <1>4, <1>5, RunStateUpdate
<1> QED
  BY <1>3, <1>6 DEF ResetCancel, Runs!Return

LEMMA CloseRuns ==
  ASSUME AInv, NEW w \in Workers, NEW c \in Callers, CloseDone(w, c)
  PROVE  UNCHANGED Runs!vars
<1>1. cancel[w] # c
  BY DEF AInv, HandleIsRun, CloseDone, Move
<1> QED
  BY <1>1 DEF AInv, TypeOK, LifecycleTypeOK, CloseDone, Runs!vars, RunState

LEMMA NextRuns == AInv /\ [Next]_vars => [Runs!Next]_Runs!vars
<1> SUFFICES ASSUME AInv, [Next]_vars PROVE Runs!Next \/ UNCHANGED Runs!vars
  OBVIOUS
<1>1. ASSUME UNCHANGED lifeVars PROVE UNCHANGED Runs!vars
  BY <1>1 DEF lifeVars, Runs!vars, RunState
<1>2. ASSUME NEW c \in Callers, StopWorkers(c)
      PROVE  Runs!Next \/ UNCHANGED Runs!vars
  BY <1>1, <1>2, StopRuns DEF StopWorkers, Runs!Next, AInv, TypeOK
<1>3. ASSUME NEW c \in Callers, Wait(c) PROVE UNCHANGED Runs!vars
  BY <1>1, <1>3 DEF Wait
<1>4. CASE UNCHANGED vars
  BY <1>1, <1>4 DEF vars
<1>5. ASSUME NEW r \in Requests, Accept(r) \/ Serve(r)
      PROVE  Runs!Next \/ UNCHANGED Runs!vars
  <2>1. CASE Accept(r) \/ Enter(r) \/ GetStatus(r) \/ GetStatusAgain(r) \/ Leave(r)
    BY <1>1, <2>1 DEF Accept, Enter, GetStatus, GetStatusAgain, Leave
  <2>2. CASE StartWorkers(r)
    <3>1. phase[at[r]][r] = "none"
      BY <2>2 DEF AInv, TypeOK, StartsOnce, StartWorkers
    <3> QED
      BY <1>1, <2>2, <3>1, StartRuns DEF StartWorkers, Runs!Next, AInv, TypeOK
  <2> QED
    BY <1>2, <1>3, <1>5, <2>1, <2>2 DEF Serve
<1>6. CASE \E c \in Callers : RunEndsAlone(c)
  BY <1>6 DEF RunEndsAlone, ReturnAlone, Runs!vars, RunState
<1>7. ASSUME NEW w \in Workers, NEW c \in Callers, Run(w, c)
      PROVE  Runs!Next \/ UNCHANGED Runs!vars
  <2>1. CASE ReturnCancelled(w, c)
    BY <2>1 DEF ReturnCancelled, Runs!vars, RunState
  <2> QED
    BY <1>7, <2>1, ResetRuns, CloseRuns DEF Run, RunStep, Runs!Next
<1>8. CASE Signal \/ Exit
  BY <1>1, <1>8 DEF Signal, Exit
<1>9. CASE Shutdown
  BY <1>9 DEF Shutdown, Runs!Next, Runs!End, RunState
<1>10. CASE CloseChannel
  BY <1>10 DEF CloseChannel, AInv, InStep, Runs!Next, Runs!Close, RunState
<1> QED
  BY <1>2, <1>3, <1>4, <1>5, <1>6, <1>7, <1>8, <1>9, <1>10 DEF Next, ShutDown

\* Requests, main and the workers' goroutines together implement WorkerRuns,
\* which is what Delivery assumes of them.
THEOREM LifecycleImplementsRuns == Spec => ImplementsRuns
  BY InitRuns, NextRuns, LifecycleInvariant, PTL DEF Spec, ImplementsRuns, Runs!Spec
=============================================================================
