------------------------------ MODULE AutoSend ------------------------------
(***************************************************************************)
(* Who starts and stops the workers: requests to POST /messages/auto-send  *)
(* (middleware/serialize.go, service/message.go), through the manager      *)
(* (manager/manager.go), and main at shutdown (cmd/main.go).               *)
(*                                                                         *)
(* The serializer's lock is that of RouteLock, which RequestSerializer     *)
(* implements; all these requests have the same route.                     *)
(***************************************************************************)
EXTENDS WorkerLifecycle

Actions == {"start", "stop", "other"}

VARIABLES
    pc,        \* of each caller: the step it takes next
    at,        \* of each caller: the worker of that step
    action,    \* of each request: what it asks for, while it is served
    active,    \* of each request: the workers it last saw running
    stopping,  \* of each caller: the run it waits for in Stop
    timedOut,  \* the callers one of whose waits has timed out
    holder     \* the request that holds the route's lock

reqVars == <<action, active, holder>>
vars == <<lifeVars, pc, at, stopping, timedOut, reqVars>>

RequestSteps == {"new", "queued", "read", "start", "stop", "wait", "reread", "leave", "done"}
MainSteps    == {"serving", "shutdown", "stop", "wait", "close", "return", "exited"}

TypeOK ==
    /\ LifecycleTypeOK
    /\ pc \in [Callers -> RequestSteps \cup MainSteps]
    /\ pc[Main] \in MainSteps
    /\ \A r \in Requests : pc[r] \in RequestSteps
    /\ at \in [Callers -> Workers]
    /\ action \in [Requests -> Actions \cup {"none"}]
    /\ active \in [Requests -> SUBSET Workers]
    /\ stopping \in [Callers -> Callers \cup {Nobody}]
    /\ timedOut \subseteq Callers
    /\ holder \in Requests \cup {Nobody}

Init ==
    /\ LifecycleInit
    /\ pc = [c \in Callers |-> IF c = Main THEN "serving" ELSE "new"]
    /\ at = [c \in Callers |-> "populator"]
    /\ action = [r \in Requests |-> "none"]
    /\ active = [r \in Requests |-> {}]
    /\ stopping = [c \in Callers |-> Nobody]
    /\ timedOut = {}
    /\ holder = Nobody

-----------------------------------------------------------------------------
Goto(c, s) == pc' = [pc EXCEPT ![c] = s]

\* A caller does step s for the populator, then for the processor, then goes
\* on to step last with the populator again.
Alternate(c, s, last) ==
    /\ at' = [at EXCEPT ![c] = IF at[c] = "populator" THEN "processor" ELSE "populator"]
    /\ pc' = [pc EXCEPT ![c] = IF at[c] = "populator" THEN s ELSE last]

\* The server accepts requests until main shuts it down.
Accept(r) ==
    /\ pc[r] = "new" /\ pc[Main] = "serving"
    /\ \E a \in Actions : action' = [action EXCEPT ![r] = a]
    /\ Goto(r, "queued")
    /\ UNCHANGED <<lifeVars, at, stopping, timedOut, active, holder>>

\* A slip for a mutation run: no lock.
EnterUnlocked(r) ==
    /\ pc[r] = "queued"
    /\ Goto(r, "read")
    /\ UNCHANGED <<lifeVars, at, stopping, timedOut, reqVars>>

\* mu.Lock in the middleware.
Enter(r) ==
    /\ pc[r] = "queued"
    /\ holder = Nobody
    /\ holder' = r
    /\ Goto(r, "read")
    /\ UNCHANGED <<lifeVars, at, stopping, timedOut, action, active>>

\* GetStatus reads one worker after the other.
Seen(r) == IF IsRunning(at[r]) THEN active[r] \cup {at[r]} ELSE active[r] \ {at[r]}

Refuses(a, seen) ==
    \/ a = "start" /\ seen = Workers
    \/ a = "stop" /\ seen = {}
    \/ a = "other"

\* SetMessageAutoSend up to the call of the manager.
GetStatus(r) ==
    /\ pc[r] = "read"
    /\ active' = [active EXCEPT ![r] = Seen(r)]
    /\ Alternate(r, "read", IF Refuses(action[r], Seen(r)) THEN "leave" ELSE action[r])
    /\ UNCHANGED <<lifeVars, stopping, timedOut, action, holder>>

\* The manager's Start returns at the first worker that does not start, and
\* the service takes no notice of the error.
StartWorkers(r) ==
    /\ pc[r] = "start"
    /\ \/ /\ StartWorker(at[r], r)
          /\ Alternate(r, "start", "reread")
       \/ /\ IsRunning(at[r])
          /\ Goto(r, "reread")
          /\ at' = [at EXCEPT ![r] = "populator"]
          /\ UNCHANGED lifeVars
    /\ UNCHANGED <<stopping, timedOut, reqVars>>

\* The manager's Stop goes on to the processor whatever the populator's Stop
\* returns, and so to what the caller does after it.
StopNext(c) == Alternate(c, "stop", IF c = Main THEN "close" ELSE "reread")

StopWorkers(c) ==
    /\ pc[c] = "stop"
    /\ \/ /\ StopWorker(at[c])
          /\ stopping' = [stopping EXCEPT ![c] = cancel[at[c]]]
          /\ Goto(c, "wait")
          /\ UNCHANGED at
       \/ /\ ~IsRunning(at[c])
          /\ StopNext(c)
          /\ UNCHANGED <<lifeVars, stopping>>
    /\ UNCHANGED <<timedOut, reqVars>>

\* A slip for a mutation run: Stop returns without waiting.
WaitNot(c) ==
    /\ pc[c] = "wait"
    /\ StopNext(c)
    /\ stopping' = [stopping EXCEPT ![c] = Nobody]
    /\ UNCHANGED <<lifeVars, timedOut, reqVars>>

\* The second half of Stop: done is closed, or the timer fires.
Wait(c) ==
    /\ pc[c] = "wait"
    /\ \/ Ended(at[c], stopping[c]) /\ UNCHANGED timedOut
       \/ "timeout" \in Faults /\ timedOut' = timedOut \cup {c}
    /\ StopNext(c)
    /\ stopping' = [stopping EXCEPT ![c] = Nobody]
    /\ UNCHANGED <<lifeVars, reqVars>>

\* The status for the answer.
GetStatusAgain(r) ==
    /\ pc[r] = "reread"
    /\ active' = [active EXCEPT ![r] = Seen(r)]
    /\ Alternate(r, "reread", "leave")
    /\ UNCHANGED <<lifeVars, stopping, timedOut, action, holder>>

\* A slip for a mutation run: the lock is kept.
LeaveLocked(r) ==
    /\ pc[r] = "leave"
    /\ Goto(r, "done")
    /\ UNCHANGED <<lifeVars, at, stopping, timedOut, reqVars>>

\* The answer is written and the lock released; what the request knew goes
\* with it.
Leave(r) ==
    /\ pc[r] = "leave"
    /\ holder' = Nobody
    /\ Goto(r, "done")
    /\ action' = [action EXCEPT ![r] = "none"]
    /\ active' = [active EXCEPT ![r] = {}]
    /\ timedOut' = timedOut \ {r}
    /\ UNCHANGED <<lifeVars, at, stopping>>

-----------------------------------------------------------------------------
Signal ==
    /\ pc[Main] = "serving"
    /\ Goto(Main, "shutdown")
    /\ UNCHANGED <<lifeVars, at, stopping, timedOut, reqVars>>

\* A slip for a mutation run: the server is closed, not shut down.
ShutdownAtOnce ==
    /\ pc[Main] = "shutdown"
    /\ ctxDone' = TRUE
    /\ Goto(Main, "stop")
    /\ UNCHANGED <<cancel, phase, cancelled, chClosed, at, stopping, timedOut, reqVars>>

\* server.Shutdown waits for the requests under way, or times out; then main
\* cancels the context.
Shutdown ==
    /\ pc[Main] = "shutdown"
    /\ \/ (\A r \in Requests : pc[r] \in {"new", "done"}) /\ UNCHANGED timedOut
       \/ "timeout" \in Faults /\ timedOut' = timedOut \cup {Main}
    /\ ctxDone' = TRUE
    /\ Goto(Main, "stop")
    /\ UNCHANGED <<cancel, phase, cancelled, chClosed, at, stopping, reqVars>>

CloseChannel ==
    /\ pc[Main] = "close"
    /\ chClosed' = TRUE
    /\ Goto(Main, "return")
    /\ UNCHANGED <<cancel, phase, cancelled, ctxDone, at, stopping, timedOut, reqVars>>

Exit ==
    /\ pc[Main] = "return"
    /\ Goto(Main, "exited")
    /\ UNCHANGED <<lifeVars, at, stopping, timedOut, reqVars>>

-----------------------------------------------------------------------------
\* Everything ends with main.
Alive == pc[Main] # "exited"

Serve(r) ==
    /\ Alive
    /\ \/ Enter(r) \/ GetStatus(r) \/ StartWorkers(r) \/ StopWorkers(r)
       \/ Wait(r) \/ GetStatusAgain(r) \/ Leave(r)

ShutDown == Shutdown \/ StopWorkers(Main) \/ Wait(Main) \/ CloseChannel \/ Exit

Run(w, c) ==
    /\ Alive
    /\ RunStep(w, c)
    /\ UNCHANGED <<pc, at, stopping, timedOut, reqVars>>

RunEndsAlone(c) ==
    /\ Alive
    /\ ReturnAlone(c)
    /\ UNCHANGED <<pc, at, stopping, timedOut, reqVars>>

Next ==
    \/ \E r \in Requests : Accept(r) \/ Serve(r)
    \/ \E c \in Callers : RunEndsAlone(c) \/ \E w \in Workers : Run(w, c)
    \/ Signal
    \/ ShutDown
    \/ ~Alive /\ UNCHANGED vars

Spec == Init /\ [][Next]_vars

-----------------------------------------------------------------------------
\* A worker has one goroutine in its loop at a time, whatever requests and
\* main do and however their waits end (populator.go:139-146,156-159).
OneRun ==
    \A w \in Workers : \A c, d \in Callers :
        phase[w][c] \in Live /\ phase[w][d] \in Live => c = d

\* A stop that was carried out, and did not time out, leaves both workers off
\* and says so (manager.go:61-75, message.go:24-47).
StopStops ==
    \A r \in Requests :
        pc[r] = "leave" /\ action[r] = "stop" /\ r \notin timedOut
            => /\ \A w \in Workers : ~IsRunning(w)
               /\ active[r] = {}

RunningOn(w) ==
    /\ IsRunning(w)
    /\ cancel[w] \notin cancelled[w]
    /\ ~ctxDone
    /\ phase[w][cancel[w]] = "working"

\* A start leaves both workers running, with a context that is not cancelled
\* unless the program is ending, and says so (manager.go:46-59,
\* message.go:14-23), as long as no wait times out and no limiter fails.
StartEnables ==
    \A r \in Requests :
        pc[r] = "leave" /\ action[r] = "start" /\ ~ctxDone
            => /\ \A w \in Workers : RunningOn(w)
               /\ active[r] = Workers

\* url.go:23: "Enable or disable automatic message sending".  A start ends with
\* both workers running as far as it can see; the run partial_start shows that
\* after a stop that timed out it may leave one or none, and answer that all
\* is well.
StartTurnsOn ==
    \A r \in Requests :
        pc[r] = "leave" /\ action[r] = "start" /\ ~ctxDone => active[r] = Workers

\* main closes the channel when nobody can send on it any more; a send would
\* panic (main.go:134-139).
NoSendOnClosed ==
    chClosed => \A c \in Callers : phase["populator"][c] # "working"

\* Every request is answered, whatever the others are doing (serialize.go:52-56).
RequestsAnswered ==
    \A r \in Requests : pc[r] = "queued" ~> pc[r] = "done" \/ ~Alive

\* A signal ends the program (main.go:120-141).
ShutdownCompletes == pc[Main] = "shutdown" ~> ~Alive

-----------------------------------------------------------------------------
RunState ==
    [w \in Workers |->
        IF ~IsRunning(w) THEN "off"
        ELSE IF ctxDone \/ cancel[w] \in cancelled[w] THEN "cancelled" ELSE "on"]

Runs == INSTANCE WorkerRuns
          WITH Worker <- Workers, run <- RunState, ending <- ctxDone, closed <- chClosed,
               MayFail <- IF "limiter" \in Faults THEN {"processor"} ELSE {}

\* The lifecycle gives the workers the runs that WorkerRuns promises.
ImplementsRuns == Runs!Spec

-----------------------------------------------------------------------------
(***************************************************************************)
(* What makes the invariants above inductive.                              *)
(***************************************************************************)
Inside  == {"read", "start", "stop", "wait", "reread", "leave"}
Pairwise == {"read", "start", "stop", "wait", "reread"}

\* cancel is set just as long as its run is in the loop.
HandleIsRun ==
    \A w \in Workers, c \in Callers : phase[w][c] \in Live <=> cancel[w] = c

\* A run is cancelled, or returning, for a reason, and not after it has ended.
EndsForCause ==
    \A w \in Workers, c \in Callers :
        /\ c \in cancelled[w] => phase[w][c] \in Live \cup {"closing"}
        /\ phase[w][c] = "returning" =>
              c \in cancelled[w] \/ ctxDone \/ (w = "processor" /\ "limiter" \in Faults)

\* A request that may still start a worker has not done so before.
StartsOnce ==
    \A r \in Requests, w \in Workers :
        \/ pc[r] \in {"new", "queued", "read"}
        \/ pc[r] = "start" /\ at[r] \in {"populator", w}
        => phase[w][r] = "none"

\* Where the callers are, and what for.
InStep ==
    /\ \A r \in Requests :
          /\ pc[r] \in Inside => holder = r
          /\ pc[r] \in Inside \cup {"queued"} => action[r] \in Actions
          /\ pc[r] = "start" => action[r] = "start"
          /\ pc[r] \in {"stop", "wait"} => action[r] = "stop"
    /\ \A c \in Callers : pc[c] \notin Pairwise => at[c] = "populator"
    /\ ctxDone <=> pc[Main] \notin {"serving", "shutdown"}
    /\ chClosed => pc[Main] \in {"return", "exited"}
    /\ timedOut # {} => "timeout" \in Faults

\* The run that c waits for is the worker's last.
AwaitsLast(c) ==
    pc[c] = "wait" =>
        /\ stopping[c] \in Callers
        /\ IsRunning(at[c]) => cancel[at[c]] = stopping[c]

RequestsAwaitLast == \A r \in Requests : AwaitsLast(r)

\* How far a stop without a timeout has come.
StopInTurn(r) ==
    action[r] = "stop" /\ r \notin timedOut =>
        /\ pc[r] \in {"read", "reread"} /\ at[r] = "processor" /\ "populator" \notin active[r]
              => ~IsRunning("populator")
        /\ pc[r] \in {"stop", "wait"} /\ at[r] = "processor" => ~IsRunning("populator")
        /\ pc[r] \in {"reread", "leave"} => \A w \in Workers : ~IsRunning(w)
        /\ pc[r] = "reread" /\ at[r] = "processor" => "populator" \notin active[r]
        /\ pc[r] = "leave" => active[r] = {}

StopsInTurn == \A r \in Requests : StopInTurn(r)

\* A shutdown that does not time out has the workers to itself.
ShutsDownAlone ==
    "timeout" \notin Faults =>
        /\ ctxDone => \A r \in Requests : pc[r] \in {"new", "done"}
        /\ AwaitsLast(Main)
        /\ pc[Main] \in {"stop", "wait"} /\ at[Main] = "processor" => ~IsRunning("populator")
        /\ pc[Main] \in {"close", "return", "exited"} => \A w \in Workers : ~IsRunning(w)

\* Without faults, a run that is ending is one a request waits for, ...
EndingIsAwaited ==
    \A w \in Workers : IsRunning(w) =>
        RunningOn(w) \/ \E r \in Requests : pc[r] = "wait" /\ at[r] = w

\* ... the workers are on or off together but in the middle of a start or stop,
Midway(r) ==
    \/ pc[r] = "wait"
    \/ pc[r] \in {"start", "stop"} /\ at[r] = "processor"

BothOrNone ==
    (\A r \in Requests : ~Midway(r)) => (IsRunning("populator") <=> IsRunning("processor"))

\* ... and a start leaves behind it what it has found or started.
StartInTurn(r) ==
    action[r] = "start" =>
        /\ pc[r] \in {"read", "reread"} /\ at[r] = "processor" =>
              ("populator" \in active[r] <=> IsRunning("populator"))
        /\ pc[r] = "start" /\ at[r] = "processor" => IsRunning("populator")
        /\ pc[r] \in {"reread", "leave"} => \A w \in Workers : IsRunning(w)
        /\ pc[r] = "leave" => active[r] = Workers

Faultless ==
    Faults = {} /\ ~ctxDone =>
        EndingIsAwaited /\ BothOrNone /\ \A r \in Requests : StartInTurn(r)

AInv ==
    /\ TypeOK
    /\ HandleIsRun
    /\ EndsForCause
    /\ StartsOnce
    /\ InStep
    /\ RequestsAwaitLast
    /\ StopsInTurn
    /\ ShutsDownAlone
    /\ Faultless
=============================================================================
