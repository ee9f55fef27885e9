------------------------------ MODULE Delivery ------------------------------
(***************************************************************************)
(* The delivery pipeline: the messages table, the populator, the channel,  *)
(* the processor and its goroutines, with rows inserted from outside,      *)
(* workers stopped and started in any order, and the program crashing or   *)
(* shutting down and starting again.                                       *)
(***************************************************************************)
EXTENDS Populator, Processor

CONSTANT MaxRestarts   \* bound on the restarts of the program

ASSUME DeliveryAssumption == MaxRestarts \in Nat

VARIABLES
    restarts,
    \* The history of this run of the program, for the properties only:
    dropped,   \* messages that left the batch or the throttle unhandled
    late       \* rows that became visible after one with a higher offset

history == <<dropped, late>>

vars == <<status, messagesCh, popVars, procVars, restarts, history>>

TypeOK ==
    /\ StoreTypeOK
    /\ ChannelTypeOK
    /\ PopulatorTypeOK
    /\ ProcessorTypeOK
    /\ restarts \in 0..MaxRestarts
    /\ dropped \subseteq Offsets
    /\ late \subseteq Offsets

Init ==
    /\ StoreInit
    /\ ChannelInit
    /\ PopulatorInit
    /\ ProcessorInit
    /\ restarts = 0
    /\ dropped = {}
    /\ late = {}

-----------------------------------------------------------------------------
\* A row is inserted by another program.
Insert(m) ==
    /\ \E s \in NewStatuses : Create(m, s)
    /\ late' = IF Newest(m) THEN late ELSE late \cup {m}
    /\ UNCHANGED <<messagesCh, popVars, procVars, restarts, dropped>>

\* The program stops at any point and starts again: only the table, redis
\* and what the receiver has seen survive, and both workers are started.
Restart ==
    /\ restarts < MaxRestarts
    /\ restarts' = restarts + 1
    /\ messagesCh' = <<>>
    /\ RebootPopulator
    /\ RebootProcessor
    /\ dropped' = {}
    /\ late' = {}
    /\ UNCHANGED status

\* The operator's requests reach the two workers one after the other, and a
\* worker that is still busy with the last request refuses the next: every
\* order of the four calls is allowed.  The end of main's context cancels both
\* workers at once.
Operate ==
    /\ "stop" \in Faults
    /\ \/ (StartPopulator \/ CancelPopulator) /\ UNCHANGED procVars
       \/ (StartProcessor \/ CancelProcessor) /\ UNCHANGED popVars
       \/ CancelPopulator /\ CancelProcessor
    /\ UNCHANGED <<restarts, history>>

Populate ==
    /\ \/ /\ Tick \/ PausePopulator \/ AcceptBatch \/ SendMessage
             \/ CompleteBatch \/ ExitPopulator
          /\ UNCHANGED dropped
       \/ SendFails /\ dropped' = dropped \cup {messages[next]}
    /\ UNCHANGED <<procVars, restarts, late>>

Process ==
    /\ \/ /\ ReceiveMessage \/ SpawnTask \/ BeginDrain \/ ExitProcessor
          /\ UNCHANGED dropped
       \/ (DropCancelled \/ LimiterFails) /\ dropped' = dropped \cup {held}
    /\ UNCHANGED <<popVars, restarts, late>>

ProcessMessage(m) ==
    /\ \/ BeginTx(m)
       \/ NotificationSent(m) \/ NotificationFails(m) \/ NotificationPanics(m)
       \/ TxUpdate(m)
       \/ SetMessageDelivered(m) \/ SetMessageDeliveredFails(m)
       \/ Commit(m) \/ CommitFails(m)
       \/ MarkFailed(m)
    /\ UNCHANGED <<popVars, restarts, history>>

Next ==
    \/ \E m \in Offsets : Insert(m) \/ ProcessMessage(m)
    \/ Restart
    \/ Operate
    \/ Populate
    \/ Process

Spec == Init /\ [][Next]_vars

\* The ticker keeps ticking, runnable goroutines are scheduled, calls return.
\* Nothing obliges anyone to insert rows, to stop or start, or to crash.
Fairness ==
    /\ WF_vars(Populate)
    /\ SF_vars(ExitPopulator /\ Populate)
    /\ WF_vars(Process)
    /\ \A m \in Offsets : WF_vars(ProcessMessage(m))

FairSpec == Spec /\ Fairness

-----------------------------------------------------------------------------
\* Where a message can be between the query and the end of its goroutine.
Unsent  == {messages[i] : i \in next..Len(messages)}
Queued  == Elements(messagesCh)
Held    == IF procPc = "throttle" THEN {held} ELSE {}
Started == {m \in Offsets : task[m] # "none"}

\* Where it can be once a send has been tried for it.
Tried == Queued \cup Held \cup Started \cup dropped

\* The populator never waits on a full channel: the room it saw when it
\* checked is still there, as nobody else sends and the processor only makes
\* more (populator.go:95-120).
RoomForBatch ==
    popPc = "send" => Len(messages) - next + 1 <= AvailableArea

\* Messages move through the pipeline in the order of their offsets and each
\* is in one place at most, so that none is handled twice in a run of the
\* program (populator.go:51-62,113-125, processor.go:179-209).
InOrder ==
    /\ Ascending(messagesCh)
    /\ \A m \in Started, n \in Held \cup Queued \cup Unsent : m < n
    /\ \A m \in Held, n \in Queued \cup Unsent : m < n
    /\ \A m \in Queued, n \in Unsent : m < n

\* What the pipeline carries is pending in the table: no status read by the
\* query is stale by the time the message is sent (populator.go:54).
CarriesPending ==
    \A m \in Unsent \cup Queued \cup Held \cup Active : status[m] = "PENDING"

\* A goroutine never outlives the run of the processor that started it, whose
\* cancellation it relies on (processor.go:174-177,187-195).
DrainedBeforeOff == procRun = "off" => Active = {}

\* Every pending row that the offset has passed is still on its way, has been
\* handled without a final status, or was dropped or late; nothing else is
\* lost (populator.go:122-125).
AccountedFor ==
    \A m \in Offsets :
        status[m] = "PENDING" /\ m <= lastProcessedOffset
            => m \in Tried \cup late

\* When nothing but the webhook and redis fails and nobody stops the workers,
\* the offset passes no pending row that is not still being handled, so that no
\* restart is needed for any row (populator.go:113-125, processor.go:86-154).
OnItsWay ==
    \A m \in Offsets :
        status[m] = "PENDING" /\ m <= lastProcessedOffset
            => m \in Queued \cup Held \cup Active

\* A row that was not inserted as SENT is SENT only if the receiver has seen the
\* message and redis has its record, whatever fails or restarts in between
\* (processor.go:107-150).
SentIsReal ==
    "SENT" \notin NewStatuses =>
        \A m \in Offsets : status[m] = "SENT" => m \in delivered \cap recorded

\* No one writes to a row that has its final status, not even a goroutine that
\* read the row before a restart, nor one that handles its failure
\* (processor.go:70-84,148).
FinalStatus ==
    [][\A m \in Offsets : status[m] \in {"SENT", "FAILED"} => status'[m] = status[m]]_vars

\* While the program runs, its offset never goes back (populator.go:122-125).
OffsetMonotone ==
    [][restarts' = restarts => lastProcessedOffset' >= lastProcessedOffset]_vars

\* When nothing fails or only the webhook and redis do, every message that is
\* inserted ends up SENT or FAILED, across restarts of the program.
EventuallyResolved ==
    \A m \in Offsets : status[m] = "PENDING" ~> status[m] \in {"SENT", "FAILED"}

\* A stop completes: cancelled workers return (populator.go:129-130,
\* processor.go:175-177).
StopCompletes ==
    /\ popRun = "cancelled" ~> popRun # "cancelled"
    /\ procRun = "cancelled" ~> procRun # "cancelled"

-----------------------------------------------------------------------------
Stage ==
    [m \in Offsets |->
        IF task[m] = "none" THEN "free"
        ELSE IF task[m] \in Working THEN "claimed" ELSE "closed"]

Ledger == INSTANCE MessageLedger
            WITH Message <- Offsets, NewStatus <- NewStatuses, stage <- Stage

\* The pipeline implements the promise of MessageLedger.
ImplementsLedger == Ledger!Spec

-----------------------------------------------------------------------------
(***************************************************************************)
(* What makes the invariants above inductive.                              *)
(***************************************************************************)

\* The offset of the last message that a send was tried for.
Reached ==
    IF popPc = "send" /\ next > 1 THEN messages[next - 1] ELSE lastProcessedOffset

\* The batch of a pass is ascending and lies above the offset.
BatchAhead ==
    /\ popPc = "select" => messages = <<>>
    /\ popPc # "send" => next = 1
    /\ Ascending(messages)
    /\ \A m \in Elements(messages) : m > lastProcessedOffset

\* Nothing in the channel or the processor is above what has been tried.
NothingBeyond == \A m \in Queued \cup Held \cup Started : m <= Reached

\* The order among the messages that have left the batch.
SentInOrder ==
    /\ Ascending(messagesCh)
    /\ \A m \in Started, n \in Held \cup Queued : m < n
    /\ \A m \in Held, n \in Queued : m < n

\* A limiter without a burst lets no goroutine start.
NoBurstNoTask == RateLimitBurst = 0 => Started = {}

Pipeline ==
    /\ BatchAhead
    /\ NothingBeyond
    /\ SentInOrder
    /\ CarriesPending
    /\ RoomForBatch
    /\ NoBurstNoTask
    /\ DrainedBeforeOff

\* The batch leaves out no pending row between the offset and its last
\* message, but for the late ones, and every message it has passed was tried.
Accounting ==
    /\ lastProcessedOffset # 0 => Visible(lastProcessedOffset)
    /\ \A m \in Elements(messages) : Visible(m)
    /\ \A i \in 1..(next - 1) : messages[i] \in Tried
    /\ \A m \in Offsets, n \in Elements(messages) :
          status[m] = "PENDING" /\ lastProcessedOffset < m /\ m < n
              => m \in Elements(messages) \cup late
    /\ AccountedFor

\* A worker that is off has left its loop at the select.
IdleWhenOff ==
    /\ popRun = "off" => popPc = "select"
    /\ procRun = "off" => procPc = "select"

\* How far a goroutine has come is no further than what the receiver and
\* redis have seen.
ProgressIsReal ==
    \A m \in Offsets :
        /\ task[m] \in {"update", "redis", "commit"} => m \in delivered
        /\ task[m] = "commit" => m \in recorded

IInv == TypeOK /\ IdleWhenOff /\ Pipeline /\ Accounting /\ ProgressIsReal

-----------------------------------------------------------------------------
(***************************************************************************)
(* What the repository says of the pipeline and the code does not do.      *)
(***************************************************************************)

\* README: "Offset-based message fetching for reliable message tracking".  A
\* pending row that the offset has passed is on its way to being handled.
ReliableTracking ==
    \A m \in Offsets :
        status[m] = "PENDING" /\ m <= lastProcessedOffset
            => m \in Queued \cup Held \cup Started

\* populator.go:91: "fetch only what fits in available space".  What fits is
\* sent, so that a message that has been fetched comes to be in a batch that is
\* sent, in this pass or after one that was discarded as the channel had filled
\* up.  Faults, stops and restarts aside, a page that is larger than the channel
\* is the only reason for which it does not.
FetchedIsSent ==
    \A m \in Offsets :
        popPc = "check" /\ m \in Elements(messages)
            ~> popPc = "send" /\ m \in Elements(messages)

\* The state which that leads to: nothing has been fetched that fits, and the
\* next page of pending rows does not fit into an empty channel.
Starved ==
    /\ messages # <<>> => popPc = "check" /\ Len(messages) > MessageChannelSize
    /\ PageSize(Matching(lastProcessedOffset, "PENDING"), MaxRecordsPerRead) > MessageChannelSize

\* How lasting the damage is: no step of the processor, no insert, stop, start
\* or restart of the program brings a starved populator back
\* (populator.go:94-111).
StarvationIsFinal == [][Starved => Starved']_vars
=============================================================================
