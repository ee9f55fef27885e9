----------------------------- MODULE Processor ------------------------------
(***************************************************************************)
(* The processor worker (src/internal/worker/processor/processor.go): a    *)
(* loop that takes messages from the channel, waits for the rate limiter   *)
(* and starts a goroutine for each message.  The goroutine notifies the    *)
(* webhook inside a database transaction, records the delivery in redis    *)
(* and commits the message as sent.                                        *)
(*                                                                         *)
(* The state of a goroutine is named for the call it makes next.  The      *)
(* limiter's clock is not modelled: a wait may end at any time.            *)
(***************************************************************************)
EXTENDS MessagesChannel

CONSTANT RateLimitBurst   \* only whether it is zero matters

ASSUME ProcessorAssumption == RateLimitBurst \in Nat

VARIABLES
    procRun,    \* of the worker: "off", "on", or "cancelled" and not yet returned
    procPc,     \* of Process: at its "select", in the "throttle", or in wg.Wait to "drain"
    held,       \* the message in the throttle, 0 when there is none
    task,       \* the goroutine of each message, since the program started
    delivered,  \* messages that have reached the webhook's receiver
    recorded    \* messages whose delivery has been recorded in redis

procVars == <<procRun, procPc, held, task, delivered, recorded>>

Working   == {"begin", "notify", "update", "redis", "commit", "markFailed"}
Finished  == {"succeeded", "failed"}

\* A slip for a mutation run: a goroutine that forgets wg.Done.
NeverDone == {m \in Offsets : task[m] # "none"}

\* wg counts the goroutines that have not returned.
Active == {m \in Offsets : task[m] \in Working}

ProcessorTypeOK ==
    /\ procRun \in {"off", "on", "cancelled"}
    /\ procPc \in {"select", "throttle", "drain"}
    /\ held \in IF procPc = "throttle" THEN Offsets ELSE {0}
    /\ task \in [Offsets -> Working \cup Finished \cup {"none"}]
    /\ delivered \subseteq Offsets
    /\ recorded \subseteq Offsets

ProcessorInit ==
    /\ procRun = "on"
    /\ procPc = "select"
    /\ held = 0
    /\ task = [m \in Offsets |-> "none"]
    /\ delivered = {}
    /\ recorded = {}

\* In a program that starts again: the goroutines are gone and their open
\* transactions rolled back, the receiver and redis keep what they have.
RebootProcessor ==
    /\ procRun' = "on"
    /\ procPc' = "select"
    /\ held' = 0
    /\ task' = [m \in Offsets |-> "none"]
    /\ UNCHANGED <<delivered, recorded>>

-----------------------------------------------------------------------------
StartProcessor ==
    /\ procRun = "off"
    /\ procRun' \in {"on", "cancelled"}
    /\ UNCHANGED <<procPc, held, task, delivered, recorded, messagesCh, status>>

CancelProcessor ==
    /\ procRun = "on"
    /\ procRun' = "cancelled"
    /\ UNCHANGED <<procPc, held, task, delivered, recorded, messagesCh, status>>

-----------------------------------------------------------------------------
\* The channel's branch of the select, which may be taken though the context
\* is cancelled.
ReceiveMessage ==
    /\ procRun # "off" /\ procPc = "select"
    /\ Take
    /\ held' = Head(messagesCh)
    /\ procPc' = "throttle"
    /\ UNCHANGED <<procRun, task, delivered, recorded, status>>

\* The limiter grants a token and the goroutine starts.  A limiter without a
\* burst grants none, nor does one whose context is cancelled (a token that
\* comes at the moment of the cancellation is one that came before it).
SpawnTask ==
    /\ procRun = "on" /\ procPc = "throttle"
    /\ RateLimitBurst > 0
    /\ task' = [task EXCEPT ![held] = "begin"]
    /\ held' = 0
    /\ procPc' = "select"
    /\ UNCHANGED <<procRun, delivered, recorded, messagesCh, status>>

\* The context is cancelled during the wait: the message is let go.
DropCancelled ==
    /\ procRun = "cancelled" /\ procPc = "throttle"
    /\ RateLimitBurst > 0
    /\ held' = 0
    /\ procPc' = "drain"
    /\ UNCHANGED <<procRun, task, delivered, recorded, messagesCh, status>>

\* Any other error of the limiter: the message is let go and Process returns
\* at once, without wg.Wait.
LimiterFails ==
    /\ procPc = "throttle"
    /\ RateLimitBurst = 0
    /\ held' = 0
    /\ procPc' = "select"
    /\ procRun' = "off"
    /\ UNCHANGED <<task, delivered, recorded, messagesCh, status>>

\* The context's branch of the select.
BeginDrain ==
    /\ procRun = "cancelled" /\ procPc = "select"
    /\ procPc' = "drain"
    /\ UNCHANGED <<procRun, held, task, delivered, recorded, messagesCh, status>>

\* A slip for a mutation run: Process returns without wg.Wait.
ExitWithoutWait ==
    /\ procPc = "drain"
    /\ procPc' = "select"
    /\ procRun' = "off"
    /\ UNCHANGED <<held, task, delivered, recorded, messagesCh, status>>

\* wg.Wait returns, then Process, and cancel is reset.
ExitProcessor ==
    /\ procPc = "drain"
    /\ Active = {}
    /\ procPc' = "select"
    /\ procRun' = "off"
    /\ UNCHANGED <<held, task, delivered, recorded, messagesCh, status>>

-----------------------------------------------------------------------------
(***************************************************************************)
(* processMessage.  Every call carries the worker's context, and a call to *)
(* the database or to redis fails once the context is cancelled; the       *)
(* webhook request may still reach its receiver, but its answer is lost.   *)
(***************************************************************************)
Goto(m, s) == task' = [task EXCEPT ![m] = s]

Cancelled == procRun = "cancelled"

BeginTx(m) ==
    /\ task[m] = "begin"
    /\ \/ ~Cancelled /\ Goto(m, "notify")
       \/ (Cancelled \/ "store" \in Faults) /\ Goto(m, "failed")
    /\ UNCHANGED <<procRun, procPc, held, delivered, recorded, messagesCh, status>>

NotificationSent(m) ==
    /\ task[m] = "notify"
    /\ ~Cancelled
    /\ delivered' = delivered \cup {m}
    /\ Goto(m, "update")
    /\ UNCHANGED <<procRun, procPc, held, recorded, messagesCh, status>>

\* A slip for a mutation run: the error is logged and the code goes on.
NotificationErrorIgnored(m) ==
    /\ task[m] = "notify"
    /\ Cancelled \/ "webhook" \in Faults
    /\ delivered' \in {delivered, delivered \cup {m}}
    /\ Goto(m, "update")
    /\ UNCHANGED <<procRun, procPc, held, recorded, messagesCh, status>>

\* The call ends in an error, whether or not the receiver has seen the
\* message; the transaction is rolled back and the row is to be marked.
NotificationFails(m) ==
    /\ task[m] = "notify"
    /\ Cancelled \/ "webhook" \in Faults
    /\ delivered' \in {delivered, delivered \cup {m}}
    /\ Goto(m, "markFailed")
    /\ UNCHANGED <<procRun, procPc, held, recorded, messagesCh, status>>

\* A panic is recovered and rolls the transaction back, and processMessage
\* returns no error: the message is counted as processed.
NotificationPanics(m) ==
    /\ task[m] = "notify"
    /\ "panic" \in Faults
    /\ delivered' \in {delivered, delivered \cup {m}}
    /\ Goto(m, "succeeded")
    /\ UNCHANGED <<procRun, procPc, held, recorded, messagesCh, status>>

\* The update inside the transaction; after an error the row is not marked.
TxUpdate(m) ==
    /\ task[m] = "update"
    /\ \/ ~Cancelled /\ Goto(m, "redis")
       \/ (Cancelled \/ "store" \in Faults) /\ Goto(m, "failed")
    /\ UNCHANGED <<procRun, procPc, held, delivered, recorded, messagesCh, status>>

SetMessageDelivered(m) ==
    /\ task[m] = "redis"
    /\ ~Cancelled
    /\ recorded' = recorded \cup {m}
    /\ Goto(m, "commit")
    /\ UNCHANGED <<procRun, procPc, held, delivered, messagesCh, status>>

\* The error may be that of a command redis has carried out.
SetMessageDeliveredFails(m) ==
    /\ task[m] = "redis"
    /\ Cancelled \/ "redis" \in Faults
    /\ recorded' \in {recorded, recorded \cup {m}}
    /\ Goto(m, "markFailed")
    /\ UNCHANGED <<procRun, procPc, held, delivered, messagesCh, status>>

Commit(m) ==
    /\ task[m] = "commit"
    /\ ~Cancelled
    /\ Update(m, "SENT")
    /\ Goto(m, "succeeded")
    /\ UNCHANGED <<procRun, procPc, held, delivered, recorded, messagesCh>>

\* The answer to the commit is an error: the database has rolled back, or it
\* has committed and the answer is lost, to the fault or to a cancellation
\* that came while the call was under way.
CommitFails(m) ==
    /\ task[m] = "commit"
    /\ Cancelled \/ "store" \in Faults
    /\ UNCHANGED status \/ Update(m, "SENT")
    /\ Goto(m, "failed")
    /\ UNCHANGED <<procRun, procPc, held, delivered, recorded, messagesCh>>

\* A slip for a mutation run: the mark is made in the rolled-back transaction.
MarkRolledBack(m) ==
    /\ task[m] = "markFailed"
    /\ Goto(m, "failed")
    /\ UNCHANGED <<procRun, procPc, held, delivered, recorded, messagesCh, status>>

\* updateMessageStatus, whose error is only logged.
MarkFailed(m) ==
    /\ task[m] = "markFailed"
    /\ \/ ~Cancelled /\ Update(m, "FAILED")
       \/ (Cancelled \/ "store" \in Faults) /\ UNCHANGED status
    /\ Goto(m, "failed")
    /\ UNCHANGED <<procRun, procPc, held, delivered, recorded, messagesCh>>
=============================================================================
