----------------------------- MODULE Populator ------------------------------
(***************************************************************************)
(* The populator worker (src/internal/worker/populator/populator.go): on   *)
(* every tick it fetches the pending messages above its offset, checks     *)
(* that the channel has room for all of them, and sends them one by one.   *)
(*                                                                         *)
(* The steps of a pass that touch only the worker's own state are joined   *)
(* with the step that reads or writes what others can see: the query, the  *)
(* reading of the channel's length, each send, the store of the offset.    *)
(***************************************************************************)
EXTENDS MessagesChannel

CONSTANTS
    MaxRecordsPerRead,          \* fetch limit, 0 for none
    MessageChannelSendTimeout   \* only whether it is zero matters

ASSUME PopulatorAssumption ==
    /\ MaxRecordsPerRead \in Nat
    /\ MessageChannelSendTimeout \in Nat

VARIABLES
    popRun,               \* of the worker: "off", "on", or "cancelled" and not yet returned
    popPc,                \* of populate: at its "select", its "check", or in the "send" loop
    messages,             \* the batch of the current pass
    next,                 \* index in messages of the message to send next
    isProcessing,
    lastProcessedOffset

popVars == <<popRun, popPc, messages, next, isProcessing, lastProcessedOffset>>

RunStates == {"off", "on", "cancelled"}

PopulatorTypeOK ==
    /\ popRun \in RunStates
    /\ popPc \in {"select", "check", "send"}
    /\ messages \in Seq(Offsets)
    /\ next \in 1..(Len(messages) + 1)
    /\ isProcessing \in BOOLEAN
    /\ lastProcessedOffset \in Offsets \cup {0}

\* main creates the worker and starts it before it serves any request.
PopulatorInit ==
    /\ popRun = "on"
    /\ popPc = "select"
    /\ messages = <<>>
    /\ next = 1
    /\ isProcessing = FALSE
    /\ lastProcessedOffset = 0

\* The same in a program that starts again: the offset is not stored anywhere.
RebootPopulator ==
    /\ popRun' = "on"
    /\ popPc' = "select"
    /\ messages' = <<>>
    /\ next' = 1
    /\ isProcessing' = FALSE
    /\ lastProcessedOffset' = 0

-----------------------------------------------------------------------------
\* A slip for a mutation run: a start that begins at the first row again.
StartFromZero ==
    /\ popRun = "off"
    /\ popRun' = "on"
    /\ lastProcessedOffset' = 0
    /\ UNCHANGED <<popPc, messages, next, isProcessing, messagesCh, status>>

\* Start refuses while cancel is set, which is until populate has returned.
\* When the program is ending, the new context is cancelled from the start.
StartPopulator ==
    /\ popRun = "off"
    /\ popRun' \in {"on", "cancelled"}
    /\ UNCHANGED <<popPc, messages, next, isProcessing, lastProcessedOffset, messagesCh, status>>

\* Stop, and main's cancel at shutdown, cancel the worker's context.
CancelPopulator ==
    /\ popRun = "on"
    /\ popRun' = "cancelled"
    /\ UNCHANGED <<popPc, messages, next, isProcessing, lastProcessedOffset, messagesCh, status>>

-----------------------------------------------------------------------------
\* What fetchPendingMessages returns: with an error it returns no messages.
\* A query with a cancelled context always fails.
Fetched ==
    (IF popRun = "on"
     THEN ListByOffset(lastProcessedOffset, "PENDING", MaxRecordsPerRead)
     ELSE {})
    \cup (IF popRun = "cancelled" \/ "store" \in Faults THEN {<<>>} ELSE {})

\* The ticker's branch of the select.  A tick that finds isProcessing set
\* changes nothing.  The select may take a tick though the context is
\* cancelled.
Tick ==
    /\ popRun # "off" /\ popPc = "select"
    /\ ~isProcessing
    /\ isProcessing' = TRUE
    /\ \E page \in Fetched : messages' = page
    /\ next' = 1
    /\ popPc' = "check"
    /\ UNCHANGED <<popRun, lastProcessedOffset, messagesCh, status>>

\* What populate takes for the room that is left, from the length it has read.
AvailableArea == MessageChannelSize - Len(messagesCh)

\* A slip for a mutation run: the offset moves though the batch is discarded.
PauseAndSkip ==
    /\ popPc = "check"
    /\ Len(messages) > AvailableArea
    /\ lastProcessedOffset' = messages[Len(messages)]
    /\ messages' = <<>>
    /\ next' = 1
    /\ isProcessing' = FALSE
    /\ popPc' = "select"
    /\ UNCHANGED <<popRun, messagesCh, status>>

\* The batch does not fit: it is discarded, to be fetched again.
PausePopulator ==
    /\ popPc = "check"
    /\ Len(messages) > AvailableArea
    /\ messages' = <<>>
    /\ next' = 1
    /\ isProcessing' = FALSE
    /\ popPc' = "select"
    /\ UNCHANGED <<popRun, lastProcessedOffset, messagesCh, status>>

\* A slip for a mutation run: the batch is compared with the whole capacity.
AcceptByCapacity ==
    /\ popPc = "check"
    /\ Len(messages) <= MessageChannelSize
    /\ popPc' = "send"
    /\ UNCHANGED <<popRun, messages, next, isProcessing, lastProcessedOffset, messagesCh, status>>

AcceptBatch ==
    /\ popPc = "check"
    /\ Len(messages) <= AvailableArea
    /\ popPc' = "send"
    /\ UNCHANGED <<popRun, messages, next, isProcessing, lastProcessedOffset, messagesCh, status>>

-----------------------------------------------------------------------------
Sending == popPc = "send" /\ next <= Len(messages)

\* The select of sendMessage takes any branch that is ready.
SendMessage ==
    /\ Sending
    /\ Put(messages[next])
    /\ next' = next + 1
    /\ UNCHANGED <<popRun, popPc, messages, isProcessing, lastProcessedOffset, status>>

\* The timer fires, or the context is done: populate logs the error and goes
\* on to the next message.  A timer of a positive duration is ready before
\* the channel only while the channel is full.
SendFails ==
    /\ Sending
    /\ \/ MessageChannelSendTimeout = 0
       \/ Full
       \/ popRun = "cancelled"
    /\ next' = next + 1
    /\ UNCHANGED <<popRun, popPc, messages, isProcessing, lastProcessedOffset, messagesCh, status>>

EndPass(offset) ==
    /\ popPc = "send" /\ next > Len(messages)
    /\ lastProcessedOffset' = IF messages # <<>> THEN offset ELSE lastProcessedOffset
    /\ messages' = <<>>
    /\ next' = 1
    /\ isProcessing' = FALSE
    /\ popPc' = "select"
    /\ UNCHANGED <<popRun, messagesCh, status>>

\* Slips for mutation runs: the offset of the batch's first message, and the
\* one after that of its last.
CompleteAtFirst  == EndPass(Head(messages))
CompleteBeyond   == EndPass(messages[Len(messages)] + 1)

\* The offset moves to that of the batch's last message, sent or not.
CompleteBatch == EndPass(messages[Len(messages)])

\* The select takes the context's branch: populate returns and cancel is reset.
ExitPopulator ==
    /\ popRun = "cancelled" /\ popPc = "select"
    /\ popRun' = "off"
    /\ UNCHANGED <<popPc, messages, next, isProcessing, lastProcessedOffset, messagesCh, status>>
=============================================================================
