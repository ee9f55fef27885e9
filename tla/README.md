# A TLA+ model of ulak

ulak reads messages from a PostgreSQL table and delivers each of them to a
webhook.  This directory models its delivery pipeline in TLA+, checks small
instances of it with TLC, and proves the safety properties for instances of
any size with TLAPS.

## The system

| part | code | state | operations |
|---|---|---|---|
| messages table | `internal/store/postgres/store.go`, `internal/models/message.go` | rows: offset (serial), status, payload | `Create`, `ListByOffset`, `Update`, `BeginTx`/`Update`/`Commit`/`Rollback`, `List`, `GetTotalCount` |
| channel | `cmd/main.go:62` | a buffered Go channel of messages | send (populator), receive (processor), `len`, `cap`, `close` at the end of `main` |
| populator | `internal/worker/populator/populator.go` | `lastProcessedOffset`, `isProcessing`, `cancel`, `done`, `err` | `populate` (tick, fetch, compare, send, move the offset), `Start`, `Stop`, `Wait`, `IsRunning` |
| processor | `internal/worker/processor/processor.go` | a limiter per run, `wg`, two counters, `cancel`, `done`, `err` | `Process` (receive, throttle, start a goroutine), `processMessage` (begin, notify, update, record, commit), `Start`, `Stop`, `Wait`, `IsRunning` |
| delivery records | `internal/store/redis/store.go` | a key per delivered message, with a TTL | `SetMessageDelivered` |
| webhook notifier | `pkg/notification/webhook_site.go` | a limiter | `SendNotification` with retries and backoff |
| worker manager | `internal/manager/manager.go` | the two workers, the ticker, a context | `Start`, `Stop`, `GetStatus` |
| service, handlers | `internal/service/message.go`, `internal/handlers/url.go` | none | `SetMessageAutoSend`, `GetSentMessages` |
| request serializer | `internal/middleware/serialize.go` | a map from routes to mutexes | `getMutex`, the middleware |
| `main` | `cmd/main.go` | the root context | start, signal, shutdown |

How they interact.  Every tick the populator queries the rows above its offset
that are PENDING and sends them into the channel.  The processor takes them
out one at a time, waits for its rate limiter, and starts a goroutine for
each.  The goroutine opens a transaction, calls the webhook, updates the row
in the transaction, writes the delivery record to redis, and commits.  The two
workers share only the channel and the table.  The manager starts and stops
both; requests to `/messages/auto-send`, one at a time because of the
serializer, reach it through the service; `main` starts the workers and, on a
signal, cancels their context and stops them.

What is hard here: Go's `select` takes any branch that is ready, so a
cancelled worker may still send, receive or tick; the offset moves over
messages that were not sent; the length of the channel is read once and used
for many sends; a message's effects are spread over a webhook, a redis key and
a transaction, each of which may fail, also after it has had its effect; a
cancelled context makes the error handling fail as well; stop requests time
out and leave workers that return later.

What makes each part correct:

| part | properties |
|---|---|
| populator, channel | a batch that was accepted never blocks on the channel; messages enter it in the order of their offsets, none twice in a run of the program; the offset never goes back and passes only rows whose handling was tried |
| processor | a row becomes SENT only after the receiver has seen the message and redis has its record, and a final status is never written again; no goroutine outlives the run that started it; a failure never turns into SENT; every pending row is settled in the end |
| webhook notifier | a message is posted again only when no answer was read or the answer asks for it; an accepted message counts as sent unless the try was given up; all requests are paced by one limiter; every call ends |
| lifecycle, manager, service, main | a worker has one run at a time; a stop leaves both workers off, a start leaves both on, and the answer says so; every request is answered; main ends and closes the channel after the last send |
| whole program | nothing is sent while both workers are reported off; at the close of the channel nobody holds a message; the messages move as the pipeline's specification says, whatever is asked of the workers |
| request serializer | one request at a time per route; routes do not wait for each other; everyone is served |
| sent messages query | a client that pages through the sent messages is shown all that were there when it began, and nothing that is not SENT; a total covers its page; the reading ends |

## The modules

| module | models | state |
|---|---|---|
| `MessageStore` | `store/postgres/store.go`, `models/message.go`: inserts, `ListByOffset`, committed updates | `status` of each row |
| `MessagesChannel` | the buffered channel (`cmd/main.go:62`) | `messagesCh` |
| `Populator` | `populate`, `fetchPendingMessages`, `sendMessage`, start and cancel | `popRun`, `popPc`, `messages`, `next`, `isProcessing`, `lastProcessedOffset` |
| `Processor` | `Process`, `processMessage`, `updateMessageStatus`, start and cancel | `procRun`, `procPc`, `held`, `task`, `delivered`, `recorded` |
| `Delivery` | composes the four above; inserts, stops and starts, restarts of the program | the above, `restarts`, and two history variables |
| `MessageLedger` | abstract: what ulak promises of each message | `status`, `stage`, `delivered`, `recorded` |
| `WorkerLifecycle` | `Start`, `Stop`, `IsRunning` of both workers and the goroutine that `Start` leaves behind | `cancel`, `phase`, `cancelled`, `ctxDone`, `chClosed` |
| `AutoSend` | requests to `/messages/auto-send`, the service, the manager, the shutdown in `main`, over `WorkerLifecycle` | the program counter of each request and of `main`, and what it has read |
| `WorkerRuns` | abstract: what the lifecycle promises to the pipeline | `run`, `ending`, `closed` |
| `Ulak` | `cmd/main.go` from its start to its exit: `AutoSend` and `Delivery` together | the variables of both; the workers' runs are those of `AutoSend` |
| `RateLimit` | the limiter that each run of the processor makes, and its clock, over `Delivery` | `tokens`, `budget`, `renewals` |
| `SentMessages` | `GET /messages/sent`: `middleware/auth.go`, `handlers/url.go`, `service/message.go`, `List` and `GetTotalCount`, over `MessageStore`; the inserts of `cmd/data_faker` and `cmd/data_faker_big` | `status`, the client's `request`, `limit`, `offset`, `page`, `total`, `code`, and the history of its reading |
| `RequestSerializer` | `middleware/serialize.go` | `mutexes`, `locked`, and each request's step and mutex |
| `RouteLock` | abstract: one request at a time per route | `serving`, `served` |
| `WebhookNotifier` | `pkg/notification/webhook_site.go` | `pc`, `attempt`, `post`, `tokens`, `cancelled`, and history |
| `Notification` | abstract: the outcomes of one call | `outcome`, `seen` |
| `DeliveryProofs`, `LedgerProofs`, `RateLimitProofs`, `AutoSendProofs`, `SerializerProofs`, `NotifierProofs`, `SentMessagesProofs`, `UlakProofs` | the theorems | |
| `MCDelivery`, `MCRateLimit`, `MCAutoSend`, `MCRequestSerializer`, `MCWebhookNotifier`, `MCSentMessages`, `MCUlak` | what TLC needs | |

`Delivery` lets its workers be started and cancelled in any order that a
worker's `cancel` field allows (`Operate`): one after the other, both at once
when `main`'s context ends, and, after that, a start whose context is cancelled
already.  `Ulak` replaces this freedom by what is really there, requests,
manager and shutdown: it extends `AutoSend` and takes `Delivery` as the
instance `Pipeline`, with the runs that `AutoSend` keeps (`RunOf`) for `popRun`
and `procRun`.  Every step of `Ulak` is a step of one of the two, or of both: the
return of `populate` or `Process` is a step of the pipeline and of the goroutine
that `Start` left behind (`PopulatorReturns`, `ProcessorReturns`).  `Ulak` is one
run of the program; restarts are `Delivery`'s.

The other components meet in their abstract specifications.  `AutoSend`
uses the route's lock of `RouteLock`, which `RequestSerializer` implements.
The outcomes of a notification in `Delivery` are a panic and those of
`Notification`, which `WebhookNotifier` implements; a request that reaches the
receiver after its call has failed appears in `Delivery` as one that reached
it before, as nothing in ulak can tell the two apart.

Actions have the names of the functions they translate, and a program counter
is named for the call that comes next.  A step is everything between two
points at which another goroutine can see or change something.

- **Rows and messages** are named by their offset; recipient and text decide
  nothing, and the creation time only the order of `List` (`CreatedAt`).  A row becomes visible when its insert commits.
  With the fault `"late"` a row may become visible after one with a higher
  offset, which PostgreSQL allows of a serial column.
- **Transactions** are read committed: the update inside one is visible at its
  commit, which is the step that changes `status`.
- **Populator.** `Tick` joins the compare-and-swap of `isProcessing` with the
  query after it, as only the worker touches the flag; `PausePopulator` and
  `AcceptBatch` are the reading of the channel's length with its two outcomes.
  `SendMessage` and `SendFails` are the branches of one `select`; those that
  are ready are all possible, as Go chooses among them at random.
- **Processor.** In `Delivery` the limiter has no clock: its wait may end at any
  time, fails with a cancelled context, and fails at once with burst 0.  A
  token that comes at the moment of a cancellation is taken as one that came
  before it.  The goroutine of a message is `task[m]`; `"succeeded"` and
  `"failed"` are the return values of `processMessage`.
- **Calls with a cancelled context** fail: database and redis calls do so
  before they have an effect, a webhook request may have had one.
- **Lifecycle.** A run is named by the caller that started it.  `StopWorker`
  joins taking `cancel` under the mutex with calling it, as the call concerns
  only the run that was taken.  The error that a run ends with is left out, as
  all the program does with it is to log it.
- **Notifier.** `post[c][n]` is what has become of try `n` of call `c`: a
  request stays on the wire after the client has given it up.  The limiter
  gains a token at any time up to its burst.
- **Rate limit.** `RateLimit` adds the clock: time moves on by the interval in
  which a limiter gains a token.  `tokens` is the limiter of the current run;
  `budget` is what the same goroutines would leave of one limiter that is never
  replaced, so that a negative budget is a rate above the configured one.
- **Sent messages.** `request` is the step of the request: `ListSent` and
  `CountAll` are its two queries, between which and between two pages anything
  may happen to the table.  `List` is any slice of any order that agrees with
  `created_at DESC`: rows with one creation time have no order of their own.
  A client begins at the first row and goes on behind the page it was given
  until one is not full.
- **Slips.** Definitions commented as a slip for a mutation run are not part of
  any specification.  Each is a plausible mistake; put in the place of the
  definition it belongs to, it makes a run fail, which shows that the property
  of that run can tell the difference.

## What TLC checks

Every run explores its instance completely.

| run | instance | shows |
|---|---|---|
| `delivery_faults` | 2 rows, all errors, panics, late rows, stops, one restart | the inductive invariant `IInv`, `InOrder`, `AccountedFor`, `DrainedBeforeOff`, `CarriesPending`, `SentIsReal`, `FinalStatus`, `StopCompletes`, and that the pipeline implements `MessageLedger` |
| `delivery_zero` | 4 rows, late rows, rows inserted as SENT, capacity 2, no fetch limit, no send timeout, burst 0, stops, a restart | `TypeOK`, `RoomForBatch`, `AccountedFor`, `OffsetMonotone` at the zero configurations |
| `delivery_live` | 3 rows, capacity 2, fetch limit 2, errors of webhook and redis, a restart | `IInv`, `OnItsWay`, `EventuallyResolved` |
| `auto_send` | 2 requests, waits that time out, a limiter that fails | `OneRun`, `StopStops`, and that the lifecycle implements `WorkerRuns` |
| `ulak` | the program with 2 requests, 1 row, errors of the webhook, no timeouts | the inductive invariant `AInv`, `StartEnables`, `CleanExit`, `SilentWhenStopped`, `RequestsAnswered`, `ShutdownCompletes`, and that the program implements `Delivery` |
| `serializer` | 3 requests for one route, 1 for another | the inductive invariant `SInv`, `RoutesApart`, `EveryoneServed`, and that it implements `RouteLock` |
| `webhook` | 2 calls, 2 tries each, a limiter with one token | the inductive invariant `NInv`, `RepeatedOnlyWhenUnanswered`, `AcceptanceCounts`, `Paced`, `EveryCallEnds`, and that the calls implement `Notification` |
| `sent_messages` | 4 rows, two of one creation time, parameters -1, 0, 1, 2 and no number, failing queries | the inductive invariant `QInv`, `FaithfulReading`, `TotalCoversPage`, `ReadingEnds` |

Four more runs show where the code does not do what it says, see below.

**Bounds.**  `MaxOffset` bounds the rows, `MaxRestarts` the restarts, the set
`Requests` the requests, `Calls` and `ConfiguredRetries` the notifications,
`MaxRenewals` the limiters made after the first; nothing else is bounded.  Two rows with a channel and a fetch limit of two (`delivery_faults`) give a
batch that is sent in part, a row that becomes visible behind one that has been
passed, and two goroutines at work, or one with a message behind it in any other
place; a fault can hit either at any step.  Three (`delivery_live`) add a batch
that does not fit because of what is still in the channel, and a second batch
behind an unfinished first one; four without a limit (`delivery_zero`) a page
that exceeds the channel behind one that fitted, with workers that stop and
start between them.  Two requests are what it takes for a stop that
times out and a start after it, and `main`'s shutdown is a third party.  In
`ulak` one message can be in any place of the pipeline at each step of a start, a
stop and the shutdown; more of them add nothing that the lifecycle could see, as
`Delivery` has it.  Three requests for
one route make one wait while two race for the creation of the mutex.  Two
tries have a first that is repeated and a last that is not, and two calls with
one token make each wait for the other's refill; the number of refills is
bounded by the number of requests.  Four sent rows are read in
pages of one, two and ten, so that a reading has up to five requests between
which the table changes.  The theorems below hold without the bounds.

**Fairness.**  The ticker keeps ticking and Go's scheduler runs every goroutine
that can run: weak fairness of the populator, of the processor's loop, of each
message's goroutine, of each request that is served, of each run and of
`main`.  That a cancelled run ends is not assumed but follows from the
fairness of `populate`, `Process` and the goroutines: `RequestsAnswered` and
`ShutdownCompletes` are checked in `Ulak`, where a goroutine that never returned
would break them.  A cancelled populator may take a tick instead of its context's
branch each time both are ready; Go chooses at random, so that it does not do
so for ever: strong fairness of `ExitPopulator`.  A mutex that a goroutine
waits for is free again and again, and each request takes it once, so that
weak fairness is enough.  The receiver of a notification need not answer:
the HTTP client's timeout ends the wait, which is assumed only of a positive
`HTTP_TIMEOUT_SECONDS`.  The queries of a reading return and its client goes on
(`Read`), which is all that `ReadingEnds` needs, as the table is finite.  Nobody has to insert rows, send requests, stop
workers or end the program, and no fault has to happen.  `EventuallyResolved`
is about a program whose database works and whose workers are left alone, with
`MaxRecordsPerRead` no larger than `MESSAGE_CHANNEL_SIZE` (10 and 100 by
default): otherwise a full page never fits into the channel and is fetched and
discarded for ever (`populator.go:100`), which is what the run `fetch_fits` finds.

## Where the code and its documentation differ

| run | property | what happens |
|---|---|---|
| `reliable_tracking` | `ReliableTracking` | README.MD:73 promises "reliable message tracking"; the offset moves over messages whose send failed (`populator.go:113-125`), and over the one the throttle drops: after a stop and a start they stay PENDING until the program restarts. `AccountedFor` says exactly which rows these can be, and `TrackedWhenUndisturbed` when there are none. |
| `fetch_fits` | `FetchedIsSent` | `populator.go:91` says "fetch only what fits in available space"; the fetch is limited by `MAX_RECORDS_PER_READ` alone and the room is read after it. With a limit above the channel's size, or none, and a backlog of that size, the populator fetches and discards the same page for ever beside an empty channel, though nothing fails. With the limit within the channel's size the property holds, and so it does with a fetch that does what the comment says. `StarvationIsPermanent` proves that no stop, start or restart ends the starvation. |
| `rate_holds` | `RateHolds` | README.MD:69 promises "configurable messages per minute"; each run of the processor makes a limiter with a full burst (`processor.go:165-166`), so that a stop and a start through the API exceed the rate. `ExcessIsBounded` proves by how much, a burst for each limiter after the first, and `RateHoldsInOneRun` that nothing else does. |
| `partial_start` | `StartTurnsOn` | After a stop that timed out, a start that meets a populator that is still returning starts nothing and answers without an error. One that meets two of them is refused with "workers already started", and both end a moment later. |

## What is proved

TLAPS checks the following for all values of the constants, under the
assumptions that the modules name (`StoreAssumption`, `ChannelAssumption`,
`PopulatorAssumption`, `ProcessorAssumption`, `DeliveryAssumption`,
`LifecycleAssumption`, `SerializerAssumption`, `NotifierAssumption`,
`QueryAssumption`): they give
the constants their types, and say that the request's and `main`'s names
differ.

**`DeliveryProofs`, `LedgerProofs`.**  `TypeCorrect`, `NeverBlocks`
(`RoomForBatch`), `DeliveredInOrder` (`InOrder`), `NoStaleStatus`
(`CarriesPending`), `NoOrphanTask` (`DrainedBeforeOff`), `NothingElseLost`
(`AccountedFor`), `OffsetNeverGoesBack` (`OffsetMonotone`) and
`PipelineImplementsLedger` all follow from `InductiveInvariant`.  The
properties are not inductive alone.  `InOrder` needs to know that the batch
lies above the offset (`BatchAhead`) and that nothing behind it lies above
what has been tried (`NothingBeyond`).  `CarriesPending` needs the uniqueness
that `InOrder` gives, or else one goroutine could settle the row another
message of the same offset is still queued for.  `AccountedFor` needs that the
page the query returned has no gap (`Accounting`), which rests on
`PageProperties`, the lemma about `ListByOffset`.  The refinement also needs
that a goroutine that has come to redis or to the commit has really been
delivered and recorded (`ProgressIsReal`).

`StarvationIsPermanent` (`StarvationIsFinal`) is about the finding of
`fetch_fits`: once the next page exceeds the channel (`Starved`), nothing makes
it fit again.  It needs of the invariant that the processor's messages lie at or below the offset while no batch is being sent
(`NothingBeyond`): what it settles is not in the page.

`SentMeansDelivered` (`SentIsReal`) and `StatusIsFinal` (`FinalStatus`) say that
SENT is the truth and final, under every fault and restart: the first needs
`ProgressIsReal`, the second that a goroutine's row is pending while it works
(`CarriesPending`).  `TrackedWhenUndisturbed` (`OnItsWay`) is the positive side of
README.MD:73: if workers are not stopped, the database works, nothing panics,
rows become visible in order, and neither the send timeout nor the burst is
zero, then nothing is dropped (`Undisturbed`) and the offset passes no pending
row that is not still being handled.  Each of these conditions is needed:
`OnItsWay` fails without it.

**`RateLimitProofs`.**  `ExcessIsBounded`: the limiter of the current run is never
ahead of the one that is never replaced by more than a burst for each
replacement (`RateInv`), whatever is stopped, started or restarted.
`RateHoldsInOneRun` is the case without a replacement (`"stop" \notin Faults`,
`MaxRestarts = 0`).  The product of burst and replacements is kept behind a name
(`Allowance`) as the provers know linear arithmetic only.

**`UlakProofs`.**  `ProgramImplementsLifecycle`: every step of the program is one of
`AutoSend` or leaves it alone, so that the theorems of `AutoSendProofs` hold of
the program.  `ProgramImplementsPipeline` (`ImplementsPipeline`): every step is one
of `Delivery`, so that those of `DeliveryProofs` and `LedgerProofs` do.  The
argument is what a step of a request or of `main` looks like to a loop: a start
finds it off (`StartAware`, from `HandleIsRun` and `StartsOnce`), a stop cancels it
or finds it cancelled (`StopAware`), the end of `main`'s context cancels both
(`ShutdownAware`), and what a run's goroutine does after the return concerns no
loop (`AfterReturnUnaware`).  `StoppedIsSilent` (`SilentWhenStopped`) and `ExitIsClean`
(`CleanExit`) then join an invariant of the one half, `AInv`, with one of the
other, `AtRest`: a loop that is off is at its select and has left no goroutine
behind.  `ExitIsClean` assumes that no wait times out; `StoppedIsSilent` assumes
nothing.

**`AutoSendProofs`.**  `LifecycleInvariant` says that `cancel` is set exactly
while a run is in its loop (`HandleIsRun`), that a run ends for a cause, where
each caller is, and how far a stop and a start have come.  From it:
`LifecycleTypeCorrect`, `OneRunAtATime` and `StopIsEffective`, whatever times out or fails;
`StartIsEffective` if `Faults = {}`; `ChannelClosedLast` if `"timeout"` is not
in `Faults`; `LifecycleImplementsRuns`.  The two assumptions are necessary:
after a stop that timed out a start may meet runs that are about to end (the
run `partial_start`), and a populator that outlives its `Stop` may still send when `main` closes the channel.

**`SerializerProofs`.**  `SerializerInvariant` (a request has the mutex of its
route, the mutex of one being served is locked), `ServedOneAtATime` (`OneAtATime`),
`RoutesDoNotWait`, `SerializerImplementsRouteLock`.

**`NotifierProofs`.**  `NotifierInvariant`, `NoNeedlessRepeat`,
`AcceptedSucceeds`, `RequestsPaced`, `NotifierImplementsPromise`.  A receiver
may answer a try at any later time, so that the invariant has to say that a
request without an answer is either waited for or has been given up
(`WaitedOrGivenUp`), and that each request has cost a token (`TokensSpent`).

**`SentMessagesProofs`.**  `ReadingInvariant` (`QInv`), `QueryTypeCorrect`,
`NothingMissed` (`FaithfulReading`), `TotalIsEnough` (`TotalCoversPage`).  The
invariant counts: a row that the reading still owes its client has at least as
many newer SENT rows as the pages so far have rows (`OwedBehind`).  As SENT is
final, the number of newer rows only grows, so that rows that become SENT move
what is owed further away and never out of reach; `ListReaches` shows that the
next page then contains the row or is full.  The argument needs a creation time
of the row's own, and `FaithfulReading` is stated for such rows: two rows with
one creation time may change places between two pages, one shown twice and the
other never.

**Only model-checked**: the liveness properties (`EventuallyResolved`,
`StopCompletes`, `RequestsAnswered`, `ShutdownCompletes`, `EveryoneServed`,
`EveryCallEnds`, `ReadingEnds`), as the prover does not deal with fairness.

## What is not modelled

- The length of any wait: the ticker's period, timeouts, backoffs, and the
  notifier's limiter.  What is modelled is that they may end, in any order.
  The processor's limiter has a clock in `RateLimit` only.
- `Delete`, `GetByID`, `GetByOffset`, `GetMessageDelivered`, `GetMetrics`, which
  nothing in the program calls.
- Decoding and encoding of requests and answers and the texts of errors, which
  decide nothing but the outcomes that the modules have.
- The reading of the configuration: it happens once, before anything else does.
  Its one check is `ChannelAssumption`; values it lets through that end the
  program at its start (`RATE_LIMIT_PER_MINUTE` 0, a `POPULATOR_INTERVAL` that is
  not positive) leave no behaviour to model.
- How many goroutines and transactions are open at a time: the code bounds them
  by the rate alone.
- The test helpers, and the generated API documentation.
- A redis record's time to live: nothing reads the record.

## Plan

1. `WebhookNotifier` and `Delivery` together, so that `delivered` counts what a
   retry sends twice.
2. The restart in `Ulak`, with the requests that a crash cuts off.
3. The channel as a refinement of a queue, and theorems for 1 and 2.
