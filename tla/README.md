# module-grpc in TLA+

The Qore gRPC module (`qlib/` and `src/`) gives Qore programs gRPC clients and
servers, Arrow and Arrow Flight, and the Salesforce Pub/Sub API. What is hard in it
is of two kinds. One is concurrent: streams driven by an asynchronous I/O
controller and called by users and callbacks at any moment, calls whose two ends
fail independently, subscriptions that outlive the streams they run on. The other
is data that changes its form and must stay the same: messages cut into
frames, types, values and memory that go through the Arrow binding. Both are
modelled here and checked with TLC on small instances, and what matters most of the
first kind is proved with TLAPS for every instance.

## The system

| component | source | state | operations | what makes it hard | what makes it correct |
|---|---|---|---|---|---|
| async client stream | `GrpcUtil/GrpcAsyncClientStream.qc` | life-cycle flags, deframing buffer, deadlines, timers, outcome, sinks | `start`, `write`, `writesDone`, `finishWrites`, `cancel`, `armTimer`, `cancelTimer`, `setIdleTimeout`, the poll operation and its drain | users, worker and controller race to report the end; wake-ups; callbacks that call back or throw | one terminal event, last; the cancel decides; no message lost silently; every deadline and end noticed |
| Pub/Sub subscription | `SalesforcePubSubDataProvider/SalesforcePubSubSubscription.qc` | flags, current stream, replay position, credit, reconnect budget and delay | `start`, `stop`, `replenish`, `handleResponse`, `handleTerminal`, `reconnectNow`, `reconnectIntern` | delivery, end, reconnect, delay and user all on different threads | no event lost or repeated, one stream at a time, stop is final, the consumer is told |
| frame buffer | `GrpcUtil/GrpcFrameBuffer.qc` | bytes, consumed offset | `add`, `takeFrame`, `hasFrame`, `clear` | chunk and size boundaries | frames are those of the concatenated chunks |
| gRPC server | `GrpcUtil/GrpcServerAsync.qc`, `GrpcServer.qc` | handlers, live streams | `onHttpRequest`, `handleUnary`, `handleServerStream`, `handleClientStreamLive`, `handleBidiStreamLive`, `shutdown` | handler failure after headers; four call shapes | headers once, trailers once and last |
| server stream | `GrpcUtil/GrpcServerStream.qc` | buffer, headers sent, reads done | `read`, `write`, `readsDone`, `sendInitialMetadata` | partial frames, end with data | every message once |
| blocking client stream | `GrpcUtil/GrpcClientStream.qc` | handle, buffer, writes done | `write`, `read`, `writesDone`, `finish`, `cancel` | timeouts, reset while writing | status after the messages |
| client, channel, helpers | `GrpcUtil/GrpcClient.qc`, `GrpcChannel.qc`, `GrpcHelper.qc` | connection | unary and stream calls, `parseCallStatus`, `parseTimeout` | non-gRPC answers | the status is the server's |
| Arrow binding | `src/QoreArrowHelper.cpp`, `src/QC_Arrow*.qpp` | schemas, record batches, memory shared by reference counts | type names, hashes and descriptors; values to arrays and back; IPC; ColumnarResult both ways | units, zones, widths, nulls at depth, hand-made buffer layout, zero copy, failure half-way | what goes in comes out; memory lives as long as it is read and no longer |
| gRPC stream events | `GrpcDataProvider/GrpcStreamEventDataProvider.qc` | stream, stop flag, done flag | `observersReady`, `stopEvents`, the callbacks | stop against start, failure while starting | one final event (not modelled) |
| Pub/Sub events and client | `SalesforcePubSubEventDataProvider.qc`, `SalesforcePubSubClient.qc` | subscription, schema cache, token | `observersReady`, `stopEvents`, `getSchema`, `refreshToken` | cache filled outside its lock | cached schema is the right one (not modelled) |
| Arrow Flight | `ArrowFlightDataProvider/`, `GrpcUtil/ArrowFlight*.qc`, `FlightProto.qc` | background thread, stop flag | `streamLoop`, `stopEvents`, the calls | stop against a blocked read | the loop ends (not modelled) |
| reflection, data providers, CDC decoding | remaining files | little | conversions, one call per request | - | not modelled |

How they meet: a user, a data provider or a subscription calls the async stream's
methods; the I/O thread queues what arrives and signals the stream's notifier;
the controller polls the stream's operation on a callback worker, which drains
the queue and calls the owner's callbacks. The subscription is such an owner: it
runs in those callbacks, on transient reconnect threads and in its user's calls.
The blocking stream and the server use the same framing without the controller.
Arrow Flight puts the binding's messages into those calls.

`PROJECT.json` lists the hazards of this code at their lines, with the properties
that cover them.

## The modules

**`AsyncClientStream`** models `GrpcAsyncClientStream` and its poll operation. Its
actions are the critical sections of the state lock `m` and the effects between
them, so each unlocked gap is a state; `pc` says where each thread stands. Users
call the public methods. A callback's calls need no action of their own: they are
a user's call at the time the worker stands at the callback (with one difference,
that the worker does not wait for it). The worker polls, drains and reports. The
controller aborts. Every end goes through `MarkInactive`, `StoreOutcome` and
`EmitTerminal`, the three parts of `deliverResult()` and `deliverError()`.
External are the transport (a queue of items), the clock (`Tick`) and the
controller's wait (`WakeUp`). Abstracted are the bytes (`ChunkFrames` and
`ChunkTail` say what a chunk does to the deframer: completes no, one or two
messages and leaves nothing, part of a frame or an oversized header; the deframer
itself is `GrpcFrameBuffer`'s), the message contents and the statuses: `"OK"`
stands for what the server's trailers say. `deliverStreamClosed()` and the
END_STREAM branch share one path once the reads are done. Left out: an error other than
a stream that is no longer writable, which `send()` and `finishWrites()` pass on to their
caller, and a message that cannot be decoded while nobody listens to messages (with a
callback it is a callback that throws). Reads that close without an end marker are
reachable only after a local cancel, and are a step there.

**`PubSubSubscription`** models the subscription over streams that follow the
contract below: messages in order on one worker, then one terminal event. An
identity in `Streams` is both the stream and its worker. `pc` again marks the gaps
between locks: the write in `sendFetchRequest()` lies between `Fetch`, which
decides and reads the position, and `Book`, which counts the credit. The server
keeps a position and a credit per stream and answers within them; it accepts a
stream only if its first request is the opening one. `mode`, chosen initially from
`Modes`, holds the options `reconnect` and `auto_replenish`, whether a stream may
end before its first request, and how often the user calls `replenish()`. A delay can come due,
be cancelled, fail to be submitted, or be aborted by the controller: `abort()` completes it
and calls nobody. A request goes to the stream that is current when it is checked,
whichever thread opened it (`own` is the stream a thread opened, `ref` the one it writes
to). An event's identity is its number on the topic. `seen`, `base` and `returned` are history
variables. `seen` is 0 until `on_event` has returned from an event, then 1, and 2 once it is
handed over again, returning or not; an event whose `on_event` threw stays at 0, as it is
to come again. Left out: statistics and `last_error`; the lengths of the backoff; the token
refresh, whose failure is that of opening a stream; the preset CUSTOM (a start with a stored
position, and its fall back to EARLIEST when that is corrupted); and an event without a
payload, which `deliverEvent()` passes over without telling the consumer or moving the
position. A stream that was cancelled ends CANCELLED, and so never with a
corrupted replay ID.

**`GrpcFrameBuffer`** is the deframer over byte offsets: a direction of a call is
the sequence of the offsets just behind the frames sent, a buffer the interval of
bytes it holds. A buffer out of step with the frames reads a length from bytes that are
none, so that a wrong offset anywhere shows as a message that nobody sent. The
compaction of the consumed prefix is not visible at this level.

**`GrpcCall`** puts three threads on it: the application in the blocking client's
methods (or in a unary call), the server's I/O thread with its bounded body
queue, and the handler's thread with the server stream. Its one call has any of
the four shapes. `Cuts` are the places where a DATA frame may end: behind a
message, within a header, within a payload. The handler reads, writes, sends
metadata and ends as it likes; both sides can meet their size limits, time out,
and be reset or cancelled. Each action is one method of the code up to the point
where it waits. Trailing metadata, deadlines as numbers and the text of statuses
are left out; so are listeners and routing. An error raised outside the handler's
`try` leaves the call to the listener of libqore's HTTP server (`"escaped"`): a body that is
cut short, and with the fault `"codec"` a request that cannot be decoded and a result that
cannot be encoded. A read
that times out in the server returns NOTHING just as the end does, which the
handler of the model cannot tell apart either. A message that `read()` cannot decode is, on the
server, a handler that ends with a failure; on the client it raises in the
application, which may read on or finish, and is left out. After an empty
message both `read()`s wait for more bytes before they look at the next frame; the
model may look first, which differs only with a size of 0 (`call_empty`).

**`CallContract`** is what a client stream promises its owner: messages in order,
up to the end; one end; a cancel decides it; the server's status only after
everything was delivered; a cancelled call ends. `AsyncClientStream!KeepsContract`
and `GrpcCall!KeepsContract` are two refinements of it: the server's sent
messages, the delivered ones, the cancel and the decided end are the mapping. The
asynchronous stream's is of the contract's safety part, and `CancelEnds` is its
liveness part, stated on its own. The blocking call has no cancel in the mapping:
its `cancel()` ends the call at once and leaves nothing to promise.

**`SubscriptionContract`** is what a subscription promises its consumer, with no word of
streams: events one at a time, each right behind the one before; the position behind
the consumer, and back only if the server calls it corrupted; nothing once the
subscription gave up, which it says once. After a stop what had arrived may still come,
with gaps. `PubSubSubscription!KeepsContract` is the refinement: `position` is
`last_replay_id`, and `given` the event between `on_event` and the assignment that
follows it. The step `Begin` is there because a subscription that has no position yet
asks for the preset again: with LATEST, what was published between two streams is left
out. The contract has no liveness; `pubsub_live` has the subscription's.

**`ArrowData`** has Arrow's types as records with the parameters of all kinds of type,
Qore values, arrays and batches. **`ArrowTypes`** has the binding's three other forms of
a type: names, hashes and ColumnarResult descriptors. A name is kept parsed; `form`
says how its parameters are written, because the parser treats a missing bracket, a
missing comma and garbage differently. **`ArrowValues`** is `appendToBuilder()` and
`scalarToQore()`: values into arrays with validity, values and children as Arrow
lays them out, and back. Division truncates and casts wrap, as in C++.
**`ArrowBatches`** lays the body of an IPC message out buffer by buffer, and has the
rows and columns of a batch.

**`ArrowTable`** takes a table through all of it, one column a step: built from columns
or rows, or come from a foreign implementation; sent as IPC; read; made a
ColumnarResult, over dense buffers, lists or libqore's C Data bridge; and made a batch
again. The program lets go of what it holds in any order, and the thread can be
cancelled between two columns. The conversions are constants of this module, which the
`.cfg` files assign (`ArrayOf <- ListToArray` and so on), so that what it says of
control and memory is said for any conversions, and no recursive operator is in the way
of its proofs. **`ArrowRoundTrips`** puts module and conversions together, and says what
becomes of the data. External are Arrow's builders, the
layout of its messages, the C Data bridge and libqore's reference counts. What
libqore answers to `getRelativeMicroseconds()` is not known from here: what the whole
seconds leave (`DurationOf`), or all of it (`TotalDuration`). A duration therefore carries
its answer, and `arrow` has durations of both kinds. Whether the bridge takes temporal
columns is a build option (`CDataTemporal`).

**`ArrowReferences`** has the reference counts that say who
keeps whose memory, with what is done to them: `Make`, `Share` and `LetGo`, whose
`Settle` runs the destructors from the top level down. **`ArrowMemory`** is the
memory alone as an abstract system that these steps make, and `SharesMemory` says
that `ArrowTable` implements it. Whose data lies in whose memory is there read off
the data (`DataIn`) and not off the references.

**`MCAsyncClientStream`**, **`MCPubSubSubscription`**, **`MCGrpcCall`** and
**`MCArrowTable`** instantiate them for TLC. **`AsyncClientStreamProofs`**,
**`AsyncContractProofs`**, **`GrpcCallProofs`**, **`PubSubProofs`**,
**`PubSubDeliveryProofs`**, **`ArrowReferencesProofs`** (the counts),
**`ArrowMemoryProofs`** and **`ArrowTableProofs`** hold the theorems and their lemmas.

The definitions whose comment begins with "Mutant of" are not part of the
models. Each is an operation with a plausible bug, and checks that the property it
is paired with in `PROJECT.json` would notice that bug.

## What the runs check

| run | shows |
|---|---|
| `async_stream` | two users, a throwing callback, a queue and an abort at any time: `TypeOK`; `TerminalIsLast`: nothing is delivered after the terminal event; `TerminalOnce`; `CancelDecides`; `NoSilentLoss`: the server's status is reported only after a clean end, when every sink has every message |
| `async_live` | a user who writes, half-closes and finishes: `TimerServed`, `DeadlineServed`: a timer or a drain deadline set at any point of the drain, also after a write that failed, is noticed when due |
| `async_contract` | `KeepsContract`: the refinement; `CancelEnds`: a cancelled call ends; `EndCompletes`: an end of the stream, even before `start()`, ends the call |
| `pubsub` | `TypeOK`; `NoSkip`: the position a reconnect resumes from has no unseen event behind it; `NoDuplicate`: no event that `on_event` returned from is handed over again; `OneStream`; `GivenUpIsQuiet`: after giving up, over the budget or otherwise, no stream, delay or opening is left; `StopHasTheStream`: a stream alive after a `stop()` is with a thread about to cancel it; `KeepsContract`: the refinement of `SubscriptionContract` |
| `pubsub_live` | with and without reconnect, and with corrupted replay IDs: `NoSkip`, also after a position was given up; `ReconnectHappens`: a scheduled reconnect leads to a connection or to `on_failure`, also when its own opening fails; `StopEndsStreams`, also for a stream that was being opened; `EndIsReported`: the consumer hears of an end that no reconnect follows |
| `call` | `TypeOK`; `RequestsArrive`, `ResponsesArrive`: every message once, in order and before the end, however the bytes are cut; `ResponseWellFormed`: headers, messages, trailers; `KeepsContract`; `CallAnswered`: with a status, unless an exception leaves the dispatch; `FinishReturns` |
| `arrow` | `TypeOK`; `SchemaSurvives`, `RowsSurvive`, `ColumnsSurvive`, `QueriesSurvive`: the round trips; `WellFormedArrays`: Arrow's rules, at any depth; `BodyMatchesHeader`: the buffers are where the header says; `BridgeSymmetric`; `MemoryOutlives`, `Reclaimed`: memory that is read is alive, and none is left in the end; `SharesMemory`: the refinement of `ArrowMemory` |

Five runs show that the code departs from what it documents:

| run | disagreement |
|---|---|
| `async_sentinel` | a throwing `on_complete` or `on_failure` skips the queue's terminal event and sentinel; a `get()` loop never ends |
| `pubsub_twice` | a reopened stream that ends before its opening request is written is handled as ended twice, by its worker and by the opening thread; two streams then deliver the same events |
| `pubsub_stored` | `stop()` in the middle of a batch: a response already buffered moves the position past the abandoned events, and a restart from `getLastReplayId()` skips them |
| `call_empty` | a message that decodes to an empty hash is false in `if (msg)`: it is consumed, and `read()` never returns it |
| `arrow_date` | a date is written by the day in its own zone and read as midnight UTC in the local one: west of UTC it comes back as the day before |

Two guards bound what these statements say. `TerminalIsLast` and `NoSilentLoss` exclude
an abort in the middle of a drain (`Undisturbed`): whether the controller, which
is not in this repository, does that is not known from here, and if it does, the
message whose delivery had begun can follow the end. `TerminalOnce` and
`CancelDecides` hold then too. And the subscriptions of `pubsub` have streams that
do not end before their first request, and no user who calls `replenish()` while
one is being reopened; `pubsub_twice` lifts the first, and shows why. `Manual` in
`pubsub_live` has both.

### Bounds

- Async stream: two `Users`, so that two ends, or a cancel and a start, can meet;
  one in the liveness runs, as a wake-up is lost between one user and the worker.
  Two or three messages in two chunks (`MaxFrames`, `MaxChunks`), which can end a
  stream between messages of one chunk and behind a partial frame. `Calls` and
  `Faulty` divide the public methods and the throwing callbacks over the runs.
  `async_live` has no messages and no options: with the deadline of the call besides the
  drain's its states are too many, so that `DeadlineServed` is about the drain's there.
- Subscription: three `Streams` are two reconnects, enough to resume from a
  position that was itself resumed. The budget `MaxAttempts` is one and `MaxFails`, which
  bounds what the outside breaks, is two, in `pubsub` and in `pubsub_live`: the second failure
  exceeds it, be it the end of a reopened stream or an opening that fails. Two
  `Delays` let one be pending while another is due. Two events in batches of one
  or two with a window of two can fail in the middle of a batch, run out of
  credit and be topped up. `pubsub_live` has one event, one `Opener`
  and one delay. TLC's SYMMETRY is unsound for liveness; the constraint `InOrder` says
  instead that streams are opened in a fixed order of their identities, which loses no
  behaviour but for their names.
- Call: payloads of two and three bytes (`Sizes`), of which three is over
  `MaxMessageSize`; two messages in the direction that streams when one does, so
  that one can be whole and the next cut, and one in each when both do (`MaxUp`,
  `MaxDown`), where what counts is that they cross; a body limit of seven bytes,
  which a framed message of two bytes just meets and one of three passes; a queue of
  one item. Empty messages are in `call_empty` only, where they are lost. `HandlerEndings` stand for success and failure.
  `MetadataShapes` leaves out the client-streaming handler that sends initial
  metadata: its headers go out a second time with the response, against
  `ResponseWellFormed`, whose statement excludes it (see the end of this file). `Faults` adds what
  cannot be encoded or decoded (`"codec"`) and a response over the body limit of the client's
  channel (`"limit"`).
- Arrow: widths of 3, 4, 8 and 10 bits, a factor of 4 between units of time, days of
  six seconds and ten digits of a number in place of the real ones. They keep
  their order, and the values straddle every one of them, the epoch and midnight.
  One column of every type with up to four rows over one to three values and null;
  a few tables of two columns (`MaxColumns`) for the orders of rows, columns and
  failures. `CancelEvery` is 1, so that a loop notices a cancellation at once (the code looks every
  100 columns or fields and every 256 values; a cancellation in a nested loop ends the conversion
  as one between the values of the column does).
  `Zone` is east of UTC in `arrow` and west in `arrow_date`.

Deadlock is not checked: after the end of a call, a subscription or a table's way
the system stops.

### Fairness

`FairSpec` of `AsyncClientStream` is weak fairness of each thread's steps and of
the clock: the threads are preemptive, the controller polls a signalled notifier
and wakes on its timeout, time passes. Users are not obliged to call, the
server not to answer, the controller not to abort. `PubSubSubscription` adds that a due
delay fires and that the server answers a request it holds; it is not obliged to
publish or to end a stream. In `GrpcCall` the client goes on with a call it is in
and the server with a request it has (their waits have timeouts), and a handler
returns in the end: strong fairness of `HandlerEnds`, because a handler that reads in a
loop leaves the place it could return from again and again. A delay that the controller
aborts does not fire, and nobody hears of it. `ReconnectHappens` is stated for a limited
budget and holds by the budget, not by the bound of what may fail: `MaxFails` exceeds
`MaxAttempts`, so that openings may fail until the subscription gives up, which it must
then report. It allows a stop and an aborted delay. `StopEndsStreams` needs no reconnect.

## What is proved

For every value of the constants that the modules' assumptions allow:

| theorem | says | hypothesis |
|---|---|---|
| `AsyncClientStreamProofs!TypeCorrect` | `Spec => []TypeOK` | |
| `AsyncClientStreamProofs!OneEnd` | `Spec => []TerminalOnce` | |
| `AsyncClientStreamProofs!CancelIsTheEnd` | `Spec => []CancelDecides` | |
| `AsyncClientStreamProofs!NothingFollows` | `Spec => []TerminalIsLast` | |
| `AsyncContractProofs!NoMessageLost` | `Spec => []NoSilentLoss` | |
| `AsyncContractProofs!AsyncKeepsContract` | `Spec => KeepsContract` | callbacks are a sink, no abort in a drain |
| `GrpcCallProofs!CallTypesKept` | `Spec => []TypeOK` | |
| `GrpcCallProofs!OneResponse` | `Spec => []ResponseWellFormed` | no metadata from handlers with a single response |
| `GrpcCallProofs!RequestsKept` | `Spec => []RequestsArrive` | `NoEmptyMessage` |
| `GrpcCallProofs!ResponsesKept` | `Spec => []ResponsesArrive` | `NoEmptyMessage` |
| `GrpcCallProofs!CallKeepsContract` | `Spec => KeepsContract` | `NoEmptyMessage` |
| `PubSubProofs!NeverTwoStreams` | `Spec => []OneStream` | `Orderly` |
| `PubSubProofs!QuietWhenGivenUp` | `Spec => []GivenUpIsQuiet` | `Orderly` |
| `PubSubProofs!StopLosesNoStream` | `Spec => []StopHasTheStream` | `Orderly` |
| `PubSubDeliveryProofs!TypesKept` | `Spec => []TypeOK` | |
| `PubSubDeliveryProofs!NothingMissed` | `Spec => []AllHeard` | |
| `PubSubDeliveryProofs!NeverTwice` | `Spec => []NoDuplicate` | `Orderly`, `Uncorrupted` |
| `PubSubDeliveryProofs!NothingSkipped` | `Spec => []NoSkip` | `Orderly` |
| `PubSubDeliveryProofs!SubscriptionKeepsContract` | `Spec => KeepsContract` | `Orderly` |
| `ArrowMemoryProofs!MemoryKept` | `Spec => []MemoryOutlives`, of `ArrowMemory` | |
| `ArrowMemoryProofs!MemoryReclaimed` | `Spec => []Reclaimed`, of `ArrowMemory` | |
| `ArrowTableProofs!TableTypeCorrect` | `Spec => []TypeOK` | |
| `ArrowTableProofs!TableSharesMemory` | `Spec => SharesMemory` | |
| `ArrowTableProofs!TableMemoryOutlives` | `Spec => []MemoryOutlives` | |
| `ArrowTableProofs!TableReclaimed` | `Spec => []Reclaimed` | |

`Orderly`: where the subscription reconnects, streams do not end before their first
request, and the user does not replenish; one that does not reconnect may do both.
`pubsub_twice` shows that the first is needed. `Uncorrupted`: the server does
not declare a replay ID corrupted, whereupon the subscription deliberately
restarts from its preset, and may deliver again what it delivered. Both are hypotheses of the theorems, not assumptions of
the modules. The `pubsub` run satisfies them, `call` the one of `OneResponse`.
`NoEmptyMessage`: no message has a payload of no bytes; `call_empty` shows that it is
needed, and `call` satisfies it. `AsyncKeepsContract` is about a stream whose owner
listens with callbacks, as the contract speaks of what they are told, and excludes
the abort that `Undisturbed` names by the constant `ConcurrentAbort`;
`async_contract` satisfies both.

The arguments:

- **One end.** `TerminalOnce` says nothing of who emits, so it is not inductive.
  `EndsInv`: at most one thread stands between `markInactive()` and the sinks, the
  stream is inactive from then on, and while the stream is active or such a
  thread is on its way no sink holds a terminal event. `CancelInv`: a thread which
  reports a cancel has seen one, or an abort, and the worker comes to `pollDone()`
  only with the stream inactive.
- **Nothing after it.** `PlaceInv` says where the threads can be at the same time:
  nobody but the worker reports an end while the worker drains (a cancelling user
  does so only when no operation is polled), and the worker delivers only while
  the stream is active. The controller's abort is the exception that
  `Undisturbed` names. `SentinelInv` ties the sentinel to the terminal event.
- **No message lost.** `AccountInv`: the messages the server sent are those in the
  sinks, the one in the worker's hands, those left in the buffer, and those in the
  chunks that wait. A sum over a queue needs induction; instead the account is kept
  by a function that follows the deframer through the waiting chunks and is bounded
  by what was sent, so that taking one chunk shifts it and sending one extends it.
  `PeerInv` says how the server left the stream from what still waits, `WhereInv`
  where the worker may be with a message in hand, `ArrivedInv` that a thread on its
  way to report the server's status has nothing left to hand over. Together
  (`DeliveryInv`) they hold while `Undisturbed`.
- **Requests and responses arrive.** A buffer holds an interval of bytes, and its front is
  always where a frame begins: it is 0 or the offset behind a frame that was sent.
  What is behind it - the chunks of the body queue, those not yet read from the
  wire, what the sender has still to write - continues it without a gap. Frames are
  increasing offsets, so the frame a buffer takes next is the one behind the last
  delivered, and an empty buffer at the end of the data has delivered them all.
  With these facts each step of a call is a step of `CallContract` or none.
- **The server's answer.** `WireInv` says what is on the wire by where the handler
  thread stands, `HeadersInv` that `headersSent` tells whether headers are there,
  `SingleInv` how many messages a single response has had. A call that is being
  answered has none of its trailers out. Where an exception has left the dispatch nothing
  more is sent (`RespondsNothing`).
- **One stream.** The right to run a stream is a token, held by the `start()` to
  come, an opening thread, the stream, the thread that handles its end, the
  submitted delay, or the thread that the delay starts. `TokenInv`: it has one holder, and
  none once the subscription has given up. `RolesInv` says what each thread may do
  with it, which is what lets every step be read as handing the token on. Its part
  `SoloInv` is about a subscription that does not reconnect: it has but one stream in
  its life, so that it does no harm to lose it early. `LaunchInv` is about opening: a thread may
  write to a stream that it did not open, but while there is one token that stream is its
  own (`OpensCurrent`), and nobody asked it for anything yet. For `QuietWhenGivenUp`, `NewInv`
  adds that a delay not armed yet has a thread that submits it; the token says that no such
  thread, no armed delay and no opening are left once the subscription gave up.
- **None missed.** `AllHeard`: until it is stopped or gives up, a subscription has no
  unseen event behind its position. This needs no token and holds for subscriptions that run two
  streams, which deliver events twice but leave none out, also where two threads open
  a stream each and both write their opening request to the same one. Each stream's chain is
  by itself without a gap (`BoxInv`): the response in hand, those that wait, what
  the server goes on with. `CoverInv` says that what comes before a chain was seen, and
  what comes before the position, before one that a request is about to be written with, and
  so before every chain a stream can begin with. The steps that touch no chain keep
  it (`AsideStep`), the nine others are looked at one by one (`AlongStep`).
- **No event twice, and none skipped when giving up.** With one stream there is one
  chain, and what was seen comes before it. `ChainInv` says that it begins right behind the
  position; `ReopenInv` that an opening request is written with the position still in
  force, so that a reopened stream takes the chain up behind the last event seen; and
  `OnceInv` that the consumer saw nothing else, unless a position was given up. That
  happens when the stream has ended, and the token says that no other stream goes by
  the old position (`SpoiltKeeps`). A subscription that gave up has no stream, so its
  position stays what it was while there was a consumer (`SeenKeeps`). A `stop()` breaks
  the chain, which is why `NoSkip` is said of subscriptions that are not stopping.
- **Stopped streams.** `HandsInv`: a living stream that is not cancelled is the current one, or
  in the hands of the thread that opens it or of the user that stops. A `stop()` takes the
  current one into its hands. Only the end of a stream makes it no longer current,
  and by the token no other stream lives then.
- **The subscription's contract.** Each step beside the chain is one of the contract's
  or shows the consumer nothing. Of the steps along it, an event given, the position
  passing it and a position adopted are where `ChainInv` says; an opening request
  asks for the position or, if there is none, begins anew (`ReopenInv`). A thread that handles the
  end of a stream has the token, so that nothing is given while it gives up (`EndsAlone`).
  `AheadInv` is new: nothing in a chain is ahead of what was published.
- **Types of the subscription.** `TypesKept` needs no token either, only what a thread has
  in hand (`HandInv`): a thread that publishes a stream has one, and a worker that
  delivers an event holds a response with one.
- **Memory.** `CountInv`: every count is the number of live objects that have a
  reference, and one for the program's. Giving references back is the hard step, as one
  death leads to the next: each level settles with the deaths of the level above
  it alone, so that in the end every count has lost exactly what died over it
  (`LetGoCounts`). The lemmas of `ArrowReferencesProofs` are about the counts alone, so that
  `ArrowMemory` and `ArrowTable` share them.
- **The binding implements it.** `Refines` says what each operation does: it makes an
  object that was not made yet, shares memory that is alive for a column whose data then lies in it, gives
  back what is in hand, or leaves memory and data alone. That an operation always finds
  what it shares alive is `PlaceInv`: the batch that is read is in hand until its
  last column is imported, the dense buffers until the last is exported, and a
  failure gives back what it has. `FreshInv` says that the objects of the columns to come do not
  exist yet, so that no reference is counted twice. The theorems hold for any number of
  columns and any conversions; that a table is no wider than
  `MaxColumns`, and that nothing is sent of a batch without columns, are assumptions of
  `ArrowTable` (`InputsAssumption`, `BodyAssumption`) that TLC evaluates for the
  conversions of the binding.

Only model-checked, or not true:

- what `ArrowRoundTrips` says of the data (`SchemaSurvives`, `WellFormedArrays`,
  `RowsSurvive`, `BodyMatchesHeader`, `ColumnsSurvive`, `QueriesSurvive`,
  `BridgeSymmetric`): Arrow's types are recursive and so are the operators on them,
  RECURSIVE ones, which the prover does not take;
- liveness, `CancelEnds` among it: the prover has no fairness or ENABLED reasoning;
- `OneStream` and `NoDuplicate` outside `Orderly` do not hold (`pubsub_twice`), nor does `NoSkip`
  after giving up: the other stream moves the position with no consumer to see its
  events.

## Not modelled

- **The event providers** (gRPC, Pub/Sub, Arrow Flight): thin adapters that forward a
  stream's callbacks as events. The single end they rely on is checked and proved for
  the stream. Whether `stopEvents()` wakes a blocked read of Arrow Flight is up to the
  HTTP client.
- **`SalesforcePubSubClient`**: its schema cache is filled outside its lock, which costs a
  second fetch of the same schema. Its token refresh is part of an open that fails.
- **Arrow Flight client and server, reflection, data providers, CDC decoding**:
  conversions and one call per request, over components that are modelled.
- **Listeners, `shutdown()`, the channel's connection, percent coding, the text of
  timeouts.** I/O of libqore and formatting.
- In the Arrow binding: reading an IPC message whose header is empty, and the
  dictionary messages of other implementations (a batch that needs them is refused). A column
  that is neither list nor buffer, one without a buffer of values, and Arrow's
  builders running out of memory: each ends its conversion in the column where it is met, as a
  value that does not convert does.

## Seen on the way

Three departures from what the repository documents, which no run shows and which the
statements of the properties leave out by name:

- **The hash of a map.** `QC_ArrowSchema.qpp:56` and `docs/guide-grpcarrow.dox.tmpl:73` give a
  field of type map two children, key and value. `fieldToHash()` gives it one, the struct
  of its entries, and the way back makes a map of strings of it: the hash of a map of
  other than strings does not survive. `SchemaSurvives` excepts it (`Plain`); without the
  exception the map of integers in `arrow` refutes it.
- **Headers twice.** `sendInitialMetadata()` is documented for every server stream
  (`GrpcServerStream.qc:344`). A handler of a client-streaming method that calls it has headers
  submitted again with its response (`GrpcServerAsync.qc:666`) or with its error.
  `ResponseWellFormed` and `OneResponse` except it; with `"client"` in `MetadataShapes` the run
  `call` refutes the property.
- **Durations.** `appendToBuilder()` adds `getRelativeMicroseconds()` to the whole seconds
  (`QoreArrowHelper.cpp:1318`). If libqore's answer is the total, as the one for seconds is, then
  a duration in a unit below the second is written as twice what it was, and is not
  preserved as `test/arrow-ipc.qtest:674` has it; that test asks only for more than zero. Which
  it is, libqore decides. `RowsSurvive` excepts that case; `arrow` has the others, durations
  in seconds among them, under both answers.

And left as it is, because no document says otherwise: a call that ends cleanly without a status
is reported OK by `parseCallStatus()`; a queue timeout is reported INTERNAL; an exception of
the codec on the server leaves a call to the listener; an aborted delay is not
reported; a value of the wrong kind becomes null in a date or binary column, and an integer
too wide wraps; `decimal128(5)` has scale 5.

## What could come next

1. `StreamEvents`: `GrpcStreamEventDataProvider` over `CallContract`, then the Pub/Sub and
   Arrow Flight providers with their stop.
2. The schema cache: concurrent `getSchema()` calls and eviction at the limit.
3. Theorems about subscriptions whose streams may end early, for what still holds there.
