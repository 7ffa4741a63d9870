--------------------------- MODULE AsyncClientStream ---------------------------
(***************************************************************************)
(* GrpcAsyncClientStream (qlib/GrpcUtil/GrpcAsyncClientStream.qc): a gRPC  *)
(* client stream driven by the async I/O controller.                       *)
(*                                                                         *)
(* Three kinds of thread run the class's code at the same time:            *)
(*   - Users call the public methods; the calls a delivery callback makes  *)
(*     are the same calls, made while the worker stands at the callback;   *)
(*   - Worker runs GrpcStreamPollOperation::continuePoll() and the drain;  *)
(*   - Controller aborts or completes the poll operation.                  *)
(* An action is one critical section of the state lock m, or one effect    *)
(* outside it, so that every unlocked gap of the code is a state.          *)
(***************************************************************************)
EXTENDS Integers, Sequences, FiniteSets

CONSTANTS
    Users,           \* threads that call the public methods
    Timers,          \* names given to armTimer()
    Options,         \* the deadlines of GrpcAsyncStreamOptions that are set
    Chunks,          \* kinds of DATA chunk the server sends
    MaxFrames,       \* bound: messages the server completes
    MaxChunks,       \* bound: chunks the server sends
    Sinks,           \* which delivery sinks the options hold
    Faulty,          \* callbacks that may throw
    Calls,           \* bound: the public methods users call
    ConcurrentAbort  \* may abort() run while the drain runs?

Worker == "worker"
Controller == "controller"
Threads == Users \cup {Worker, Controller}

\* What a DATA chunk does to the deframer: how many messages it completes and
\* what is left behind the last of them ("big" is a frame header that declares
\* more than max_message_size).
ChunkFrames == [whole |-> 1, pair |-> 2, part |-> 0, split |-> 1, big |-> 0]
ChunkTail == [whole |-> "none", pair |-> "none", part |-> "part",
              split |-> "part", big |-> "big"]

Limits == {"call", "drain", "idle"}
Deadlines == Timers \cup Limits

ASSUME ThreadsAssumption == Worker \notin Users /\ Controller \notin Users
ASSUME OptionsAssumption == Options \subseteq {"call", "idle"}
ASSUME ChunksAssumption == Chunks \subseteq DOMAIN ChunkFrames
ASSUME BoundsAssumption == MaxFrames \in Nat /\ MaxChunks \in Nat
ASSUME TimersAssumption == Timers \cap Limits = {}
ASSUME SinksAssumption == Sinks \subseteq {"callbacks", "queue"}
ASSUME FaultyAssumption == Faulty \subseteq {"headers", "message", "timer", "complete", "failure"}
ASSUME CallsAssumption == Calls \subseteq {"cancel", "timer", "idle", "write", "finish"}
ASSUME AbortAssumption == ConcurrentAbort \in BOOLEAN

VARIABLES
    started,           \* m_started
    pollActive,        \* m_poll_active
    complete,          \* GrpcStreamPollOperation::complete
    active,            \* m_active
    cancelRequested,   \* m_cancel_requested
    readsDone,         \* m_reads_done
    writesDone,        \* m_writes_done
    headersDelivered,  \* m_headers_delivered
    outcome,           \* m_result's status, "ERROR" for m_error, "none" for neither
    buf,               \* m_buf: complete frames held, and what is behind them
    dl,                \* m_deadline_us, m_idle_..., m_drain_..., m_timers
    idleOn,            \* m_idle_timeout_us is not 0
    watched,           \* the deadlines the last poll_timeout_ms was computed from
    firing,            \* fireTimers()'s list of due callbacks
    notified,          \* the notifier is signalled
    inq,               \* what the I/O thread queued for readData()
    peer,              \* the HTTP/2 stream
    sent,              \* what the server wrote: complete messages, tail, chunks
    pc, report, ret,   \* per thread: where it is, the end it reports, where it returns
    cbs,               \* callbacks invoked, in order
    queue,             \* events pushed on the Queue, in order
    verdict            \* history: the end markInactive() decided, "none" before

lifecycle == <<started, pollActive, complete, active, cancelRequested>>
readSide == <<readsDone, headersDelivered, buf>>
clocks == <<dl, idleOn, watched, firing>>
transport == <<inq, peer, sent>>
threads == <<pc, report, ret>>
ends == <<outcome, verdict>>
logs == <<cbs, queue>>
vars == <<lifecycle, readSide, writesDone, clocks, notified, transport,
          threads, ends, logs>>

\* How a call can end; "OK" stands for whatever status the server's trailers give.
Verdicts == {"OK", "DATA_LOSS", "RESOURCE_EXHAUSTED", "DEADLINE_EXCEEDED",
             "UNAVAILABLE", "CANCELLED", "ERROR"}
UserLabels == {"idle", "submit", "unsubmitted", "rst_inline", "rst_notify",
               "send", "not_writable", "send_end", "arm_drain", "wake"}
WorkerLabels == {"off", "wait", "poll", "drain", "read", "frames", "message",
                 "headers", "check", "timers", "timer", "deadlines", "rearm",
                 "caught"}
EndLabels == {"mark", "store", "emit"}
DoneLabels == {"done", "done_check", "gone"}
Terminal == {"complete", "failure"}

Init ==
    /\ started = FALSE /\ pollActive = FALSE /\ complete = FALSE
    /\ active = TRUE /\ cancelRequested = FALSE
    /\ readsDone = FALSE /\ headersDelivered = FALSE
    /\ buf = [frames |-> 0, tail |-> "none"]
    /\ writesDone \in BOOLEAN
    /\ dl = [d \in Deadlines |-> IF d \in Options THEN "armed" ELSE "off"]
    /\ idleOn \in BOOLEAN
    /\ idleOn <=> "idle" \in Options
    /\ watched = {} /\ firing = {}
    /\ notified = FALSE
    /\ inq = <<>> /\ peer = "open"
    /\ sent = [frames |-> 0, tail |-> "none", chunks |-> 0]
    /\ pc = [t \in Threads |-> IF t = Worker THEN "off" ELSE "idle"]
    /\ report = [t \in Threads |-> "ERROR"]
    /\ ret = [t \in Threads |-> "gone"]
    /\ outcome = "none" /\ verdict = "none"
    /\ cbs = <<>> /\ queue = <<>>

-----------------------------------------------------------------------------
\* Sub-actions

Goto(t, label) ==
    /\ pc' = [pc EXCEPT ![t] = label]
    /\ UNCHANGED <<report, ret>>

\* Thread t calls deliverResult() or deliverError() and then goes to `back`.
Deliver(t, status, back) ==
    /\ pc' = [pc EXCEPT ![t] = "mark"]
    /\ report' = [report EXCEPT ![t] = status]
    /\ ret' = [ret EXCEPT ![t] = back]

Notify == notified' = TRUE

\* cancelTransport(): the transport may or may not queue the end that the reset
\* causes; when it does, it signals the notifier.
CancelTransport ==
    /\ peer' = IF peer = "open" THEN "cancelled" ELSE peer
    /\ \/ UNCHANGED <<inq, notified>>
       \/ /\ peer = "open"
          /\ inq' = Append(inq, "error")
          /\ Notify
    /\ UNCHANGED sent

\* A callback and a queue event for one delivery; the callback may throw.
Log(kind, events) ==
    /\ cbs' = IF "callbacks" \in Sinks THEN Append(cbs, kind) ELSE cbs
    /\ queue' = IF "queue" \in Sinks THEN queue \o events ELSE queue

Throws(kind) ==
    /\ "callbacks" \in Sinks /\ kind \in Faulty
    /\ cbs' = Append(cbs, kind)
    /\ UNCHANGED queue

-----------------------------------------------------------------------------
\* The server and the clock

ServerSends(item) ==
    /\ peer = "open"
    /\ inq' = Append(inq, item)
    /\ Notify
    /\ UNCHANGED <<lifecycle, readSide, writesDone, clocks, threads, ends, logs>>

ServerHeaders ==
    /\ sent.chunks = 0 /\ inq = <<>> /\ ~headersDelivered
    /\ ServerSends("headers")
    /\ UNCHANGED <<peer, sent>>

ServerData(c) ==
    /\ sent.chunks < MaxChunks
    /\ sent.frames + ChunkFrames[c] <= MaxFrames
    /\ sent.tail # "big"
    /\ sent' = [frames |-> sent.frames + ChunkFrames[c], tail |-> ChunkTail[c],
                chunks |-> sent.chunks + 1]
    /\ ServerSends(c)
    /\ UNCHANGED peer

ServerEnd ==
    /\ ServerSends("end")
    /\ peer' = "ended"
    /\ UNCHANGED sent

ServerReset ==
    /\ ServerSends("error")
    /\ peer' = "reset"
    /\ UNCHANGED sent

Tick(d) ==
    /\ dl[d] = "armed"
    /\ dl' = [dl EXCEPT ![d] = "due"]
    /\ UNCHANGED <<lifecycle, readSide, writesDone, idleOn, watched, firing,
                   notified, transport, threads, ends, logs>>

-----------------------------------------------------------------------------
\* The public methods

Start(u) ==
    /\ pc[u] = "idle" /\ ~started
    /\ started' = TRUE /\ pollActive' = TRUE
    /\ Goto(u, "submit")
    /\ UNCHANGED <<complete, active, cancelRequested, readSide, writesDone,
                   clocks, notified, transport, ends, logs>>

\* controller.submit() accepts the operation, whose first poll is then due, or
\* throws.
Submit(u) ==
    /\ pc[u] = "submit"
    /\ \/ /\ pc' = [pc EXCEPT ![u] = "wake", ![Worker] = "poll"]
          /\ UNCHANGED <<report, ret, pollActive>>
       \/ /\ pollActive' = FALSE
          /\ Goto(u, "unsubmitted")
    /\ UNCHANGED <<started, complete, active, cancelRequested, readSide,
                   writesDone, clocks, notified, transport, ends, logs>>

SubmitFailed(u) ==
    /\ pc[u] = "unsubmitted"
    /\ CancelTransport
    /\ Deliver(u, "ERROR", "idle")
    /\ UNCHANGED <<lifecycle, readSide, writesDone, clocks, ends, logs>>

Wake(u) ==
    /\ pc[u] = "wake"
    /\ Notify
    /\ Goto(u, "idle")
    /\ UNCHANGED <<lifecycle, readSide, writesDone, clocks, transport, ends, logs>>

Cancel(u) ==
    /\ pc[u] = "idle" /\ ~cancelRequested /\ active
    /\ cancelRequested' = TRUE
    /\ Goto(u, IF pollActive THEN "rst_notify" ELSE "rst_inline")
    /\ UNCHANGED <<started, pollActive, complete, active, readSide, writesDone,
                   clocks, notified, transport, ends, logs>>

\* Mutant of CancelReset: the poll operation is not woken.
CancelResetSilent(u) ==
    /\ \/ pc[u] = "rst_notify" /\ Goto(u, "idle")
       \/ pc[u] = "rst_inline" /\ Deliver(u, "CANCELLED", "idle")
    /\ CancelTransport
    /\ UNCHANGED <<lifecycle, readSide, writesDone, clocks, ends, logs>>

CancelReset(u) ==
    /\ \/ pc[u] = "rst_notify" /\ Goto(u, "wake")
       \/ pc[u] = "rst_inline" /\ Deliver(u, "CANCELLED", "idle")
    /\ CancelTransport
    /\ UNCHANGED <<lifecycle, readSide, writesDone, clocks, ends, logs>>

\* Mutant of ArmTimer: the poll operation is not woken.
ArmTimerSilent(u, name) ==
    /\ pc[u] = "idle" /\ active
    /\ dl' = [dl EXCEPT ![name] = "armed"]
    /\ Goto(u, "idle")
    /\ UNCHANGED <<lifecycle, readSide, writesDone, idleOn, watched, firing,
                   notified, transport, ends, logs>>

ArmTimer(u, name) ==
    /\ pc[u] = "idle" /\ active
    /\ dl' = [dl EXCEPT ![name] = "armed"]
    /\ Goto(u, "wake")
    /\ UNCHANGED <<lifecycle, readSide, writesDone, idleOn, watched, firing,
                   notified, transport, ends, logs>>

CancelTimer(u, name) ==
    /\ pc[u] = "idle" /\ dl[name] # "off"
    /\ dl' = [dl EXCEPT ![name] = "off"]
    /\ UNCHANGED <<lifecycle, readSide, writesDone, idleOn, watched, firing,
                   notified, transport, threads, ends, logs>>

SetIdleTimeout(u, on) ==
    /\ pc[u] = "idle"
    /\ idleOn' = on
    /\ dl' = [dl EXCEPT !["idle"] = IF on THEN "armed" ELSE "off"]
    /\ Goto(u, "wake")
    /\ UNCHANGED <<lifecycle, readSide, writesDone, watched, firing, notified,
                   transport, ends, logs>>

Write(u) ==
    /\ pc[u] = "idle" /\ active /\ ~writesDone
    /\ Goto(u, "send")
    /\ UNCHANGED <<lifecycle, readSide, writesDone, clocks, notified, transport,
                   ends, logs>>

WritesDone(u) ==
    /\ pc[u] = "idle" /\ ~writesDone
    /\ writesDone' = TRUE
    /\ Goto(u, "send")
    /\ UNCHANGED <<lifecycle, readSide, clocks, notified, transport, ends, logs>>

\* The server can finish the call at any moment, so any send can fail; it must
\* fail once the stream is not open.
Send(u) ==
    /\ pc[u] = "send"
    /\ \/ peer = "open" /\ Goto(u, "idle")
       \/ Goto(u, "not_writable")
    /\ UNCHANGED <<lifecycle, readSide, writesDone, clocks, notified, transport,
                   ends, logs>>

NotWritable(u) ==
    /\ pc[u] = "not_writable"
    /\ writesDone' = TRUE
    /\ Goto(u, "idle")
    /\ UNCHANGED <<lifecycle, readSide, clocks, notified, transport, ends, logs>>

FinishWrites(u) ==
    /\ pc[u] = "idle"
    /\ writesDone' = TRUE
    /\ Goto(u, IF writesDone THEN "arm_drain" ELSE "send_end")
    /\ UNCHANGED <<lifecycle, readSide, clocks, notified, transport, ends, logs>>

FinishWritesSend(u) ==
    /\ pc[u] = "send_end"
    /\ Goto(u, "arm_drain")
    /\ UNCHANGED <<lifecycle, readSide, writesDone, clocks, notified, transport,
                   ends, logs>>

\* Mutant of FinishWritesArm: the poll operation is not woken.
FinishWritesArmSilent(u) ==
    /\ pc[u] = "arm_drain"
    /\ \/ /\ ~active \/ readsDone
          /\ Goto(u, "idle")
          /\ UNCHANGED dl
       \/ /\ active /\ ~readsDone
          /\ \E state \in {"armed", "off"} : dl' = [dl EXCEPT !["drain"] = state]
          /\ Goto(u, "idle")
    /\ UNCHANGED <<lifecycle, readSide, writesDone, idleOn, watched, firing,
                   notified, transport, ends, logs>>

FinishWritesArm(u) ==
    /\ pc[u] = "arm_drain"
    /\ \/ /\ ~active \/ readsDone
          /\ Goto(u, "idle")
          /\ UNCHANGED dl
       \/ /\ active /\ ~readsDone
          /\ \E state \in {"armed", "off"} : dl' = [dl EXCEPT !["drain"] = state]
          /\ Goto(u, "wake")
    /\ UNCHANGED <<lifecycle, readSide, writesDone, idleOn, watched, firing,
                   notified, transport, ends, logs>>

UserCall(u) ==
    \/ Start(u)
    \/ "cancel" \in Calls /\ Cancel(u)
    \/ /\ "timer" \in Calls
       /\ \E name \in Timers : ArmTimer(u, name) \/ CancelTimer(u, name)
    \/ "idle" \in Calls /\ \E on \in BOOLEAN : SetIdleTimeout(u, on)
    \/ "write" \in Calls /\ (Write(u) \/ WritesDone(u))
    \/ "finish" \in Calls /\ FinishWrites(u)

UserStep(u) ==
    \/ Submit(u) \/ SubmitFailed(u) \/ Wake(u) \/ CancelReset(u)
    \/ Send(u) \/ NotWritable(u) \/ FinishWritesSend(u) \/ FinishWritesArm(u)

-----------------------------------------------------------------------------
\* The terminal event, from whichever thread reports it

\* Mutant of MarkInactive: a stream that has ended is ended again.
MarkInactiveTwice(t) ==
    /\ pc[t] = "mark"
    /\ active' = FALSE
    /\ verdict' = IF cancelRequested THEN "CANCELLED" ELSE report[t]
    /\ pc' = [pc EXCEPT ![t] = "store"]
    /\ report' = [report EXCEPT ![t] = "ERROR"]
    /\ UNCHANGED <<ret, started, pollActive, complete, cancelRequested, readSide,
                   writesDone, clocks, notified, transport, outcome, logs>>

\* Mutant of MarkInactive: a cancel loses to what the transport reports.
MarkInactiveReported(t) ==
    /\ pc[t] = "mark"
    /\ IF active
       THEN /\ active' = FALSE
            /\ verdict' = report[t]
            /\ pc' = [pc EXCEPT ![t] = "store"]
       ELSE /\ pc' = [pc EXCEPT ![t] = ret[t]]
            /\ UNCHANGED <<active, verdict>>
    /\ report' = [report EXCEPT ![t] = "ERROR"]
    /\ UNCHANGED <<ret, started, pollActive, complete, cancelRequested, readSide,
                   writesDone, clocks, notified, transport, outcome, logs>>

MarkInactive(t) ==
    /\ pc[t] = "mark"
    /\ IF active
       THEN /\ active' = FALSE
            /\ verdict' = IF cancelRequested THEN "CANCELLED" ELSE report[t]
            /\ pc' = [pc EXCEPT ![t] = "store"]
       ELSE /\ pc' = [pc EXCEPT ![t] = ret[t]]
            /\ UNCHANGED <<active, verdict>>
    /\ report' = [report EXCEPT ![t] = "ERROR"]
    /\ UNCHANGED <<ret, started, pollActive, complete, cancelRequested, readSide,
                   writesDone, clocks, notified, transport, outcome, logs>>

StoreOutcome(t) ==
    /\ pc[t] = "store"
    /\ outcome' = verdict
    /\ Goto(t, "emit")
    /\ UNCHANGED <<lifecycle, readSide, writesDone, clocks, notified, transport,
                   verdict, logs>>

\* on_complete or on_failure, then the queue event and the NOTHING sentinel.  An
\* exception thrown by the callback skips the queue; raised in the drain it is
\* caught by drainEvents().
EmitTerminal(t) ==
    LET kind == IF outcome = "ERROR" THEN "failure" ELSE "complete" IN
    /\ pc[t] = "emit"
    /\ \/ /\ Log(kind, <<kind, "sentinel">>)
          /\ Goto(t, ret[t])
       \/ /\ Throws(kind)
          /\ Goto(t, IF ret[t] = "done" THEN "caught" ELSE ret[t])
    /\ UNCHANGED <<lifecycle, readSide, writesDone, clocks, notified, transport, ends>>

TerminalStep(t) == MarkInactive(t) \/ StoreOutcome(t) \/ EmitTerminal(t)

-----------------------------------------------------------------------------
\* The poll operation and the drain

\* The controller polls the operation again when the notifier is readable or
\* the timeout computed at the last poll has run out.
WakeUp ==
    /\ pc[Worker] = "wait" /\ ~complete
    /\ notified \/ \E d \in watched : dl[d] = "due"
    /\ watched' = {}
    /\ Goto(Worker, "poll")
    /\ UNCHANGED <<lifecycle, readSide, writesDone, dl, idleOn, firing, notified,
                   transport, ends, logs>>

ContinuePoll ==
    /\ pc[Worker] = "poll"
    /\ IF complete
       THEN Goto(Worker, "gone") /\ UNCHANGED notified
       ELSE Goto(Worker, "drain") /\ notified' = FALSE
    /\ UNCHANGED <<lifecycle, readSide, writesDone, clocks, transport, ends, logs>>

\* checkCancelled() at label `here`, which goes to `next` when there is no cancel
CheckCancelled(here, next) ==
    /\ pc[Worker] = here
    /\ IF cancelRequested THEN Deliver(Worker, "CANCELLED", "done")
                          ELSE Goto(Worker, next)
    /\ UNCHANGED <<lifecycle, readSide, writesDone, clocks, notified, transport,
                   ends, logs>>

ReadNothing ==
    /\ pc[Worker] = "read" /\ inq = <<>>
    /\ peer \in {"open", "cancelled"}
    /\ Goto(Worker, "timers")
    /\ UNCHANGED <<lifecycle, readSide, writesDone, clocks, notified, transport,
                   ends, logs>>

\* readData() throws HTTPCLIENT-STREAM-CLOSED: deliverStreamClosed() reports the
\* transport error if there is one, and otherwise what the trailers say.
ReadClosed ==
    /\ pc[Worker] = "read" /\ inq = <<>> /\ peer # "open"
    /\ readsDone' = TRUE
    /\ \/ Deliver(Worker, "ERROR", "done")
       \/ Goto(Worker, "frames")
    /\ UNCHANGED <<lifecycle, headersDelivered, buf, writesDone, clocks,
                   notified, transport, ends, logs>>

TouchIdleDeadline ==
    dl' = IF idleOn THEN [dl EXCEPT !["idle"] = "armed"] ELSE dl

ReadItem ==
    /\ pc[Worker] = "read" /\ inq # <<>>
    /\ inq' = Tail(inq)
    /\ TouchIdleDeadline
    /\ UNCHANGED <<lifecycle, writesDone, idleOn, watched, firing, notified,
                   peer, sent, ends, logs>>

ReadError ==
    /\ ReadItem /\ Head(inq) = "error"
    /\ Deliver(Worker, "ERROR", "done")
    /\ UNCHANGED readSide

ReadEnd ==
    /\ ReadItem /\ Head(inq) = "end"
    /\ readsDone' = TRUE
    /\ Goto(Worker, "frames")
    /\ UNCHANGED <<headersDelivered, buf>>

ReadHeaders ==
    /\ ReadItem /\ Head(inq) = "headers"
    /\ IF headersDelivered \/ ~active
       THEN Goto(Worker, "read") /\ UNCHANGED headersDelivered
       ELSE Goto(Worker, "headers") /\ headersDelivered' = TRUE
    /\ UNCHANGED <<readsDone, buf>>

ReadChunk ==
    /\ ReadItem /\ Head(inq) \in Chunks
    /\ buf' = [frames |-> buf.frames + ChunkFrames[Head(inq)],
               tail |-> ChunkTail[Head(inq)]]
    /\ Goto(Worker, "frames")
    /\ UNCHANGED <<readsDone, headersDelivered>>

\* Mutant of TakeFrame: a frame is taken without a test that one is complete.
TakeFrameUnchecked ==
    /\ pc[Worker] = "frames"
    /\ buf' = [buf EXCEPT !.frames = @ - 1]
    /\ IF active
       THEN Goto(Worker, "message")
       ELSE IF readsDone THEN Deliver(Worker, "OK", "done")
                         ELSE Goto(Worker, "check")
    /\ UNCHANGED <<lifecycle, readsDone, headersDelivered, writesDone, clocks,
                   notified, transport, ends, logs>>

\* deliverBufferedMessages(): a complete frame is taken and decoded, unless the
\* stream has ended meanwhile; the sinks are read in the same critical section.
TakeFrame ==
    /\ pc[Worker] = "frames" /\ buf.frames > 0
    /\ buf' = [buf EXCEPT !.frames = @ - 1]
    /\ IF active
       THEN Goto(Worker, "message")
       ELSE IF readsDone THEN Deliver(Worker, "OK", "done")
                         ELSE Goto(Worker, "check")
    /\ UNCHANGED <<lifecycle, readsDone, headersDelivered, writesDone, clocks,
                   notified, transport, ends, logs>>

FrameTooLarge ==
    /\ pc[Worker] = "frames" /\ buf.frames = 0 /\ buf.tail = "big"
    /\ buf' = [frames |-> 0, tail |-> "none"]
    /\ CancelTransport
    /\ Deliver(Worker, "RESOURCE_EXHAUSTED", "done")
    /\ UNCHANGED <<lifecycle, readsDone, headersDelivered, writesDone, clocks,
                   ends, logs>>

\* Mutant of FramesExhausted: a stream that ends inside a frame is complete.
FramesExhaustedOK ==
    /\ pc[Worker] = "frames" /\ buf.frames = 0 /\ buf.tail # "big"
    /\ IF readsDone
       THEN /\ Deliver(Worker, "OK", "done")
            /\ buf' = [frames |-> 0, tail |-> "none"]
       ELSE /\ Goto(Worker, "check")
            /\ UNCHANGED buf
    /\ UNCHANGED <<lifecycle, readsDone, headersDelivered, writesDone, clocks,
                   notified, transport, ends, logs>>

\* No complete frame is left: read on, or end the call with the server's status,
\* or with DATA_LOSS when the stream ended inside a frame.
FramesExhausted ==
    /\ pc[Worker] = "frames" /\ buf.frames = 0 /\ buf.tail # "big"
    /\ IF readsDone
       THEN /\ Deliver(Worker, IF buf.tail = "part" THEN "DATA_LOSS" ELSE "OK", "done")
            /\ buf' = [frames |-> 0, tail |-> "none"]
       ELSE /\ Goto(Worker, "check")
            /\ UNCHANGED buf
    /\ UNCHANGED <<lifecycle, readsDone, headersDelivered, writesDone, clocks,
                   notified, transport, ends, logs>>

DeliverEvent(kind, next) ==
    /\ pc[Worker] = kind
    /\ \/ Log(kind, <<kind>>) /\ Goto(Worker, next)
       \/ Throws(kind) /\ Goto(Worker, "caught")
    /\ UNCHANGED <<lifecycle, readSide, writesDone, clocks, notified, transport, ends>>

\* Everything due is taken out of m_timers in one critical section.
FireTimers ==
    /\ pc[Worker] = "timers"
    /\ firing' = {d \in Timers : dl[d] = "due"}
    /\ dl' = [d \in Deadlines |-> IF d \in firing' THEN "off" ELSE dl[d]]
    /\ Goto(Worker, "timer")
    /\ UNCHANGED <<lifecycle, readSide, writesDone, idleOn, watched, notified,
                   transport, ends, logs>>

TimerCallback(name) ==
    /\ pc[Worker] = "timer" /\ name \in firing
    /\ firing' = firing \ {name}
    /\ \/ Goto(Worker, IF active THEN "timer" ELSE "done")
       \/ "timer" \in Faulty /\ Goto(Worker, "caught")
    /\ UNCHANGED <<lifecycle, readSide, writesDone, dl, idleOn, watched,
                   notified, transport, ends, logs>>

TimersFired == firing = {} /\ CheckCancelled("timer", "deadlines")

CheckDeadlines ==
    /\ pc[Worker] = "deadlines"
    /\ IF \E d \in Limits : dl[d] = "due"
       THEN /\ Deliver(Worker, IF "due" \in {dl["call"], dl["drain"]}
                               THEN "DEADLINE_EXCEEDED" ELSE "UNAVAILABLE", "done")
            /\ CancelTransport
       ELSE Goto(Worker, "rearm") /\ UNCHANGED <<notified, transport>>
    /\ UNCHANGED <<lifecycle, readSide, writesDone, clocks, ends, logs>>

\* Mutant of Rearm: the notifier is acknowledged after the drain.
RearmAcknowledges ==
    /\ pc[Worker] = "rearm"
    /\ watched' = {d \in Deadlines : dl[d] # "off"}
    /\ notified' = FALSE
    /\ Goto(Worker, "wait")
    /\ UNCHANGED <<lifecycle, readSide, writesDone, dl, idleOn, firing,
                   transport, ends, logs>>

\* nextTimeoutMs(), and the wait handed back to the controller
Rearm ==
    /\ pc[Worker] = "rearm"
    /\ watched' = {d \in Deadlines : dl[d] # "off"}
    /\ Goto(Worker, "wait")
    /\ UNCHANGED <<lifecycle, readSide, writesDone, dl, idleOn, firing,
                   notified, transport, ends, logs>>

\* drainEvents()'s catch block
DrainCaught ==
    /\ pc[Worker] = "caught"
    /\ CancelTransport
    /\ Deliver(Worker, "ERROR", "done")
    /\ UNCHANGED <<lifecycle, readSide, writesDone, clocks, ends, logs>>

\* pollDone(), run by the worker when the drain returned True, by the controller
\* when it aborts or completes the operation
PollDone(t) ==
    /\ pc[t] = "done"
    /\ complete' = TRUE /\ pollActive' = FALSE
    /\ dl' = [d \in Deadlines |-> IF d \in Timers THEN "off" ELSE dl[d]]
    /\ Goto(t, "done_check")
    /\ UNCHANGED <<started, active, cancelRequested, readSide, writesDone,
                   idleOn, watched, firing, notified, transport, ends, logs>>

PollDoneCheck(t) ==
    /\ pc[t] = "done_check"
    /\ IF active
       THEN CancelTransport /\ Deliver(t, "CANCELLED", "gone")
       ELSE Goto(t, "gone") /\ UNCHANGED <<notified, transport>>
    /\ UNCHANGED <<lifecycle, readSide, writesDone, clocks, ends, logs>>

\* GrpcStreamPollOperation::abort() and onComplete()
Abort ==
    /\ pc[Controller] = "idle" /\ ~complete
    /\ \/ pc[Worker] \in {"wait", "poll"}
       \/ ConcurrentAbort /\ pc[Worker] \notin {"off", "gone"}
    /\ complete' = TRUE
    /\ Goto(Controller, "done")
    /\ UNCHANGED <<started, pollActive, active, cancelRequested, readSide,
                   writesDone, clocks, notified, transport, ends, logs>>

WorkerStep ==
    \/ WakeUp \/ ContinuePoll
    \/ CheckCancelled("drain", "read") \/ CheckCancelled("check", "read")
    \/ ReadNothing \/ ReadClosed \/ ReadError \/ ReadEnd \/ ReadHeaders \/ ReadChunk
    \/ TakeFrame \/ FrameTooLarge \/ FramesExhausted
    \/ DeliverEvent("message", "frames") \/ DeliverEvent("headers", "read")
    \/ FireTimers \/ (\E name \in Timers : TimerCallback(name)) \/ TimersFired
    \/ CheckDeadlines \/ Rearm \/ DrainCaught

Step(t) ==
    \/ t \in Users /\ UserStep(t)
    \/ t = Worker /\ WorkerStep
    \/ TerminalStep(t) \/ PollDone(t) \/ PollDoneCheck(t)

Environment ==
    \/ ServerHeaders \/ ServerEnd \/ ServerReset
    \/ \E c \in Chunks : ServerData(c)
    \/ \E d \in Deadlines : Tick(d)
    \/ Abort

Next ==
    \/ \E t \in Threads : Step(t)
    \/ \E u \in Users : UserCall(u)
    \/ Environment

Spec == Init /\ [][Next]_vars

\* A thread that has begun a call, and the worker, keep running; the clock runs
\* on.  Nothing obliges a user to call, the server to answer or the controller
\* to abort.
Fairness ==
    /\ \A t \in Threads : WF_vars(Step(t))
    /\ \A d \in Deadlines : WF_vars(Tick(d))

FairSpec == Spec /\ Fairness

-----------------------------------------------------------------------------
\* Properties

ThreadsOK ==
    /\ pc \in [Threads -> UserLabels \cup WorkerLabels \cup EndLabels \cup DoneLabels]
    /\ report \in [Threads -> Verdicts]
    /\ ret \in [Threads -> {"idle", "done", "gone"}]

LogsOK ==
    /\ cbs \in Seq({"headers", "message"} \cup Terminal)
    /\ queue \in Seq({"headers", "message", "sentinel"} \cup Terminal)

StateOK ==
    /\ started \in BOOLEAN /\ pollActive \in BOOLEAN /\ complete \in BOOLEAN
    /\ active \in BOOLEAN /\ cancelRequested \in BOOLEAN
    /\ readsDone \in BOOLEAN /\ writesDone \in BOOLEAN /\ headersDelivered \in BOOLEAN
    /\ outcome \in Verdicts \cup {"none"} /\ verdict \in Verdicts \cup {"none"}
    /\ buf \in [frames : Nat, tail : {"none", "part", "big"}]
    /\ sent \in [frames : Nat, tail : {"none", "part", "big"}, chunks : Nat]
    /\ dl \in [Deadlines -> {"off", "armed", "due"}] /\ idleOn \in BOOLEAN
    /\ watched \in SUBSET Deadlines /\ firing \in SUBSET Timers
    /\ notified \in BOOLEAN
    /\ inq \in Seq(Chunks \cup {"headers", "end", "error"})
    /\ peer \in {"open", "ended", "reset", "cancelled"}

\* The types of the variables.
TypeOK == StateOK /\ ThreadsOK /\ LogsOK

\* The controller has not aborted in the middle of a drain.
Undisturbed == ConcurrentAbort => pc[Controller] = "idle"

\* The terminal event is the last callback the stream makes and the last thing
\* it puts on the queue, but for the sentinel: nothing is delivered after it and
\* it is delivered once, whichever of the worker, a cancelling user, a failed
\* start() and an aborting controller reports the end (markInactive(), m_active
\* checks of deliverHeaders() and deliverBufferedMessages(), clearSinks()).  It
\* is not claimed for an abort in the middle of a drain: the message whose
\* delivery the drain had begun can then follow the end.
TerminalIsLast ==
    Undisturbed =>
        /\ \A i \in 1..Len(cbs) : cbs[i] \in Terminal => i = Len(cbs)
        /\ \A i \in 1..Len(queue) :
              /\ queue[i] \in Terminal => i = Len(queue) - 1
              /\ queue[i] = "sentinel" => i = Len(queue)

OneTerminal(log) ==
    \A i, j \in 1..Len(log) : log[i] \in Terminal /\ log[j] \in Terminal => i = j

\* Even when the controller aborts the operation in the middle of a drain, no
\* sink sees a second terminal event (markInactive()).
TerminalOnce ==
    OneTerminal(cbs) /\ OneTerminal(queue)

\* A cancel() that took effect decides the end of the call, whatever the
\* transport or the server made of it meanwhile, and no call is reported as
\* cancelled unless the client or the controller ended it (markInactive(),
\* deliverResult(), deliverError()).
CancelDecides ==
    /\ cancelRequested => verdict \in {"none", "CANCELLED"}
    /\ verdict = "CANCELLED" => cancelRequested \/ pc[Controller] # "idle"

Messages(log) == Cardinality({i \in 1..Len(log) : log[i] = "message"})

\* The server's status is the end of the call only if the server closed the
\* stream at a message boundary and every sink has every message; an end inside a
\* message is DATA_LOSS (deliverStreamClosed(), makeTrailerResult()).  (An abort in
\* the middle of a drain resets the stream under the worker, which then reports
\* what it finds.)
NoSilentLoss ==
    Undisturbed /\ verdict = "OK" =>
                      /\ peer = "ended" /\ sent.tail = "none"
                      /\ "callbacks" \in Sinks => Messages(cbs) = sent.frames
                      /\ "queue" \in Sinks => Messages(queue) = sent.frames

\* The end of the stream, clean or by reset, always ends the call, also when it
\* arrived before start() submitted the operation (start()'s kick).
EndCompletes == (pollActive /\ peer # "open") ~> outcome # "none"

\* No deadline that came due goes unnoticed, whichever thread set it and whatever
\* the worker was doing then: nextTimeoutMs() saw it or a wake-up makes it look
\* again (setIdleTimeout(), finishWrites(), checkDeadlines()).
DeadlineServed ==
    \A d \in Limits : (pollActive /\ dl[d] = "due") ~> (dl[d] # "due" \/ ~active)

\* Nor does an application timer (armTimer(), fireTimers()).
TimerServed ==
    \A d \in Timers : (pollActive /\ dl[d] = "due") ~> (dl[d] # "due" \/ ~active)

\* GrpcAsyncStreamOptions::queue is documented to get a sentinel after the
\* terminal event, so that a get() loop terminates.
QueueLoopTerminates ==
    outcome # "none" ~> (\E i \in 1..Len(queue) : queue[i] = "sentinel")

Contract == INSTANCE CallContract WITH
    sent <- sent.frames, closed <- (peer = "ended"), delivered <- Messages(cbs),
    cancelled <- cancelRequested

\* The callbacks of a stream see a call that keeps its contract: messages in order
\* and none after the end, one end, a cancel that decides it, the server's status
\* only after every message (drainEvents(), markInactive()).
KeepsContract == Contract!Safety

\* A cancelled call ends (cancel(), and the wake-up of the poll operation).
CancelEnds == Contract!CancelEnds

=============================================================================
