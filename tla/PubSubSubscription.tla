--------------------------- MODULE PubSubSubscription ---------------------------
(***************************************************************************)
(* SalesforcePubSubSubscription                                            *)
(* (qlib/SalesforcePubSubDataProvider/SalesforcePubSubSubscription.qc): a  *)
(* subscription that outlives its streams.  It keeps the replay position   *)
(* and the flow-control credit, and reopens the stream when it ends.       *)
(*                                                                         *)
(* Threads: the caller of start(), the transient threads of reconnectNow() *)
(* (Openers), one delivery worker per stream (named by its stream), a user *)
(* that calls stop() and replenish(), and the controller that fires the    *)
(* SalesforcePubSubDelay operations.  A stream is a GrpcAsyncClientStream  *)
(* seen through its contract (module CallContract): messages in order on   *)
(* one worker, then one terminal event.                                    *)
(***************************************************************************)
EXTENDS Integers, Sequences, FiniteSets

CONSTANTS
    Streams,            \* bound: identities of the streams opened
    Openers,            \* bound: identities of the reconnect threads
    Delays,             \* bound: identities of the reconnect delays
    MaxEvents,          \* bound: events published on the topic
    MaxBatch,           \* bound: events in one FetchResponse
    MaxFails,           \* bound: stream ends and failed opens the outside causes
    NumRequested,       \* num_requested
    LowWaterMark,       \* low_water_mark
    Modes,              \* which subscriptions are looked at (see `mode`)
    MaxAttempts,        \* max_reconnect_attempts, 0 for no limit
    Preset,             \* replay_preset: "latest" or "earliest"
    Faults,             \* what else may go wrong: "callback", "corrupt", "submit", "abort"
    Stoppable           \* may the user call stop()?

Starter == "start()"
User == "user"
None == "none"

Threads == Streams \cup Openers \cup {Starter, User}
Home(t) == IF t \in Streams THEN "wait" ELSE "idle"

ASSUME IdentitiesAssumption ==
    /\ Streams \cap Openers = {}
    /\ {Starter, User, None} \cap (Streams \cup Openers \cup Delays) = {}
ASSUME FlowAssumption ==
    /\ NumRequested \in Nat \ {0}
    /\ LowWaterMark \in 0..(NumRequested - 1)
ASSUME PresetAssumption == Preset \in {"latest", "earliest"}
ASSUME SwitchesAssumption ==
    /\ Modes \subseteq [reconnect : BOOLEAN, autoReplenish : BOOLEAN,
                        earlyEnd : BOOLEAN, replenishes : Nat]
    /\ Stoppable \in BOOLEAN
    /\ Faults \subseteq {"callback", "corrupt", "submit", "abort"}
ASSUME BoundsAssumption ==
    /\ MaxEvents \in Nat /\ MaxFails \in Nat /\ MaxAttempts \in Nat
    /\ MaxBatch \in Nat \ {0}

VARIABLES
    started, stopping, finished, connected,  \* the flags of those names
    current,        \* stream
    lastReplay,     \* last_replay_id, 0 for none
    outstanding, backstopArmed, healthy, attempts,
    delay,          \* reconnect_delay
    sinks,          \* on_event and on_failure are still set
    delays,         \* SalesforcePubSubDelay: its state
    published,      \* events on the topic so far
    pos, credit,    \* per stream, the server's side: position and credit held
    life,           \* per stream: "unused", "opened", "asked" once the server holds a
                    \* request, "closed" from outside, "ended" with its terminal event
    corrupt,        \* per stream: its status names a corrupted replay ID
    cancelled,      \* per stream: cancel() was called
    box,            \* per stream: responses not yet handled
    timer,          \* per stream: the flow-control-backstop timer
    fails,          \* ends the outside has caused so far
    pc, resp, req, own, ref, call, at,  \* per thread: locals
    seen,           \* history: of an event, 0 until on_event has returned from it, then 1,
                    \* and 2 once it was handed over again
    base,           \* history: where the server began when given no replay ID
    returned,       \* history: stop() has returned
    replenishes,    \* replenish() calls of the user so far
    mode            \* the options reconnect and auto_replenish; whether a stream may
                    \* end before its first FetchRequest; and a bound on the
                    \* replenish() calls of the user

flags == <<started, stopping, finished>>
link == <<connected, current>>
flow == <<outstanding, backstopArmed>>
retry == <<healthy, attempts, delay, delays>>
server == <<published, pos, credit, life, corrupt, fails>>
wire == <<cancelled, box, timer>>
locals == <<pc, resp, req, own, ref, call, at>>
history == <<seen, base, returned, replenishes, mode>>
vars == <<flags, link, lastReplay, flow, retry, sinks, server, wire, locals, history>>

Reconnect == mode.reconnect
AutoReplenish == mode.autoReplenish
EarlyEnd == mode.earlyEnd
MaxReplenishes == mode.replenishes

\* Where the server begins that is given no replay ID.
StartPosition == IF Preset = "latest" THEN published ELSE 0

NoResponse == [from |-> 0, to |-> 0, pending |-> 0]

Init ==
    /\ started = FALSE /\ stopping = FALSE /\ finished = FALSE
    /\ connected = FALSE /\ current = None
    /\ lastReplay = 0
    /\ outstanding = 0 /\ backstopArmed = FALSE
    /\ healthy = FALSE /\ attempts = 0
    /\ delay = None /\ delays = [d \in Delays |-> "unused"]
    /\ sinks = TRUE
    /\ published \in 0..MaxEvents
    /\ pos = [s \in Streams |-> 0] /\ credit = [s \in Streams |-> 0]
    /\ life = [s \in Streams |-> "unused"] /\ corrupt = [s \in Streams |-> FALSE]
    /\ cancelled = [s \in Streams |-> FALSE] /\ box = [s \in Streams |-> <<>>]
    /\ timer = [s \in Streams |-> "off"]
    /\ fails = 0 /\ replenishes = 0
    /\ pc = [t \in Threads |-> Home(t)]
    /\ resp = [s \in Streams |-> NoResponse]
    /\ req = [t \in Threads |-> 0]
    /\ own = [t \in Threads |-> None] /\ ref = [t \in Threads |-> None]
    /\ call = [t \in Threads |-> "none"] /\ at = [t \in Threads |-> 0]
    /\ seen = [e \in 1..MaxEvents |-> 0] /\ base = StartPosition
    /\ returned = FALSE /\ mode \in Modes

-----------------------------------------------------------------------------
Goto(t, label) ==
    /\ pc' = [pc EXCEPT ![t] = label]
    /\ UNCHANGED <<resp, req, own, ref, call, at>>

\* Thread t goes on to sendFetchRequest(count), on behalf of `why`.
Request(t, count, why) ==
    /\ pc' = [pc EXCEPT ![t] = "fetch"]
    /\ req' = [req EXCEPT ![t] = count]
    /\ call' = [call EXCEPT ![t] = why]
    /\ UNCHANGED <<resp, own, ref, at>>

\* Thread t is through with sendFetchRequest(), and with what called it; its
\* locals die with it.
Return(t) ==
    /\ pc' = [pc EXCEPT ![t] = Home(t)]
    /\ req' = [req EXCEPT ![t] = 0]
    /\ call' = [call EXCEPT ![t] = "none"]
    /\ own' = [own EXCEPT ![t] = None]
    /\ ref' = [ref EXCEPT ![t] = None]
    /\ at' = [at EXCEPT ![t] = 0]
    /\ resp' = [s \in Streams |-> IF s = t THEN NoResponse ELSE resp[s]]

\* Stream s ends with what it has not delivered dropped, and its worker runs
\* handleComplete() or handleFailure().
Collapse(s) ==
    /\ life' = [life EXCEPT ![s] = "ended"]
    /\ box' = [box EXCEPT ![s] = <<>>]
    /\ timer' = [timer EXCEPT ![s] = "off"]
    /\ UNCHANGED cancelled
    /\ Goto(s, "terminal")

-----------------------------------------------------------------------------
\* The server and the clock

Publish ==
    /\ published < MaxEvents
    /\ published' = published + 1
    /\ UNCHANGED <<flags, link, lastReplay, flow, retry, sinks, pos, credit, life,
                   corrupt, fails, wire, locals, history>>

\* A FetchResponse with the next events, within the credit granted, and the
\* credit that is left; or the empty one, sent when there is nothing to send.
Respond(s) ==
    /\ life[s] = "asked" /\ ~cancelled[s]
    /\ \/ \E n \in 1..MaxBatch :
            /\ n <= credit[s] /\ pos[s] + n <= published
            /\ box' = [box EXCEPT ![s] = Append(@, [from |-> pos[s] + 1, to |-> pos[s] + n,
                                                    pending |-> credit[s] - n])]
            /\ pos' = [pos EXCEPT ![s] = @ + n]
            /\ credit' = [credit EXCEPT ![s] = @ - n]
       \/ /\ pos[s] = published /\ box[s] = <<>>
          /\ box' = [box EXCEPT ![s] = <<[from |-> published + 1, to |-> published,
                                          pending |-> credit[s]]>>]
          /\ UNCHANGED <<pos, credit>>
    /\ UNCHANGED <<flags, link, lastReplay, flow, retry, sinks, published, life,
                   corrupt, fails, cancelled, timer, locals, history>>

\* The stream ends from outside: a status, a clean close, a reset, an idle bound.
StreamCloses(s) ==
    /\ \/ life[s] = "asked"
       \/ EarlyEnd /\ life[s] = "opened"
    /\ fails < MaxFails
    /\ fails' = fails + 1
    /\ life' = [life EXCEPT ![s] = "closed"]
    /\ \E c \in IF "corrupt" \in Faults THEN BOOLEAN ELSE {FALSE} :
          corrupt' = [corrupt EXCEPT ![s] = c]
    /\ UNCHANGED <<flags, link, lastReplay, flow, retry, sinks, published, pos,
                   credit, wire, locals, history>>

BackstopDue(s) ==
    /\ timer[s] = "armed"
    /\ timer' = [timer EXCEPT ![s] = "due"]
    /\ UNCHANGED <<flags, link, lastReplay, flow, retry, sinks, server, cancelled,
                   box, locals, history>>

-----------------------------------------------------------------------------
\* start(), and openStream() on whichever thread runs it

Start ==
    /\ pc[Starter] = "idle" /\ ~started
    /\ started' = TRUE
    /\ Goto(Starter, "open")
    /\ UNCHANGED <<stopping, finished, link, lastReplay, flow, retry, sinks, server,
                   wire, history>>

ReconnectIntern(o) ==
    /\ o \in Openers /\ pc[o] = "intern"
    /\ IF stopping \/ finished THEN Return(o) ELSE Goto(o, "open")
    /\ UNCHANGED <<flags, link, lastReplay, flow, retry, sinks, server, wire, history>>

OpenStream(o) ==
    /\ pc[o] = "open"
    /\ IF stopping
       THEN Return(o) /\ UNCHANGED <<flow, healthy>>
       ELSE /\ outstanding' = 0 /\ backstopArmed' = FALSE /\ healthy' = FALSE
            /\ Goto(o, "bidi")
    /\ UNCHANGED <<flags, link, lastReplay, attempts, delay, delays, sinks, server,
                   wire, history>>

\* An exception in openStream() goes to the caller of start(), and to
\* handleTerminal() on a reconnect thread.
OpenThrows(o) ==
    /\ IF o = Starter THEN Return(o) ELSE Goto(o, "terminal")

\* refreshToken() and bidiStreamAsync(): the stream is live, with its own worker,
\* before openStream() gets hold of it.
BidiStream(o) ==
    /\ pc[o] = "bidi"
    /\ \/ \E s \in Streams :
            /\ life[s] = "unused"
            /\ life' = [life EXCEPT ![s] = "opened"]
            /\ own' = [own EXCEPT ![o] = s]
            /\ pc' = [pc EXCEPT ![o] = "publish"]
            /\ UNCHANGED <<resp, req, ref, call, at, fails>>
       \/ /\ fails < MaxFails
          /\ fails' = fails + 1
          /\ OpenThrows(o)
          /\ UNCHANGED life
    /\ UNCHANGED <<flags, link, lastReplay, flow, retry, sinks, published, pos, credit,
                   corrupt, wire, history>>

\* Mutant of PublishStream: a stop during the opening goes unnoticed.
PublishStreamAnyway(o) ==
    /\ pc[o] = "publish"
    /\ current' = own[o] /\ connected' = TRUE
    /\ Request(o, NumRequested, "open")
    /\ UNCHANGED <<flags, lastReplay, flow, retry, sinks, server, wire, history>>

PublishStream(o) ==
    /\ pc[o] = "publish"
    /\ current' = own[o] /\ connected' = TRUE
    /\ IF stopping THEN Goto(o, "cancel") ELSE Request(o, NumRequested, "open")
    /\ UNCHANGED <<flags, lastReplay, flow, retry, sinks, server, wire, history>>

\* s.cancel(), because the subscription was stopped meanwhile or because the
\* opening request could not be sent
OpenCancels(o) ==
    /\ pc[o] \in {"cancel", "undo"}
    /\ cancelled' = [cancelled EXCEPT ![own[o]] = TRUE]
    /\ IF pc[o] = "cancel" THEN Return(o) ELSE OpenThrows(o)
    /\ UNCHANGED <<flags, link, lastReplay, flow, retry, sinks, server, box, timer, history>>

-----------------------------------------------------------------------------
\* sendFetchRequest(): the check, the write, the bookkeeping.  A request goes to the
\* stream that is current at the check, whichever thread opened it.

\* Mutant of Fetch: the opening request ignores the stored position.
FetchPreset(t) ==
    /\ pc[t] = "fetch"
    /\ IF stopping \/ ~connected \/ current = None
       THEN Return(t)
       ELSE /\ pc' = [pc EXCEPT ![t] = "write"]
            /\ ref' = [ref EXCEPT ![t] = current]
            /\ UNCHANGED at
            /\ UNCHANGED <<resp, req, own, call>>
    /\ UNCHANGED <<flags, link, lastReplay, flow, retry, sinks, server, wire, history>>

Fetch(t) ==
    /\ pc[t] = "fetch"
    /\ IF stopping \/ ~connected \/ current = None
       THEN Return(t)
       ELSE /\ pc' = [pc EXCEPT ![t] = "write"]
            /\ ref' = [ref EXCEPT ![t] = current]
            /\ at' = [at EXCEPT ![t] = lastReplay]
            /\ UNCHANGED <<resp, req, own, call>>
    /\ UNCHANGED <<flags, link, lastReplay, flow, retry, sinks, server, wire, history>>

\* The server holds the request once it is written.  The first request of a stream names
\* the topic and sets the position; the server refuses a stream that begins with
\* another, and ignores the position of a later one.
WriteSucceeds(t) ==
    LET s == ref[t] IN
    /\ pc[t] = "write"
    /\ life[s] \in {"opened", "asked"} /\ ~cancelled[s]
    /\ credit' = [credit EXCEPT ![s] = @ + req[t]]
    /\ IF life[s] = "asked"
       THEN UNCHANGED <<life, pos, base>>
       ELSE IF call[t] = "open"
       THEN /\ life' = [life EXCEPT ![s] = "asked"]
            /\ pos' = [pos EXCEPT ![s] = IF at[t] # 0 THEN at[t] ELSE StartPosition]
            /\ base' = IF at[t] # 0 THEN base ELSE StartPosition
       ELSE life' = [life EXCEPT ![s] = "closed"] /\ UNCHANGED <<pos, base>>
    /\ Goto(t, "book")
    /\ UNCHANGED <<flags, link, lastReplay, flow, retry, sinks, published, corrupt,
                   fails, wire, seen, replenishes, returned, mode>>

\* GRPC-STREAM-ERROR: openStream() cancels its stream; an exception in a
\* delivery callback ends the stream that delivered; flowControlBackstop()
\* catches it; replenish() raises it to the user.
WriteThrows(t) ==
    LET s == ref[t] IN
    /\ pc[t] = "write"
    /\ life[s] \in {"closed", "ended"} \/ cancelled[s]
    /\ CASE call[t] = "open" -> Goto(t, "undo") /\ UNCHANGED <<life, wire>>
         [] call[t] = "top_up" -> Collapse(t)
         [] OTHER -> Return(t) /\ UNCHANGED <<life, wire>>
    /\ UNCHANGED <<flags, link, lastReplay, flow, retry, sinks, published, pos, credit,
                   corrupt, fails, history>>

Book(t) ==
    /\ pc[t] = "book"
    /\ outstanding' = outstanding + req[t]
    /\ backstopArmed' = FALSE
    /\ timer' = IF backstopArmed THEN [timer EXCEPT ![ref[t]] = "off"] ELSE timer
    /\ Return(t)
    /\ UNCHANGED <<flags, link, lastReplay, retry, sinks, server, cancelled, box, history>>

-----------------------------------------------------------------------------
\* handleResponse() on the worker of stream s

TakeResponse(s) ==
    /\ pc[s] = "wait" /\ life[s] \in {"asked", "closed"} /\ box[s] # <<>>
    /\ resp' = [resp EXCEPT ![s] = Head(box[s])]
    /\ box' = [box EXCEPT ![s] = Tail(@)]
    /\ healthy' = TRUE
    /\ attempts' = IF healthy THEN attempts ELSE 0
    /\ pc' = [pc EXCEPT ![s] = IF Head(box[s]).from > Head(box[s]).to
                               THEN "keepalive" ELSE "event"]
    /\ UNCHANGED <<req, own, ref, call, at>>
    /\ UNCHANGED <<flags, link, lastReplay, flow, delay, delays, sinks, server,
                   cancelled, timer, history>>

\* Mutant of CallbackThrows: the reconnect is begun with the stream left open.
CallbackThrowsOpen(s) ==
    /\ "callback" \in Faults /\ sinks /\ fails < MaxFails
    /\ fails' = fails + 1
    /\ Goto(s, "terminal") /\ UNCHANGED <<life, wire>>

\* An exception from the consumer's callback ends the stream that delivered.
CallbackThrows(s) ==
    /\ "callback" \in Faults /\ sinks /\ fails < MaxFails
    /\ fails' = fails + 1
    /\ Collapse(s)

\* on_event was called and did not return; that it saw e before now counts as a repeat.
HandedAgain(e) == seen' = IF seen[e] = 0 THEN seen ELSE [seen EXCEPT ![e] = 2]

\* Mutant of OnEvent: the position advances before the callback has returned.
OnEventAdvances(s) ==
    LET e == resp[s].from IN
    /\ pc[s] = "event"
    /\ \/ /\ seen' = IF sinks /\ seen[e] < 2 THEN [seen EXCEPT ![e] = @ + 1] ELSE seen
          /\ Goto(s, "advance")
          /\ UNCHANGED <<life, wire, fails>>
       \/ CallbackThrows(s) /\ HandedAgain(e)
    /\ lastReplay' = e
    /\ UNCHANGED <<flags, link, flow, retry, sinks, published, pos, credit,
                   corrupt, base, replenishes, returned, mode>>

\* on_event, or an exception from it or from decoding the event (deliverEvent())
OnEvent(s) ==
    LET e == resp[s].from IN
    /\ pc[s] = "event"
    /\ \/ /\ seen' = IF sinks /\ seen[e] < 2 THEN [seen EXCEPT ![e] = @ + 1] ELSE seen
          /\ Goto(s, "advance")
          /\ UNCHANGED <<life, wire, fails>>
       \/ CallbackThrows(s) /\ HandedAgain(e)
    /\ UNCHANGED <<flags, link, lastReplay, flow, retry, sinks, published, pos, credit,
                   corrupt, base, replenishes, returned, mode>>

\* Mutant of Advance: a stop ends the batch before the position has advanced.
AdvanceUnlessStopped(s) ==
    LET e == resp[s].from IN
    /\ pc[s] = "advance"
    /\ IF stopping
       THEN Return(s) /\ UNCHANGED lastReplay
       ELSE /\ lastReplay' = e
            /\ resp' = [resp EXCEPT ![s].from = e + 1]
            /\ pc' = [pc EXCEPT ![s] = IF e < resp[s].to THEN "event" ELSE "flow"]
            /\ UNCHANGED <<req, own, ref, call, at>>
    /\ UNCHANGED <<flags, link, flow, retry, sinks, server, wire, history>>

\* The replay position advances; a stop ends the batch here.
Advance(s) ==
    LET e == resp[s].from IN
    /\ pc[s] = "advance"
    /\ lastReplay' = e
    /\ IF stopping
       THEN Return(s)
       ELSE /\ resp' = [resp EXCEPT ![s].from = e + 1]
            /\ pc' = [pc EXCEPT ![s] = IF e < resp[s].to THEN "event" ELSE "flow"]
            /\ UNCHANGED <<req, own, ref, call, at>>
    /\ UNCHANGED <<flags, link, flow, retry, sinks, server, wire, history>>

\* An empty batch: its position is adopted, then on_keepalive is called.
Keepalive(s) ==
    /\ pc[s] = "keepalive"
    /\ lastReplay' = IF resp[s].to # 0 THEN resp[s].to ELSE lastReplay
    /\ \/ Goto(s, "flow") /\ UNCHANGED <<life, wire, fails>>
       \/ CallbackThrows(s)
    /\ UNCHANGED <<flags, link, flow, retry, sinks, published, pos, credit, corrupt,
                   history>>

\* applyFlowControl()
FlowControl(s) ==
    LET left == resp[s].pending
        topUp == AutoReplenish /\ left <= LowWaterMark /\ left < NumRequested
        arm == left = 0 /\ ~backstopArmed
    IN
    /\ pc[s] = "flow"
    /\ IF stopping \/ ~connected
       THEN Return(s) /\ UNCHANGED flow
       ELSE /\ outstanding' = left
            /\ backstopArmed' = (backstopArmed \/ arm)
            /\ IF arm \/ topUp
               THEN /\ pc' = [pc EXCEPT ![s] = IF arm THEN "arm" ELSE "replenish"]
                    /\ ref' = [ref EXCEPT ![s] = current]
                    /\ call' = [call EXCEPT ![s] = IF topUp THEN "top_up" ELSE "none"]
                    /\ UNCHANGED <<resp, req, own, at>>
               ELSE Return(s)
    /\ UNCHANGED <<flags, link, lastReplay, retry, sinks, server, wire, history>>

ArmBackstop(s) ==
    /\ pc[s] = "arm"
    /\ IF life[ref[s]] = "ended"
       THEN backstopArmed' = FALSE /\ UNCHANGED timer
       ELSE timer' = [timer EXCEPT ![ref[s]] = "armed"] /\ UNCHANGED backstopArmed
    /\ IF call[s] = "top_up" THEN Goto(s, "replenish") ELSE Return(s)
    /\ UNCHANGED <<flags, link, lastReplay, outstanding, retry, sinks, server,
                   cancelled, box, history>>

\* Mutant of Replenish: a window that is already full is not noticed.
ReplenishAny(t) ==
    /\ pc[t] = "replenish"
    /\ IF NumRequested = outstanding
       THEN Return(t)
       ELSE Request(t, NumRequested - outstanding, IF t = User THEN "user" ELSE "top_up")
    /\ UNCHANGED <<flags, link, lastReplay, flow, retry, sinks, server, wire, history>>

\* replenish() with no count, from applyFlowControl() or from the user
Replenish(t) ==
    /\ pc[t] = "replenish"
    /\ IF NumRequested - outstanding < 1
       THEN Return(t)
       ELSE Request(t, NumRequested - outstanding, IF t = User THEN "user" ELSE "top_up")
    /\ UNCHANGED <<flags, link, lastReplay, flow, retry, sinks, server, wire, history>>

FlowControlBackstop(s) ==
    /\ pc[s] = "wait" /\ timer[s] = "due" /\ box[s] = <<>>
    /\ life[s] \notin {"closed", "ended"}
    /\ timer' = [timer EXCEPT ![s] = "off"]
    /\ backstopArmed' = FALSE
    /\ IF stopping \/ ~connected
       THEN UNCHANGED locals
       ELSE Request(s, IF NumRequested > outstanding THEN NumRequested - outstanding ELSE 1,
                    "backstop")
    /\ UNCHANGED <<flags, link, lastReplay, outstanding, retry, sinks, server,
                   cancelled, box, history>>

-----------------------------------------------------------------------------
\* The end of a stream, and what follows

\* The stream's terminal event: everything the server sent was handled, or the
\* stream was cancelled.
StreamTerminates(s) ==
    /\ pc[s] = "wait" /\ life[s] \in {"opened", "asked", "closed"}
    /\ \/ cancelled[s]
       \/ life[s] = "closed" /\ box[s] = <<>>
    /\ Collapse(s)
    /\ UNCHANGED <<flags, link, lastReplay, flow, retry, sinks, published, pos, credit,
                   corrupt, fails, history>>

\* Mutant of HandleTerminal: giving up is not reported.
HandleTerminalSilent(t) ==
    LET spoilt == t \in Streams /\ corrupt[t] /\ ~cancelled[t]
        giveUp == ~Reconnect \/ (MaxAttempts # 0 /\ attempts + 1 > MaxAttempts)
    IN
    /\ pc[t] = "terminal"
    /\ connected' = FALSE /\ current' = None /\ backstopArmed' = FALSE
    /\ IF stopping \/ finished
       THEN Return(t) /\ UNCHANGED <<finished, lastReplay, attempts>>
       ELSE /\ lastReplay' = IF spoilt THEN 0 ELSE lastReplay
            /\ attempts' = IF Reconnect /\ MaxAttempts # 0 THEN attempts + 1 ELSE attempts
            /\ finished' = giveUp
            /\ (IF giveUp THEN Return(t) ELSE Goto(t, "schedule"))
    /\ UNCHANGED <<started, stopping, outstanding, healthy, delay, delays, sinks,
                   server, wire, history>>

HandleTerminal(t) ==
    LET spoilt == t \in Streams /\ corrupt[t] /\ ~cancelled[t]
        giveUp == ~Reconnect \/ (MaxAttempts # 0 /\ attempts + 1 > MaxAttempts)
    IN
    /\ pc[t] = "terminal"
    /\ connected' = FALSE /\ current' = None /\ backstopArmed' = FALSE
    /\ IF stopping \/ finished
       THEN Return(t) /\ UNCHANGED <<finished, lastReplay, attempts>>
       ELSE /\ lastReplay' = IF spoilt THEN 0 ELSE lastReplay
            /\ attempts' = IF Reconnect /\ MaxAttempts # 0 THEN attempts + 1 ELSE attempts
            /\ finished' = giveUp
            /\ Goto(t, IF giveUp THEN "give_up" ELSE "schedule")
    /\ UNCHANGED <<started, stopping, outstanding, healthy, delay, delays, sinks,
                   server, wire, history>>

\* deliverError()
GiveUp(t) ==
    /\ pc[t] = "give_up"
    /\ sinks' = FALSE
    /\ Return(t)
    /\ UNCHANGED <<flags, link, lastReplay, flow, retry, server, wire, history>>

ScheduleReconnect(t) ==
    /\ pc[t] = "schedule"
    /\ IF stopping \/ finished
       THEN Return(t) /\ UNCHANGED <<delay, delays>>
       ELSE \E d \in Delays :
              /\ delays[d] = "unused" /\ d # delay
              /\ delay' = d /\ delays' = [delays EXCEPT ![d] = "new"]
              /\ ref' = [ref EXCEPT ![t] = d]
              /\ pc' = [pc EXCEPT ![t] = "submit"]
              /\ UNCHANGED <<resp, req, own, call, at>>
    /\ UNCHANGED <<flags, link, lastReplay, flow, healthy, attempts, sinks, server,
                   wire, history>>

\* Mutant of SubmitDelay: the submitted delay is never armed.
SubmitDelayUnarmed(t) ==
    /\ pc[t] = "submit"
    /\ \/ /\ delays' = [delays EXCEPT ![ref[t]] = IF @ = "new" THEN "new" ELSE "unused"]
          /\ Return(t)
          /\ UNCHANGED <<finished, delay>>
       \/ /\ "submit" \in Faults
          /\ delays' = [delays EXCEPT ![ref[t]] = "unused"]
          /\ finished' = TRUE /\ delay' = None
          /\ Goto(t, "give_up")
    /\ UNCHANGED <<started, stopping, link, lastReplay, flow, healthy, attempts, sinks,
                   server, wire, history>>

\* controller.submit(): the delay waits, unless stop() cancelled it already; or
\* the submission fails and the subscription gives up.
SubmitDelay(t) ==
    /\ pc[t] = "submit"
    /\ \/ /\ delays' = [delays EXCEPT ![ref[t]] = IF @ = "new" THEN "waiting" ELSE "unused"]
          /\ Return(t)
          /\ UNCHANGED <<finished, delay>>
       \/ /\ "submit" \in Faults
          /\ delays' = [delays EXCEPT ![ref[t]] = "unused"]
          /\ finished' = TRUE /\ delay' = None
          /\ Goto(t, "give_up")
    /\ UNCHANGED <<started, stopping, link, lastReplay, flow, healthy, attempts, sinks,
                   server, wire, history>>

\* SalesforcePubSubDelay: the deadline passes; from here a cancel() comes too late.
DelayDue(d) ==
    /\ delays[d] = "waiting"
    /\ delays' = [delays EXCEPT ![d] = "due"]
    /\ UNCHANGED <<flags, link, lastReplay, flow, healthy, attempts, delay, sinks,
                   server, wire, locals, history>>

\* SalesforcePubSubDelay.abort(): the controller drops the operation.  The delay is
\* complete, its callback is not called, and the subscription still records it.
DelayAborted(d) ==
    /\ "abort" \in Faults /\ delays[d] = "waiting"
    /\ delays' = [delays EXCEPT ![d] = "aborted"]
    /\ UNCHANGED <<flags, link, lastReplay, flow, healthy, attempts, delay, sinks,
                   server, wire, locals, history>>

\* reconnectNow(): removes whatever delay is recorded, and starts a thread.
ReconnectNow(d) ==
    /\ delays[d] = "due"
    /\ delays' = [delays EXCEPT ![d] = "unused"]
    /\ delay' = None
    /\ IF stopping \/ finished
       THEN UNCHANGED locals
       ELSE \E o \in Openers : pc[o] = "idle" /\ Goto(o, "intern")
    /\ UNCHANGED <<flags, link, lastReplay, flow, healthy, attempts, sinks, server,
                   wire, history>>

-----------------------------------------------------------------------------
\* The user

Stop ==
    /\ Stoppable /\ pc[User] = "idle" /\ ~stopping
    /\ stopping' = TRUE /\ connected' = FALSE
    /\ delay' = None
    /\ pc' = [pc EXCEPT ![User] = "stopping"]
    /\ ref' = [ref EXCEPT ![User] = current]
    /\ delays' = [d \in Delays |-> IF d = delay /\ delays[d] \in {"new", "waiting"}
                                   THEN IF delays[d] = "new" THEN "cancelled" ELSE "unused"
                                   ELSE delays[d]]
    /\ UNCHANGED <<started, finished, current, lastReplay, flow, healthy, attempts,
                   sinks, server, wire, resp, req, own, call, at, history>>

StopCancels ==
    /\ pc[User] = "stopping"
    /\ cancelled' = IF ref[User] = None THEN cancelled
                    ELSE [cancelled EXCEPT ![ref[User]] = TRUE]
    /\ returned' = TRUE
    /\ Return(User)
    /\ UNCHANGED <<flags, link, lastReplay, flow, retry, sinks, server, box, timer,
                   seen, base, replenishes, mode>>

\* replenish(), once start() has returned, with no count or with one
UserReplenishes ==
    /\ replenishes < MaxReplenishes /\ pc[User] = "idle"
    /\ started /\ pc[Starter] = "idle"
    /\ replenishes' = replenishes + 1
    /\ \/ Goto(User, "replenish")
       \/ \E count \in 1..NumRequested : Request(User, count, "user")
    /\ UNCHANGED <<flags, link, lastReplay, flow, retry, sinks, server, wire,
                   seen, base, returned, mode>>

-----------------------------------------------------------------------------
Opening(o) ==
    \/ ReconnectIntern(o) \/ OpenStream(o) \/ BidiStream(o) \/ PublishStream(o)
    \/ OpenCancels(o)

Delivering(s) ==
    \/ TakeResponse(s) \/ OnEvent(s) \/ Advance(s) \/ Keepalive(s)
    \/ FlowControl(s) \/ ArmBackstop(s) \/ FlowControlBackstop(s) \/ StreamTerminates(s)

Step(t) ==
    \/ t \in Openers \cup {Starter} /\ Opening(t)
    \/ t \in Streams /\ Delivering(t)
    \/ t = User /\ StopCancels
    \/ Replenish(t) \/ Fetch(t) \/ WriteSucceeds(t) \/ WriteThrows(t) \/ Book(t)
    \/ HandleTerminal(t) \/ GiveUp(t) \/ ScheduleReconnect(t) \/ SubmitDelay(t)

Next ==
    \/ \E t \in Threads : Step(t)
    \/ Start \/ Stop \/ UserReplenishes
    \/ \E d \in Delays : DelayDue(d) \/ DelayAborted(d) \/ ReconnectNow(d)
    \/ Publish
    \/ \E s \in Streams : Respond(s) \/ StreamCloses(s) \/ BackstopDue(s)

Spec == Init /\ [][Next]_vars

\* Threads run on and delays come due; the server answers a request it holds.
\* Nothing obliges the user, and nothing obliges the outside to fail.
Fairness ==
    /\ \A t \in Threads : WF_vars(Step(t))
    /\ \A d \in Delays : WF_vars(DelayDue(d) \/ ReconnectNow(d))
    /\ \A s \in Streams : WF_vars(Respond(s)) /\ WF_vars(BackstopDue(s))

FairSpec == Spec /\ Fairness

-----------------------------------------------------------------------------
\* Properties

\* A delay that will come due.
Pending == {"new", "waiting", "due"}

Live(s) == life[s] \in {"opened", "asked", "closed"} /\ ~cancelled[s]

\* The types of the variables.
TypeOK ==
    /\ mode \in Modes
    /\ {started, stopping, finished, connected, backstopArmed, healthy, sinks, returned}
          \subseteq BOOLEAN
    /\ current \in Streams \cup {None} /\ delay \in Delays \cup {None}
    /\ lastReplay \in 0..MaxEvents /\ base \in 0..MaxEvents
    /\ {outstanding, attempts} \subseteq Nat /\ replenishes \in 0..MaxReplenishes
    /\ published \in 0..MaxEvents /\ fails \in 0..MaxFails
    /\ delays \in [Delays -> {"unused", "new", "waiting", "cancelled", "due", "aborted"}]
    /\ pos \in [Streams -> 0..MaxEvents] /\ credit \in [Streams -> Nat]
    /\ life \in [Streams -> {"unused", "opened", "asked", "closed", "ended"}]
    /\ corrupt \in [Streams -> BOOLEAN] /\ cancelled \in [Streams -> BOOLEAN]
    /\ timer \in [Streams -> {"off", "armed", "due"}]
    /\ seen \in [1..MaxEvents -> 0..2]
    /\ own \in [Threads -> Streams \cup {None}]
    /\ ref \in [Threads -> Streams \cup Delays \cup {None}]
    /\ req \in [Threads -> Nat] /\ at \in [Threads -> 0..MaxEvents]

Unseen == {e \in 1..MaxEvents : base < e /\ e <= lastReplay /\ seen[e] = 0}

\* Whatever fails and however often the stream is reopened, the position a
\* reconnect would resume from has no event behind it that the consumer never saw
\* (deliverEvent(), handleResponse()'s keepalive branch, the opening request).
NoSkip == ~stopping => Unseen = {}

\* The same of the position getLastReplayId() returns, which is documented to be
\* the one to store to resume the subscription after a restart.
StoredPositionResumes == Unseen = {}

\* An event that on_event has returned from is never handed over again, across any
\* number of reconnects (sendFetchRequest()'s comment on the replay position).  One
\* whose on_event threw is, on purpose (deliverEvent()).
NoDuplicate == \A e \in 1..MaxEvents : seen[e] < 2

\* The subscription never runs two streams (handleTerminal(), scheduleReconnect(),
\* openStream()): the one it would lose hold of could never be stopped.
OneStream == \A s, t \in Streams : Live(s) /\ Live(t) => s = t

\* A subscription that gave up has no stream left to deliver from, and nothing on the
\* way that would make one: no thread that opens a stream or submits a delay, and no
\* delay that will come due (handleTerminal(), scheduleReconnect(), reconnectNow()).
GivenUpIsQuiet ==
    finished => /\ \A s \in Streams : ~Live(s)
                /\ \A t \in Threads : pc[t] \notin {"intern", "open", "bidi", "submit"}
                /\ \A d \in Delays : delays[d] \notin Pending

\* The event on_event was called with and last_replay_id is yet to pass.
Given == {resp[s].from : s \in {t \in Streams : pc[t] = "advance"}}

Contract == INSTANCE SubscriptionContract WITH
    position <- lastReplay, given <- Given, told <- ~sinks,
    Corruptible <- "corrupt" \in Faults

\* However many streams it takes, the subscription is for its consumer the one of
\* SubscriptionContract: each event right behind the last, the position behind the
\* consumer and never back, also in a stop (deliverEvent(), handleResponse()),
\* and silence once it gave up (handleTerminal(), deliverError()).
KeepsContract == Contract!Spec

\* A stream that is still alive once stop() was called is in the hands of a thread
\* whose next steps cancel it: the user's, or the one that is opening it
\* (stop(), openStream()).
StopHasTheStream ==
    stopping => \A s \in Streams : Live(s) =>
        \/ pc[User] = "stopping" /\ ref[User] = s
        \/ \E o \in Openers \cup {Starter} : pc[o] \in {"publish", "cancel"} /\ own[o] = s

\* stop() ends every stream, also one a reconnect was opening at the time.
StopEndsStreams == stopping ~> \A s \in Streams : ~Live(s)

\* With a limited budget, a reconnect that was scheduled leads to a connection or to
\* on_failure, also if opening the stream fails again and again: unless the subscription
\* is stopped, or the controller aborts the delay, which nobody learns of
\* (SalesforcePubSubDelay, reconnectNow(), reconnectIntern(), handleTerminal()).
ReconnectHappens ==
    MaxAttempts # 0 =>
        (\E d \in Delays : delays[d] \in Pending) ~>
            (connected \/ ~sinks \/ stopping \/ \E d \in Delays : delays[d] = "aborted")

\* However a subscription that does not reconnect loses its stream, also before
\* its first request, the consumer is told: on_failure is called, unless stop()
\* came first (handleTerminal(), deliverError()).
EndIsReported ==
    ~Reconnect => (\E s \in Streams : life[s] = "closed") ~> (~sinks \/ stopping)

=============================================================================
