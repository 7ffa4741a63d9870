-------------------------- MODULE PubSubDeliveryProofs --------------------------
(***************************************************************************)
(* Theorems about what a PubSubSubscription delivers, for any number of    *)
(* streams, reconnects and events and any of the faults: none left out;    *)
(* and with the one stream that PubSubProofs is about also none after the  *)
(* subscription gave up, and none again that on_event has returned from,   *)
(* unless a replay ID is corrupted.                                        *)
(*                                                                         *)
(* With a stream goes a chain of events: the response in hand, those that  *)
(* wait, and what the server goes on with.  What comes before a chain was  *)
(* seen, however many streams there are.  If there is one it begins right  *)
(* behind the position: a reopened stream takes the chain up behind the    *)
(* last event seen, and while it is being opened nothing moves that event. *)
(***************************************************************************)
EXTENDS PubSubProofs, SequenceTheorems

\* Events have unchanging replay IDs: no status says that one is corrupted.
Uncorrupted == "corrupt" \notin Faults

Response == [from : Nat, to : 0..MaxEvents, pending : Nat]

LocalsRange ==
    resp \in [Streams -> Response] /\ req \in [Threads -> Nat] /\ at \in [Threads -> 0..MaxEvents]

SharedRange ==
    /\ backstopArmed \in BOOLEAN /\ healthy \in BOOLEAN
    /\ sinks \in BOOLEAN /\ returned \in BOOLEAN
    /\ delay \in Delays \cup {None}
    /\ lastReplay \in 0..MaxEvents /\ base \in 0..MaxEvents
    /\ outstanding \in Nat /\ attempts \in Nat /\ replenishes \in 0..mode.replenishes
    /\ published \in 0..MaxEvents /\ fails \in 0..MaxFails
    /\ pos \in [Streams -> 0..MaxEvents] /\ credit \in [Streams -> Nat]
    /\ corrupt \in [Streams -> BOOLEAN]
    /\ box \in [Streams -> Seq(Response)]
    /\ seen \in [1..MaxEvents -> 0..2]

RangeInv == LocalsRange /\ SharedRange

\* What a thread has in hand is what its next step takes it for.
HandInv ==
    /\ \A t \in Threads : pc[t] = "publish" => own[t] \in Streams
    /\ \A s \in Streams : pc[s] \in {"event", "advance"} => resp[s].from <= resp[s].to

TypeInv == ShapeInv /\ RangeInv /\ HandInv

InHand == {"event", "advance", "keepalive"}

\* Responses q are contiguous, up to event p; the first event of q, or behind p.
Contiguous(q, p) ==
    \A i \in 1..Len(q) :
        /\ q[i].from >= 1 /\ q[i].from <= q[i].to + 1
        /\ q[i].to = IF i = Len(q) THEN p ELSE q[i + 1].from - 1
Begin(q, p) == IF q = <<>> THEN p + 1 ELSE q[1].from

\* The event behind which the subscription is, and the next event of stream s that
\* waits or is still to come.
Here == IF lastReplay # 0 THEN lastReplay ELSE base
First(s) == Begin(box[s], pos[s])

\* What waits is contiguous, up to what the server goes on with; the response in hand
\* comes before it.
BoxOf(s) ==
    /\ life[s] \in {"unused", "opened", "ended"} => box[s] = <<>>
    /\ Contiguous(box[s], pos[s])
    /\ pc[s] \in InHand => /\ life[s] \in {"asked", "closed"}
                            /\ resp[s].from >= 1 /\ resp[s].to + 1 = First(s)
    /\ pc[s] = "keepalive" => resp[s].from = resp[s].to + 1

BoxInv == \A s \in Streams : BoxOf(s)

\* Giving up comes first, the consumer hears of it next.
QuietInv ==
    /\ ~sinks => finished
    /\ \A t \in Threads : pc[t] = "give_up" => finished

\* As long as there is a consumer, it saw all there is behind the position, behind the
\* one a request is written with, and behind what any stream delivers next.
Heard == ~stopping /\ sinks
Covered(n) == \A e \in 1..MaxEvents : base < e /\ e <= n => seen[e] > 0

CoverOf(s) ==
    /\ pc[s] \in InHand => Covered(resp[s].from - 1)
    /\ pc[s] = "advance" => seen[resp[s].from] > 0
    /\ pc[s] \notin InHand /\ (life[s] = "asked" \/ box[s] # <<>>) => Covered(First(s) - 1)

CoverInv ==
    Heard => /\ Covered(lastReplay)
             /\ \A t \in Threads : pc[t] = "write" => Covered(at[t])
             /\ \A s \in Streams : CoverOf(s)

\* Any number of streams keep this.
ManyInv == TypeInv /\ base <= StartPosition /\ BoxInv /\ QuietInv /\ CoverInv

\* With one stream, what it delivers next is at once behind the position, unless a
\* stop broke the chain.
ChainInv ==
    \A s \in Streams : life[s] \in {"asked", "closed"} =>
        /\ pc[s] \in {"event", "advance"} =>
              Here < resp[s].from /\ (stopping \/ resp[s].from = Here + 1)
        /\ pc[s] = "keepalive" => Here <= resp[s].to /\ (stopping \/ Here = resp[s].to)
        /\ pc[s] \notin InHand /\ (life[s] = "asked" \/ box[s] # <<>>) =>
              Here < First(s) /\ (stopping \/ First(s) = Here + 1)

\* What is behind the position was seen, also when the subscription has given up.
SeenInv == ~stopping => Covered(lastReplay)

\* While no position is given up, what was seen is behind it, but for the event in
\* hand, and was seen once.
OnceInv ==
    Uncorrupted =>
        /\ \A s \in Streams : ~corrupt[s]
        /\ \A e \in 1..MaxEvents :
              /\ seen[e] < 2
              /\ seen[e] = 1 => \/ e <= lastReplay
                                \/ \E s \in Streams : pc[s] = "advance" /\ resp[s].from = e

\* The position an opening request is written with is still the position.
ReopenInv ==
    \A o \in Launchers : pc[o] = "write" /\ life[ref[o]] = "opened" => at[o] = lastReplay

DeliveryInv == ChainInv /\ OnceInv /\ ReopenInv
WholeInv == HoldInv /\ ManyInv /\ SeenInv /\ DeliveryInv

-----------------------------------------------------------------------------
\* What is handled is taken from the front of what waits, and more comes at its end.

LEMMA TakenContiguous ==
    ASSUME NEW q \in Seq(Response), NEW p \in 0..MaxEvents, Contiguous(q, p), q # <<>>
    PROVE  /\ Head(q) \in Response /\ Contiguous(Tail(q), p)
           /\ Head(q).from = Begin(q, p)
           /\ Head(q).from >= 1 /\ Head(q).from <= Head(q).to + 1
           /\ Head(q).to + 1 = Begin(Tail(q), p)
<1> DEFINE r == Tail(q)
<1>1. /\ Len(q) \in Nat /\ Len(q) > 0 /\ Head(q) = q[1]
      /\ \A i \in 1..Len(q) : q[i] \in Response
  BY EmptySeq
<1>2. /\ r \in Seq(Response) /\ Len(r) = Len(q) - 1
      /\ \A i \in 1..Len(r) : r[i] = q[i + 1]
  BY HeadTailProperties
<1> HIDE DEF r
<1>3. Contiguous(r, p)
  <2>1. ASSUME NEW i \in 1..Len(r)
        PROVE  /\ r[i].from >= 1 /\ r[i].from <= r[i].to + 1
               /\ r[i].to = IF i = Len(r) THEN p ELSE r[i + 1].from - 1
    <3>1. i + 1 \in 1..Len(q) /\ r[i] = q[i + 1]
      BY <1>1, <1>2
    <3>2. i = Len(r) <=> i + 1 = Len(q)
      BY <1>1, <1>2
    <3>3. i # Len(r) => r[i + 1] = q[(i + 1) + 1]
      BY <1>1, <1>2
    <3> QED BY <3>1, <3>2, <3>3 DEF Contiguous
  <2> QED BY <2>1 DEF Contiguous
<1>4. q[1].from >= 1 /\ q[1].from <= q[1].to + 1 /\ q[1].to = IF 1 = Len(q) THEN p ELSE q[1 + 1].from - 1
  <2>1. 1 \in 1..Len(q)
    BY <1>1
  <2> QED BY <2>1 DEF Contiguous
<1>5. q[1].to + 1 = Begin(r, p)
  <2>1. CASE Len(q) = 1
    <3>1. Len(r) = 0
      BY <1>2, <2>1
    <3>2. r = <<>>
      BY <1>2, <3>1, EmptySeq
    <3> QED BY <1>4, <2>1, <3>2 DEF Begin
  <2>2. CASE Len(q) # 1
    <3>1. 1 \in 1..Len(r) /\ r # <<>>
      BY <1>1, <1>2, <2>2, EmptySeq
    <3>2. r[1] = q[1 + 1] /\ q[1 + 1] \in Response
      BY <1>1, <1>2, <3>1
    <3>3. q[1].to = r[1].from - 1 /\ r[1].from \in Nat
      BY <1>4, <2>2, <3>2 DEF Response
    <3> QED BY <3>1, <3>3 DEF Begin
  <2> QED BY <2>1, <2>2
<1> QED BY <1>1, <1>3, <1>4, <1>5 DEF Begin, r

LEMMA AddedContiguous ==
    ASSUME NEW q \in Seq(Response), NEW p \in 0..MaxEvents, Contiguous(q, p), NEW r \in Response,
           r.from = p + 1, r.to >= p
    PROVE  Contiguous(Append(q, r), r.to) /\ Begin(Append(q, r), r.to) = Begin(q, p)
<1> DEFINE a == Append(q, r)
<1>1. /\ Len(q) \in Nat /\ Len(a) = Len(q) + 1 /\ a[Len(q) + 1] = r
      /\ \A i \in 1..Len(q) : a[i] = q[i]
      /\ \A i \in 1..Len(q) : q[i] \in Response
  BY AppendProperties
<1>2. ASSUME NEW i \in 1..Len(a)
      PROVE  /\ a[i].from >= 1 /\ a[i].from <= a[i].to + 1
             /\ a[i].to = IF i = Len(a) THEN r.to ELSE a[i + 1].from - 1
  <2>1. CASE i = Len(q) + 1
    BY <1>1, <2>1, BoundsAssumption DEF Response
  <2>2. CASE i = Len(q)
    BY <1>1, <2>2 DEF Contiguous
  <2>3. CASE i < Len(q)
    BY <1>1, <2>3 DEF Contiguous
  <2> QED BY <1>1, <2>1, <2>2, <2>3
<1>3. Begin(a, r.to) = Begin(q, p)
  <2>1. a # <<>>
    BY <1>1
  <2>2. CASE q = <<>>
    BY <1>1, <2>1, <2>2 DEF Begin
  <2>3. CASE q # <<>>
    <3>1. Len(q) > 0
      BY <2>3, EmptySeq
    <3> QED BY <1>1, <2>1, <2>3, <3>1 DEF Begin
  <2> QED BY <2>2, <2>3
<1> QED BY <1>2, <1>3 DEF Contiguous

-----------------------------------------------------------------------------
\* The ranges of the variables

LEMMA InitRange == ASSUME Init PROVE RangeInv
<1>1. NoResponse \in Response
  BY BoundsAssumption DEF NoResponse, Response
<1>2. LocalsRange
  BY <1>1, BoundsAssumption DEF Init, LocalsRange
<1>3. /\ pos \in [Streams -> 0..MaxEvents] /\ credit \in [Streams -> Nat]
      /\ corrupt \in [Streams -> BOOLEAN] /\ box \in [Streams -> Seq(Response)]
      /\ seen \in [1..MaxEvents -> 0..2]
  BY BoundsAssumption DEF Init
<1>4. /\ backstopArmed \in BOOLEAN /\ healthy \in BOOLEAN
      /\ sinks \in BOOLEAN /\ returned \in BOOLEAN
  BY DEF Init
<1>5. /\ lastReplay \in 0..MaxEvents /\ base \in 0..MaxEvents /\ published \in 0..MaxEvents
      /\ outstanding \in Nat /\ attempts \in Nat /\ fails \in 0..MaxFails
  BY BoundsAssumption DEF Init, StartPosition
<1>6. replenishes \in 0..mode.replenishes
  BY SwitchesAssumption DEF Init
<1> QED BY <1>2, <1>3, <1>4, <1>5, <1>6 DEF Init, RangeInv, SharedRange

LEMMA LocalsRanged ==
    ASSUME RangeInv, NEW t \in Threads, NEW l, NEW n \in Nat, NEW why,
           Goto(t, l) \/ Return(t) \/ Request(t, n, why)
    PROVE  LocalsRange'
<1>1. NoResponse \in Response
  BY BoundsAssumption DEF NoResponse, Response
<1> QED BY <1>1, BoundsAssumption DEF RangeInv, LocalsRange, Goto, Return, Request

LEMMA CollapseRanged ==
    ASSUME RangeInv, NEW s \in Streams, Collapse(s)
    PROVE  LocalsRange' /\ box' \in [Streams -> Seq(Response)]
<1>1. LocalsRange'
  BY LocalsRanged, Apart DEF Collapse
<1>2. <<>> \in Seq(Response)
  OBVIOUS
<1> QED BY <1>1, <1>2 DEF Collapse, RangeInv, SharedRange

\* The response in hand lies within what was published.
LEMMA InHandRanged ==
    ASSUME RangeInv, NEW s \in Streams
    PROVE  resp[s].from \in Nat /\ resp[s].to \in 0..MaxEvents /\ resp[s].pending \in Nat
  BY DEF RangeInv, LocalsRange, Response

LEMMA OpeningRange ==
    ASSUME RangeInv, NEW t \in Launchers, Opening(t) PROVE RangeInv'
<1> USE Apart
<1>1. CASE ReconnectIntern(t)
  BY <1>1, LocalsRanged
     DEF ReconnectIntern, RangeInv, SharedRange, flow, retry, server, wire, history
<1>2. CASE OpenStream(t)
  <2>1. LocalsRange'
    BY <1>2, LocalsRanged DEF OpenStream
  <2>2. outstanding' \in Nat /\ backstopArmed' \in BOOLEAN /\ healthy' \in BOOLEAN
    <3>1. CASE UNCHANGED <<flow, healthy>>
      BY <3>1 DEF RangeInv, SharedRange, flow
    <3>2. CASE outstanding' = 0 /\ backstopArmed' = FALSE /\ healthy' = FALSE
      BY <3>2
    <3> QED BY <1>2, <3>1, <3>2 DEF OpenStream
  <2> QED BY <1>2, <2>1, <2>2 DEF OpenStream, RangeInv, SharedRange, server, wire, history
<1>3. CASE BidiStream(t)
  <2>1. LocalsRange'
    BY <1>3, LocalsRanged DEF BidiStream, OpenThrows, RangeInv, LocalsRange
  <2>2. fails' \in 0..MaxFails
    BY <1>3, BoundsAssumption DEF BidiStream, RangeInv, SharedRange
  <2> QED BY <1>3, <2>1, <2>2 DEF BidiStream, RangeInv, SharedRange, flow, retry, wire, history
<1>4. CASE PublishStream(t)
  <2>1. LocalsRange'
    BY <1>4, FlowAssumption, LocalsRanged DEF PublishStream
  <2> QED BY <1>4, <2>1 DEF PublishStream, RangeInv, SharedRange, flow, retry, server, wire, history
<1>5. CASE OpenCancels(t)
  BY <1>5, LocalsRanged
     DEF OpenCancels, OpenThrows, RangeInv, SharedRange, flow, retry, server, history
<1> QED BY <1>1, <1>2, <1>3, <1>4, <1>5 DEF Opening

LEMMA DeliveringRange ==
    ASSUME TypeInv, NEW t \in Streams, Delivering(t) PROVE RangeInv'
<1> USE Apart DEF TypeInv
<1>1. CASE TakeResponse(t)
  <2>1. Head(box[t]) \in Response /\ Tail(box[t]) \in Seq(Response)
    BY <1>1 DEF TakeResponse, RangeInv, SharedRange
  <2>2. LocalsRange' /\ box' \in [Streams -> Seq(Response)]
    BY <1>1, <2>1 DEF TakeResponse, RangeInv, LocalsRange, SharedRange
  <2> QED BY <1>1, <2>2 DEF TakeResponse, RangeInv, SharedRange, flow, server, history
<1>2. CASE OnEvent(t)
  <2>1. LocalsRange' /\ box' \in [Streams -> Seq(Response)]
    BY <1>2, LocalsRanged, CollapseRanged DEF OnEvent, CallbackThrows, wire, RangeInv, SharedRange
  <2>2. seen' \in [1..MaxEvents -> 0..2]
    <3> DEFINE e == resp[t].from
    <3>1. \/ seen' = seen \/ seen' = [seen EXCEPT ![e] = 2]
          \/ seen[e] < 2 /\ seen' = [seen EXCEPT ![e] = seen[e] + 1]
      BY <1>2 DEF OnEvent, HandedAgain
    <3>2. ASSUME e \in 1..MaxEvents, seen[e] < 2 PROVE seen[e] + 1 \in 0..2
      <4>1. seen[e] \in 0..2
        BY <3>2 DEF RangeInv, SharedRange
      <4> QED BY <3>2, <4>1
    <3> QED BY <3>1, <3>2 DEF RangeInv, SharedRange
  <2>3. fails' \in 0..MaxFails
    BY <1>2, BoundsAssumption DEF OnEvent, CallbackThrows, RangeInv, SharedRange
  <2> QED BY <1>2, <2>1, <2>2, <2>3 DEF OnEvent, RangeInv, SharedRange, flow, retry
<1>3. CASE Advance(t)
  <2>1. LocalsRange'
    <3>1. CASE Return(t)
      BY <3>1, LocalsRanged
    <3>2. CASE ~Return(t)
      BY <1>3, <3>2, InHandRanged DEF Advance, RangeInv, LocalsRange, Response
    <3> QED BY <3>1, <3>2
  <2>2. lastReplay' \in 0..MaxEvents
    <3>1. resp[t].from <= resp[t].to
      BY <1>3 DEF Advance, TypeInv, HandInv
    <3> QED BY <1>3, <3>1, InHandRanged, BoundsAssumption DEF Advance
  <2> QED BY <1>3, <2>1, <2>2 DEF Advance, RangeInv, SharedRange, flow, retry, server, wire, history
<1>4. CASE Keepalive(t)
  <2>1. LocalsRange' /\ box' \in [Streams -> Seq(Response)]
    BY <1>4, LocalsRanged, CollapseRanged DEF Keepalive, CallbackThrows, wire, RangeInv, SharedRange
  <2>2. fails' \in 0..MaxFails /\ lastReplay' \in 0..MaxEvents
    BY <1>4, InHandRanged, BoundsAssumption DEF Keepalive, CallbackThrows, RangeInv, SharedRange
  <2> QED BY <1>4, <2>1, <2>2 DEF Keepalive, RangeInv, SharedRange, flow, retry, history
<1>5. CASE FlowControl(t)
  <2>1. LocalsRange'
    BY <1>5, LocalsRanged DEF FlowControl, RangeInv, LocalsRange
  <2>2. outstanding' \in Nat /\ backstopArmed' \in BOOLEAN
    BY <1>5, InHandRanged DEF FlowControl, RangeInv, SharedRange, flow
  <2> QED BY <1>5, <2>1, <2>2 DEF FlowControl, RangeInv, SharedRange, retry, server, wire, history
<1>6. CASE ArmBackstop(t)
  BY <1>6, LocalsRanged DEF ArmBackstop, RangeInv, SharedRange, retry, server, history
<1>7. CASE FlowControlBackstop(t)
  <2>1. LocalsRange'
    <3>1. CASE UNCHANGED locals
      BY <3>1 DEF locals, RangeInv, LocalsRange
    <3>2. CASE ~UNCHANGED locals
      <4>1. (IF NumRequested > outstanding THEN NumRequested - outstanding ELSE 1) \in Nat
        BY FlowAssumption DEF RangeInv, SharedRange
      <4> QED BY <1>7, <3>2, <4>1, LocalsRanged DEF FlowControlBackstop
    <3> QED BY <3>1, <3>2
  <2> QED BY <1>7, <2>1 DEF FlowControlBackstop, RangeInv, SharedRange, retry, server, history
<1>8. CASE StreamTerminates(t)
  BY <1>8, CollapseRanged DEF StreamTerminates, RangeInv, SharedRange, flow, retry, history
<1> QED BY <1>1, <1>2, <1>3, <1>4, <1>5, <1>6, <1>7, <1>8 DEF Delivering

LEMMA StepRange ==
    ASSUME TypeInv, NEW t \in Threads, Step(t) PROVE RangeInv'
<1> USE DEF TypeInv
<1>1. CASE t \in Openers \cup {Starter} /\ Opening(t)
  BY <1>1, OpeningRange DEF Launchers
<1>2. CASE t \in Streams /\ Delivering(t)
  BY <1>2, DeliveringRange
<1>3. CASE t = User /\ StopCancels
  BY <1>3, LocalsRanged DEF StopCancels, RangeInv, SharedRange, flow, retry, server
<1>4. CASE Replenish(t)
  <2>1. LocalsRange'
    <3>1. CASE Return(t)
      BY <3>1, LocalsRanged
    <3>2. CASE ~Return(t)
      <4>1. NumRequested - outstanding \in Nat
        BY <1>4, <3>2, FlowAssumption DEF Replenish, RangeInv, SharedRange
      <4> QED BY <1>4, <3>2, <4>1, LocalsRanged DEF Replenish
    <3> QED BY <3>1, <3>2
  <2> QED BY <1>4, <2>1 DEF Replenish, RangeInv, SharedRange, flow, retry, server, wire, history
<1>5. CASE Fetch(t)
  <2>1. LocalsRange'
    BY <1>5, LocalsRanged DEF Fetch, RangeInv, LocalsRange, SharedRange
  <2> QED BY <1>5, <2>1 DEF Fetch, RangeInv, SharedRange, flow, retry, server, wire, history
<1>6. CASE WriteSucceeds(t)
  <2>1. StartPosition \in 0..MaxEvents /\ at[t] \in 0..MaxEvents /\ req[t] \in Nat
    BY BoundsAssumption DEF StartPosition, RangeInv, SharedRange, LocalsRange
  <2>2. pos' \in [Streams -> 0..MaxEvents] /\ base' \in 0..MaxEvents
    BY <1>6, <2>1 DEF WriteSucceeds, RangeInv, SharedRange
  <2>3. credit' \in [Streams -> Nat]
    <3>1. credit' = [credit EXCEPT ![ref[t]] = @ + req[t]]
      BY <1>6 DEF WriteSucceeds
    <3>2. ref[t] \in Streams => credit[ref[t]] + req[t] \in Nat
      BY <2>1 DEF RangeInv, SharedRange
    <3> QED BY <3>1, <3>2 DEF RangeInv, SharedRange
  <2>4. LocalsRange'
    BY <1>6, LocalsRanged DEF WriteSucceeds
  <2> QED BY <1>6, <2>2, <2>3, <2>4 DEF WriteSucceeds, RangeInv, SharedRange, flow, retry, wire
<1>7. CASE WriteThrows(t)
  <2>1. CASE Collapse(t) /\ t \in Streams
    BY <1>7, <2>1, CollapseRanged
       DEF WriteThrows, RangeInv, SharedRange, flow, retry, history
  <2>2. CASE UNCHANGED <<life, wire>> /\ ~Collapse(t)
    BY <1>7, <2>2, LocalsRanged
       DEF WriteThrows, RangeInv, SharedRange, flow, retry, wire, history
  <2>3. CASE Collapse(t) /\ t \notin Streams
    <3>1. box' \in [Streams -> Seq(Response)]
      BY <2>3 DEF Collapse, RangeInv, SharedRange
    <3>2. LocalsRange'
      BY <2>3, LocalsRanged DEF Collapse
    <3> QED BY <1>7, <3>1, <3>2 DEF WriteThrows, RangeInv, SharedRange, flow, retry, history
  <2> QED BY <1>7, <2>1, <2>2, <2>3 DEF WriteThrows
<1>8. CASE Book(t)
  <2>1. outstanding' \in Nat
    BY <1>8 DEF Book, RangeInv, SharedRange, LocalsRange
  <2> QED BY <1>8, <2>1, LocalsRanged DEF Book, RangeInv, SharedRange, retry, server, history
<1>9. CASE HandleTerminal(t)
  <2>1. LocalsRange'
    BY <1>9, LocalsRanged DEF HandleTerminal
  <2>2. lastReplay' \in 0..MaxEvents /\ attempts' \in Nat
    BY <1>9, BoundsAssumption DEF HandleTerminal, RangeInv, SharedRange
  <2>3. backstopArmed' \in BOOLEAN
    BY <1>9 DEF HandleTerminal
  <2> QED BY <1>9, <2>1, <2>2, <2>3 DEF HandleTerminal, RangeInv, SharedRange, server, wire, history
<1>10. CASE GiveUp(t)
  BY <1>10, LocalsRanged DEF GiveUp, RangeInv, SharedRange, flow, retry, server, wire, history
<1>11. CASE ScheduleReconnect(t)
  <2>1. LocalsRange'
    BY <1>11, LocalsRanged DEF ScheduleReconnect, RangeInv, LocalsRange
  <2> QED BY <1>11, <2>1 DEF ScheduleReconnect, RangeInv, SharedRange, flow, server, wire, history
<1>12. CASE SubmitDelay(t)
  BY <1>12, LocalsRanged DEF SubmitDelay, RangeInv, SharedRange, flow, server, wire, history
<1> QED BY <1>1, <1>2, <1>3, <1>4, <1>5, <1>6, <1>7, <1>8, <1>9, <1>10, <1>11, <1>12 DEF Step

LEMMA RespondRange ==
    ASSUME RangeInv, NEW s \in Streams, Respond(s) PROVE RangeInv'
<1>1. CASE \E n \in 1..MaxBatch :
             /\ n <= credit[s] /\ pos[s] + n <= published
             /\ box' = [box EXCEPT ![s] = Append(@, [from |-> pos[s] + 1, to |-> pos[s] + n,
                                                     pending |-> credit[s] - n])]
             /\ pos' = [pos EXCEPT ![s] = @ + n]
             /\ credit' = [credit EXCEPT ![s] = @ - n]
  <2>1. PICK n \in 1..MaxBatch :
          /\ n <= credit[s] /\ pos[s] + n <= published
          /\ box' = [box EXCEPT ![s] = Append(@, [from |-> pos[s] + 1, to |-> pos[s] + n,
                                                  pending |-> credit[s] - n])]
          /\ pos' = [pos EXCEPT ![s] = @ + n]
          /\ credit' = [credit EXCEPT ![s] = @ - n]
    BY <1>1
  <2>2. /\ pos[s] + n \in 0..MaxEvents /\ credit[s] - n \in Nat /\ pos[s] + 1 \in Nat
    BY <2>1, BoundsAssumption DEF RangeInv, SharedRange
  <2>3. [from |-> pos[s] + 1, to |-> pos[s] + n, pending |-> credit[s] - n] \in Response
    BY <2>2 DEF Response
  <2>4. box' \in [Streams -> Seq(Response)]
    BY <2>1, <2>3 DEF RangeInv, SharedRange
  <2>5. pos' \in [Streams -> 0..MaxEvents] /\ credit' \in [Streams -> Nat]
    BY <2>1, <2>2 DEF RangeInv, SharedRange
  <2> QED BY <2>4, <2>5
             DEF Respond, RangeInv, LocalsRange, SharedRange, flow, retry, locals, history
<1>2. CASE /\ pos[s] = published /\ box[s] = <<>>
           /\ box' = [box EXCEPT ![s] = <<[from |-> published + 1, to |-> published,
                                           pending |-> credit[s]]>>]
           /\ UNCHANGED <<pos, credit>>
  <2>1. [from |-> published + 1, to |-> published, pending |-> credit[s]] \in Response
    BY BoundsAssumption DEF RangeInv, SharedRange, Response
  <2>2. box' \in [Streams -> Seq(Response)]
    BY <1>2, <2>1 DEF RangeInv, SharedRange
  <2> QED BY <1>2, <2>2
             DEF Respond, RangeInv, LocalsRange, SharedRange, flow, retry, locals, history
<1> QED BY <1>1, <1>2 DEF Respond

LEMMA NextRange == ASSUME TypeInv, [Next]_vars PROVE RangeInv'
<1> USE DEF TypeInv
<1>1. CASE \E t \in Threads : Step(t)
  BY <1>1, StepRange
<1>2. CASE Start
  BY <1>2, LocalsRanged, Apart
     DEF Start, RangeInv, SharedRange, flow, retry, server, wire, history
<1>3. CASE Stop
  BY <1>3 DEF Stop, RangeInv, LocalsRange, SharedRange, flow, server, wire, history
<1>4. CASE UserReplenishes
  <2>1. PICK n \in Nat : Goto(User, "replenish") \/ Request(User, n, "user")
    BY <1>4, FlowAssumption DEF UserReplenishes
  <2>3. LocalsRange'
    BY <2>1, LocalsRanged, Apart
  <2>2. replenishes' \in 0..mode'.replenishes
    BY <1>4, SwitchesAssumption
       DEF UserReplenishes, MaxReplenishes, ShapeInv, RangeInv, SharedRange
  <2> QED BY <1>4, <2>2, <2>3
             DEF UserReplenishes, RangeInv, SharedRange, flow, retry, server, wire
<1>5. ASSUME NEW d \in Delays, DelayDue(d) \/ DelayAborted(d) \/ ReconnectNow(d)
      PROVE  RangeInv'
  <2>1. LocalsRange'
    <3>1. CASE UNCHANGED locals
      BY <3>1 DEF locals, RangeInv, LocalsRange
    <3>2. CASE \E o \in Openers : Goto(o, "intern")
      BY <3>2, LocalsRanged DEF Threads
    <3> QED BY <1>5, <3>1, <3>2 DEF DelayDue, DelayAborted, ReconnectNow
  <2> QED BY <1>5, <2>1
             DEF DelayDue, DelayAborted, ReconnectNow, RangeInv, SharedRange, flow, server, wire, history
<1>6. CASE Publish
  <2>1. published' \in 0..MaxEvents
    BY <1>6, BoundsAssumption DEF Publish, RangeInv, SharedRange
  <2> QED BY <1>6, <2>1
             DEF Publish, RangeInv, LocalsRange, SharedRange, flow, retry, wire, locals, history
<1>7. ASSUME NEW s \in Streams, StreamCloses(s) PROVE RangeInv'
  <2>1. fails' \in 0..MaxFails
    BY <1>7, BoundsAssumption DEF StreamCloses, RangeInv, SharedRange
  <2>2. PICK c \in BOOLEAN : corrupt' = [corrupt EXCEPT ![s] = c]
    BY <1>7 DEF StreamCloses
  <2>3. corrupt' \in [Streams -> BOOLEAN]
    BY <2>2 DEF RangeInv, SharedRange
  <2> QED BY <1>7, <2>1, <2>3
             DEF StreamCloses, RangeInv, LocalsRange, SharedRange, flow, retry, wire, locals, history
<1>8. ASSUME NEW s \in Streams, BackstopDue(s) PROVE RangeInv'
  BY <1>8 DEF BackstopDue, RangeInv, LocalsRange, SharedRange, flow, retry, server, locals, history
<1>9. CASE UNCHANGED vars
  BY <1>9 DEF vars, RangeInv, LocalsRange, SharedRange, flow, retry, server, wire, locals, history
<1> QED BY <1>1, <1>2, <1>3, <1>4, <1>5, <1>6, <1>7, <1>8, <1>9, RespondRange DEF Next

-----------------------------------------------------------------------------
\* What is in hand

\* Only the locals of t change.
Elsewhere(t) ==
    /\ \A x \in Threads \ {t} : pc'[x] = pc[x] /\ ref'[x] = ref[x] /\ own'[x] = own[x] /\ at'[x] = at[x]
    /\ \A s \in Streams \ {t} : resp'[s] = resp[s]

\* A thread goes on, and the others stay.
LEMMA GoesOn ==
    ASSUME ShapeInv, RangeInv, NEW t \in Threads, NEW l, NEW n, NEW why,
           Goto(t, l) \/ Return(t) \/ Request(t, n, why)
    PROVE  Elsewhere(t) /\ Home(t) \in {"wait", "idle"}
  BY DEF Goto, Return, Request, Elsewhere, Home, ShapeInv, RangeInv, LocalsRange

\* What is taken in hand, and what is not.
LEMMA HandStays ==
    ASSUME HandInv, NEW t \in Threads, Elsewhere(t), pc'[t] \notin {"publish", "event", "advance"}
    PROVE  HandInv'
  BY Apart DEF HandInv, Elsewhere

LEMMA HandPutDown ==
    ASSUME TypeInv, NEW t \in Threads, NEW l \in Labels \ {"publish", "event", "advance"},
           NEW n, NEW why, Goto(t, l) \/ Return(t) \/ Request(t, n, why)
    PROVE  HandInv'
<1>1. Elsewhere(t) /\ Home(t) \in {"wait", "idle"}
  BY GoesOn DEF TypeInv
<1>2. pc'[t] \in {l, Home(t), "fetch"}
  BY Going, Returning, Requesting DEF TypeInv
<1> QED BY <1>1, <1>2, HandStays DEF TypeInv

LEMMA StepHand == ASSUME TypeInv, NEW t \in Threads, Step(t) PROVE HandInv'
<1>1. ShapeInv /\ LocalsRange /\ HandInv
  BY DEF TypeInv, RangeInv
<1>2. CASE t \in Openers \cup {Starter} /\ Opening(t)
  <2>1. CASE ReconnectIntern(t)
    BY <2>1, HandPutDown DEF ReconnectIntern, Labels, Opens
  <2>2. CASE OpenStream(t)
    BY <2>2, HandPutDown DEF OpenStream, Labels, Opens
  <2>3. CASE BidiStream(t)
    <3>1. CASE OpenThrows(t)
      BY <3>1, HandPutDown DEF OpenThrows, Labels, Ends
    <3>2. CASE ~OpenThrows(t)
      <4>1. PICK s \in Streams : /\ own' = [own EXCEPT ![t] = s]
                                 /\ pc' = [pc EXCEPT ![t] = "publish"]
                                 /\ UNCHANGED resp
        BY <2>3, <3>2 DEF BidiStream
      <4>2. t \notin Streams
        BY <1>2, Apart DEF Launchers
      <4> QED BY <1>1, <4>1, <4>2, Apart DEF HandInv, ShapeInv
    <3> QED BY <3>1, <3>2
  <2>4. CASE PublishStream(t)
    BY <2>4, HandPutDown DEF PublishStream, Labels
  <2>5. CASE OpenCancels(t)
    BY <2>5, HandPutDown DEF OpenCancels, OpenThrows, Labels, Ends
  <2> QED BY <1>2, <2>1, <2>2, <2>3, <2>4, <2>5 DEF Opening
<1>3. CASE t \in Streams /\ Delivering(t)
  <2>1. CASE TakeResponse(t)
    <3>1. Head(box[t]) \in Response
      BY <1>3, <2>1 DEF TakeResponse, TypeInv, RangeInv, SharedRange
    <3>2. /\ \A x \in Streams \ {t} : resp'[x] = resp[x]
          /\ resp'[t] = Head(box[t]) /\ UNCHANGED <<ref, own>>
      BY <1>1, <1>3, <2>1 DEF TakeResponse, LocalsRange
    <3>3. /\ \A x \in Threads \ {t} : pc'[x] = pc[x]
          /\ pc'[t] = IF Head(box[t]).from > Head(box[t]).to THEN "keepalive" ELSE "event"
      BY <1>1, <2>1 DEF TakeResponse, ShapeInv
    <3>4. pc'[t] = "event" => Head(box[t]).from <= Head(box[t]).to
      BY <3>1, <3>3, BoundsAssumption DEF Response
    <3> QED BY <1>1, <3>2, <3>3, <3>4, Apart DEF HandInv
  <2>2. CASE OnEvent(t)
    <3>1. CASE Goto(t, "advance")
      BY <1>1, <2>2, <3>1, Going, Apart DEF OnEvent, Goto, HandInv
    <3>2. CASE Collapse(t)
      BY <3>2, HandPutDown DEF Collapse, Labels, Ends
    <3> QED BY <2>2, <3>1, <3>2 DEF OnEvent, CallbackThrows
  <2>3. CASE Advance(t)
    <3>1. CASE Return(t)
      BY <3>1, HandPutDown DEF Labels
    <3>2. CASE ~Return(t)
      <4>1. /\ pc'[t] = IF resp[t].from < resp[t].to THEN "event" ELSE "flow"
            /\ \A x \in Threads \ {t} : pc'[x] = pc[x] /\ ref'[x] = ref[x] /\ own'[x] = own[x]
        BY <1>1, <2>3, <3>2 DEF Advance, ShapeInv
      <4>2. /\ resp'[t].from = resp[t].from + 1 /\ resp'[t].to = resp[t].to
            /\ \A x \in Streams \ {t} : resp'[x] = resp[x]
        BY <1>1, <1>3, <2>3, <3>2 DEF Advance, LocalsRange, Response
      <4>3. pc'[t] = "event" => resp[t].from + 1 <= resp[t].to
        BY <1>3, <4>1, InHandRanged, BoundsAssumption DEF TypeInv
      <4> QED BY <1>1, <4>1, <4>2, <4>3, Apart DEF HandInv
    <3> QED BY <3>1, <3>2
  <2>4. CASE Keepalive(t)
    BY <2>4, HandPutDown DEF Keepalive, CallbackThrows, Collapse, Labels, Working, Ends
  <2>5. CASE FlowControl(t)
    <3>1. CASE Return(t)
      BY <3>1, HandPutDown DEF Labels
    <3>2. CASE ~Return(t)
      <4>1. Elsewhere(t) /\ pc'[t] \in {"arm", "replenish"}
        BY <1>1, <2>5, <3>2 DEF FlowControl, Elsewhere, ShapeInv
      <4> QED BY <1>1, <4>1, HandStays
    <3> QED BY <3>1, <3>2
  <2>6. CASE ArmBackstop(t)
    BY <2>6, HandPutDown DEF ArmBackstop, Labels, Working
  <2>7. CASE FlowControlBackstop(t)
    <3>1. CASE UNCHANGED locals
      BY <1>1, <3>1 DEF locals, HandInv
    <3>2. CASE ~UNCHANGED locals
      BY <2>7, <3>2, HandPutDown DEF FlowControlBackstop, Labels
    <3> QED BY <3>1, <3>2
  <2>8. CASE StreamTerminates(t)
    BY <2>8, HandPutDown DEF StreamTerminates, Collapse, Labels, Ends
  <2> QED BY <1>3, <2>1, <2>2, <2>3, <2>4, <2>5, <2>6, <2>7, <2>8 DEF Delivering
<1>4. CASE Fetch(t) /\ ~Return(t)
  <2>1. Elsewhere(t) /\ pc'[t] = "write"
    BY <1>1, <1>4 DEF Fetch, Elsewhere, ShapeInv, LocalsRange
  <2> QED BY <1>1, <2>1, HandStays
<1>5. CASE ScheduleReconnect(t) /\ ~Return(t)
  <2>1. Elsewhere(t) /\ pc'[t] = "submit"
    BY <1>1, <1>5 DEF ScheduleReconnect, Elsewhere, ShapeInv
  <2> QED BY <1>1, <2>1, HandStays
<1>6. CASE Return(t) \/ Replenish(t) \/ WriteSucceeds(t) \/ WriteThrows(t) \/ HandleTerminal(t)
           \/ SubmitDelay(t)
  <2>1. {"book", "undo", "terminal", "give_up", "schedule", "wait"} \subseteq
            Labels \ {"publish", "event", "advance"}
    BY DEF Labels, Working, Ends
  <2> QED BY <1>6, <2>1, HandPutDown
             DEF Replenish, WriteSucceeds, WriteThrows, Collapse, HandleTerminal, SubmitDelay
<1>7. (t = User /\ StopCancels) \/ Book(t) \/ GiveUp(t) => Return(t)
  BY DEF StopCancels, Book, GiveUp
<1> QED BY <1>2, <1>3, <1>4, <1>5, <1>6, <1>7 DEF Step

\* The types, with what is in hand, are kept by any step.
LEMMA NextTypes == ASSUME TypeInv, [Next]_vars PROVE TypeInv'
<1>1. ShapeInv'
  BY NextShapes DEF TypeInv, HandInv
<1>2. RangeInv'
  BY NextRange
<1>3. HandInv'
  <2>1. CASE \E t \in Threads : Step(t)
    BY <2>1, StepHand
  <2>2. CASE Start \/ UserReplenishes
    BY <2>2, HandPutDown, Apart DEF Start, UserReplenishes, Labels, Opens, Working
  <2>3. CASE Stop
    <3>1. \A x \in Threads \ {User} : pc'[x] = pc[x] /\ ref'[x] = ref[x] /\ own'[x] = own[x]
      BY <2>3 DEF Stop, TypeInv, ShapeInv
    <3>2. pc'[User] = "stopping" /\ UNCHANGED <<resp, at>>
      BY <2>3, Apart DEF Stop, TypeInv, ShapeInv
    <3> QED BY <3>1, <3>2, HandStays, Apart DEF Elsewhere, TypeInv
  <2>4. CASE \E d \in Delays : DelayDue(d) \/ DelayAborted(d) \/ ReconnectNow(d)
    <3>1. CASE UNCHANGED locals
      BY <3>1 DEF locals, HandInv, TypeInv
    <3>2. CASE \E o \in Openers : Goto(o, "intern")
      BY <3>2, HandPutDown DEF Labels, Opens, Threads
    <3> QED BY <2>4, <3>1, <3>2 DEF DelayDue, DelayAborted, ReconnectNow
  <2>5. CASE Publish \/ UNCHANGED vars
              \/ \E s \in Streams : Respond(s) \/ StreamCloses(s) \/ BackstopDue(s)
    <3>1. UNCHANGED locals
      BY <2>5 DEF Publish, Respond, StreamCloses, BackstopDue, vars
    <3> QED BY <3>1 DEF locals, HandInv, TypeInv
  <2> QED BY <2>1, <2>2, <2>3, <2>4, <2>5 DEF Next
<1> QED BY <1>1, <1>2, <1>3 DEF TypeInv

LEMMA InitTypes == Init => TypeInv
<1> SUFFICES ASSUME Init PROVE TypeInv
  OBVIOUS
<1>1. ShapeInv
  BY InitHold DEF HoldInv
<1>2. \A t \in Threads : pc[t] \in {"wait", "idle"}
  BY DEF Init, Home
<1>3. HandInv
  BY <1>2, Apart DEF HandInv
<1> QED BY <1>1, <1>3, InitRange DEF TypeInv

\* The types of the variables, whatever the streams do.
THEOREM TypesKept == Spec => []TypeOK
<1>1. TypeInv => TypeOK
  <2> SUFFICES ASSUME TypeInv PROVE TypeOK
    OBVIOUS
  <2>1. mode \in Modes /\ MaxReplenishes \in Nat
    BY SwitchesAssumption DEF TypeInv, ShapeInv, MaxReplenishes
  <2>2. {started, stopping, finished, connected, backstopArmed, healthy, sinks, returned}
           \subseteq BOOLEAN
    BY DEF TypeInv, ShapeInv, RangeInv, SharedRange
  <2> QED BY <2>1, <2>2
          DEF TypeInv, ShapeInv, RangeInv, LocalsRange, SharedRange, TypeOK, MaxReplenishes
<1>2. TypeInv /\ [Next]_vars => TypeInv'
  BY NextTypes
<1> QED BY <1>1, <1>2, InitTypes, PTL DEF Spec

-----------------------------------------------------------------------------
\* Steps beside the chain

\* No response is taken, delivered or dropped, and no position moves.
AsideStep(t) ==
    /\ Elsewhere(t)
    /\ UNCHANGED <<lastReplay, base, pos, box, seen>>
    /\ published' \in {published, published + 1}
    /\ Uncorrupted => \A s \in Streams : corrupt'[s] => corrupt[s]
    /\ (stopping => stopping') /\ (finished => finished')
    /\ (sinks' => sinks) /\ (~sinks' => ~sinks \/ finished)
    /\ \A s \in Streams : \/ life'[s] = life[s]
                          \/ life[s] = "unused" /\ life'[s] = "opened"
                          \/ life[s] \in {"opened", "asked"} /\ life'[s] = "closed"
    /\ \/ UNCHANGED <<pc, resp, ref, own, at>>
       \/ /\ pc[t] \notin InHand /\ pc'[t] \notin InHand
          /\ pc'[t] = "give_up" => finished'
          /\ pc'[t] = "write" => at'[t] = lastReplay

\* A step along the chain, with the position an opening request takes and the one
\* that is given up.
AlongStep ==
    \/ \E s \in Streams :
          \/ Respond(s) \/ TakeResponse(s) \/ OnEvent(s) \/ Advance(s) \/ Keepalive(s)
          \/ StreamTerminates(s) \/ (WriteThrows(s) /\ Collapse(s))
    \/ \E t \in Threads :
          \/ WriteSucceeds(t) /\ call[t] = "open" /\ life[ref[t]] = "opened"
          \/ HandleTerminal(t) /\ lastReplay' # lastReplay

LEMMA OpeningAside ==
    ASSUME TypeInv, NEW t \in Launchers, Opening(t) PROVE AsideStep(t)
<1>1. t \in Threads /\ t \notin Streams /\ Home(t) = "idle" /\ ShapeInv /\ RangeInv
  BY Apart DEF Home, TypeInv
<1>2. CASE ReconnectIntern(t)
  <2>1. Elsewhere(t) /\ pc'[t] \in {"idle", "open"}
    BY <1>1, <1>2, GoesOn, Going, Returning DEF ReconnectIntern
  <2> QED BY <1>2, <2>1 DEF ReconnectIntern, AsideStep, InHand, flags, server, wire, history
<1>3. CASE OpenStream(t)
  <2>1. Elsewhere(t) /\ pc'[t] \in {"idle", "bidi"}
    BY <1>1, <1>3, GoesOn, Going, Returning DEF OpenStream
  <2> QED BY <1>3, <2>1 DEF OpenStream, AsideStep, InHand, flags, server, wire, history
<1>4. CASE BidiStream(t)
  <2>1. CASE OpenThrows(t) /\ UNCHANGED life
    <3>1. Elsewhere(t) /\ pc'[t] \in {"idle", "terminal"}
      BY <1>1, <2>1, GoesOn, Going, Returning DEF OpenThrows
    <3> QED BY <1>4, <2>1, <3>1 DEF BidiStream, AsideStep, InHand, flags, wire, history
  <2>2. CASE \E s \in Streams :
               /\ life[s] = "unused"
               /\ life' = [life EXCEPT ![s] = "opened"]
               /\ own' = [own EXCEPT ![t] = s]
               /\ pc' = [pc EXCEPT ![t] = "publish"]
               /\ UNCHANGED <<resp, req, ref, call, at, fails>>
    <3>1. PICK s \in Streams :
            /\ life[s] = "unused"
            /\ \A x \in Streams : life'[x] = IF x = s THEN "opened" ELSE life[x]
            /\ \A x \in Threads : /\ own'[x] = IF x = t THEN s ELSE own[x]
                                  /\ pc'[x] = IF x = t THEN "publish" ELSE pc[x]
            /\ UNCHANGED <<resp, ref, at>>
      BY <1>1, <2>2 DEF ShapeInv
    <3>2. Elsewhere(t)
      BY <3>1 DEF Elsewhere
    <3> QED BY <1>1, <1>4, <3>1, <3>2 DEF BidiStream, AsideStep, InHand, flags, wire, history
  <2> QED BY <1>4, <2>1, <2>2 DEF BidiStream
<1>5. CASE PublishStream(t)
  <2>1. Elsewhere(t) /\ pc'[t] \in {"cancel", "fetch"}
    BY <1>1, <1>5, GoesOn, Going, Requesting DEF PublishStream
  <2> QED BY <1>5, <2>1 DEF PublishStream, AsideStep, InHand, flags, server, wire, history
<1>6. CASE OpenCancels(t)
  <2>1. Elsewhere(t) /\ pc'[t] \in {"idle", "terminal"}
    BY <1>1, <1>6, GoesOn, Going, Returning DEF OpenCancels, OpenThrows
  <2> QED BY <1>6, <2>1 DEF OpenCancels, AsideStep, InHand, flags, server, history
<1> QED BY <1>2, <1>3, <1>4, <1>5, <1>6 DEF Opening

\* What the worker does when it is through with a response.
LEMMA FlowAside ==
    ASSUME TypeInv, NEW t \in Streams,
           FlowControl(t) \/ ArmBackstop(t) \/ FlowControlBackstop(t)
    PROVE  AsideStep(t)
<1>1. t \in Threads /\ Home(t) = "wait" /\ ShapeInv /\ RangeInv
  BY Apart DEF Home, TypeInv
<1>2. CASE FlowControl(t)
  <2>1. Elsewhere(t) /\ pc'[t] \in {"wait", "arm", "replenish"}
    <3>1. CASE Return(t)
      BY <1>1, <3>1, GoesOn, Returning
    <3>2. CASE ~Return(t)
      BY <1>1, <1>2, <3>2 DEF FlowControl, Elsewhere, ShapeInv
    <3> QED BY <3>1, <3>2
  <2> QED BY <1>2, <2>1 DEF FlowControl, AsideStep, InHand, flags, server, wire, history
<1>3. CASE ArmBackstop(t)
  <2>1. Elsewhere(t) /\ pc'[t] \in {"wait", "replenish"}
    BY <1>1, <1>3, GoesOn, Going, Returning DEF ArmBackstop
  <2> QED BY <1>3, <2>1 DEF ArmBackstop, AsideStep, InHand, flags, server, history
<1>4. CASE FlowControlBackstop(t)
  <2>1. Elsewhere(t) /\ pc'[t] \in {"wait", "fetch"}
    <3>1. CASE UNCHANGED locals
      BY <1>4, <3>1 DEF FlowControlBackstop, Elsewhere, locals
    <3>2. CASE ~UNCHANGED locals
      BY <1>1, <1>4, <3>2, GoesOn, Requesting DEF FlowControlBackstop
    <3> QED BY <3>1, <3>2
  <2> QED BY <1>4, <2>1 DEF FlowControlBackstop, AsideStep, InHand, flags, server, history
<1> QED BY <1>2, <1>3, <1>4

\* Requests, and what follows the end of a stream.
LEMMA OtherAside ==
    ASSUME TypeInv, QuietInv, NEW t \in Threads,
           \/ t = User /\ StopCancels
           \/ Replenish(t) \/ Fetch(t) \/ Book(t)
           \/ WriteSucceeds(t) /\ ~(call[t] = "open" /\ life[ref[t]] = "opened")
           \/ WriteThrows(t) /\ ~(Collapse(t) /\ t \in Streams)
           \/ HandleTerminal(t) /\ UNCHANGED lastReplay
           \/ GiveUp(t) \/ ScheduleReconnect(t) \/ SubmitDelay(t)
    PROVE  AsideStep(t)
<1>1. Home(t) \in {"wait", "idle"} /\ ShapeInv /\ RangeInv
  BY DEF Home, TypeInv
<1>2. CASE t = User /\ StopCancels
  <2>1. Elsewhere(t) /\ pc'[t] \in {"wait", "idle"}
    BY <1>1, <1>2, GoesOn, Returning DEF StopCancels
  <2> QED BY <1>2, <2>1 DEF StopCancels, AsideStep, InHand, flags, server
<1>3. CASE Replenish(t)
  <2>1. Elsewhere(t) /\ pc'[t] \in {"wait", "idle", "fetch"}
    BY <1>1, <1>3, GoesOn, Returning, Requesting DEF Replenish
  <2> QED BY <1>3, <2>1 DEF Replenish, AsideStep, InHand, flags, server, wire, history
<1>4. CASE Fetch(t)
  <2>1. CASE Return(t)
    <3>1. Elsewhere(t) /\ pc'[t] \in {"wait", "idle"}
      BY <1>1, <2>1, GoesOn, Returning
    <3> QED BY <1>4, <3>1 DEF Fetch, AsideStep, InHand, flags, server, wire, history
  <2>2. CASE ~Return(t)
    <3>1. Elsewhere(t) /\ pc'[t] = "write" /\ at'[t] = lastReplay
      BY <1>1, <1>4, <2>2 DEF Fetch, Elsewhere, ShapeInv, RangeInv, LocalsRange
    <3> QED BY <1>4, <3>1 DEF Fetch, AsideStep, InHand, flags, server, wire, history
  <2> QED BY <2>1, <2>2
<1>5. CASE WriteThrows(t) /\ ~(Collapse(t) /\ t \in Streams)
  <2>1. Elsewhere(t) /\ pc'[t] \in {"wait", "idle", "undo", "terminal"}
    BY <1>1, <1>5, GoesOn, Going, Returning DEF WriteThrows, Collapse
  <2>2. UNCHANGED <<life, box>>
    <3>1. CASE UNCHANGED <<life, wire>>
      BY <3>1 DEF wire
    <3>2. CASE Collapse(t) /\ t \notin Streams
      BY <1>1, <3>2 DEF Collapse, ShapeInv, RangeInv, SharedRange
    <3> QED BY <1>5, <3>1, <3>2 DEF WriteThrows
  <2> QED BY <1>5, <2>1, <2>2 DEF WriteThrows, AsideStep, InHand, flags, history
<1>6. CASE Book(t)
  <2>1. Elsewhere(t) /\ pc'[t] \in {"wait", "idle"}
    BY <1>1, <1>6, GoesOn, Returning DEF Book
  <2> QED BY <1>6, <2>1 DEF Book, AsideStep, InHand, flags, server, history
<1>7. CASE HandleTerminal(t) /\ UNCHANGED lastReplay
  <2>1. Elsewhere(t) /\ pc'[t] \in {"wait", "idle", "schedule", "give_up"}
    BY <1>1, <1>7, GoesOn, Going, Returning DEF HandleTerminal
  <2>2. pc'[t] = "give_up" => finished'
    <3>1. CASE Return(t)
      BY <1>1, <3>1, Returning
    <3>2. CASE ~Return(t)
      <4>1. PICK g \in BOOLEAN : finished' = g /\ Goto(t, IF g THEN "give_up" ELSE "schedule")
        BY <1>7, <3>2 DEF HandleTerminal
      <4> QED BY <1>1, <4>1, Going
    <3> QED BY <3>1, <3>2
  <2>3. finished => finished'
    BY <1>7 DEF HandleTerminal
  <2> QED BY <1>7, <2>1, <2>2, <2>3 DEF HandleTerminal, AsideStep, InHand, server, wire, history
<1>8. CASE GiveUp(t)
  <2>1. Elsewhere(t) /\ pc'[t] \in {"wait", "idle"}
    BY <1>1, <1>8, GoesOn, Returning DEF GiveUp
  <2>2. finished
    BY <1>8 DEF GiveUp, QuietInv
  <2> QED BY <1>8, <2>1, <2>2 DEF GiveUp, AsideStep, InHand, flags, server, wire, history
<1>9. CASE ScheduleReconnect(t)
  <2>1. Elsewhere(t) /\ pc'[t] \in {"wait", "idle", "submit"}
    <3>1. CASE Return(t)
      BY <1>1, <3>1, GoesOn, Returning
    <3>2. CASE ~Return(t)
      BY <1>1, <1>9, <3>2 DEF ScheduleReconnect, Elsewhere, ShapeInv
    <3> QED BY <3>1, <3>2
  <2> QED BY <1>9, <2>1 DEF ScheduleReconnect, AsideStep, InHand, flags, server, wire, history
<1>10. CASE SubmitDelay(t)
  <2>1. Elsewhere(t) /\ (pc'[t] \in {"wait", "idle"} \/ (pc'[t] = "give_up" /\ finished'))
    BY <1>1, <1>10, GoesOn, Going, Returning DEF SubmitDelay
  <2> QED BY <1>10, <2>1 DEF SubmitDelay, AsideStep, InHand, server, wire, history
<1>11. CASE WriteSucceeds(t) /\ ~(call[t] = "open" /\ life[ref[t]] = "opened")
  <2>1. Elsewhere(t) /\ pc[t] = "write" /\ pc'[t] = "book"
    BY <1>1, <1>11, GoesOn, Going DEF WriteSucceeds
  <2>2. /\ UNCHANGED <<pos, base>>
        /\ \A x \in Streams : \/ life'[x] = life[x]
                              \/ life[x] = "opened" /\ life'[x] = "closed"
    BY <1>1, <1>11 DEF WriteSucceeds, ShapeInv
  <2> QED BY <1>11, <2>1, <2>2 DEF WriteSucceeds, AsideStep, InHand, flags, wire
<1> QED BY <1>2, <1>3, <1>4, <1>5, <1>6, <1>7, <1>8, <1>9, <1>10, <1>11

\* The outside, and the clock, change no thread.
LEMMA OutsideAside ==
    ASSUME TypeInv, UNCHANGED locals, NEW t \in Threads,
           \/ \E d \in Delays : DelayDue(d) \/ DelayAborted(d) \/ ReconnectNow(d)
           \/ Publish \/ UNCHANGED vars
           \/ \E s \in Streams : StreamCloses(s) \/ BackstopDue(s)
    PROVE  AsideStep(t)
<1>1. UNCHANGED <<pc, resp, ref, own, at>>
  BY DEF locals
<1>2. UNCHANGED <<stopping, finished, lastReplay, base, seen, sinks, pos, box>>
  <2>1. CASE \E d \in Delays : DelayDue(d) \/ DelayAborted(d) \/ ReconnectNow(d)
    BY <2>1 DEF DelayDue, DelayAborted, ReconnectNow, flags, server, wire, history
  <2>2. CASE Publish
    BY <2>2 DEF Publish, flags, wire, history
  <2>3. CASE UNCHANGED vars
    BY <2>3 DEF vars, flags, server, wire, history
  <2>4. CASE \E s \in Streams : StreamCloses(s) \/ BackstopDue(s)
    BY <2>4 DEF StreamCloses, BackstopDue, flags, server, wire, history
  <2> QED BY <2>1, <2>2, <2>3, <2>4
<1>3. /\ published' \in {published, published + 1}
      /\ Uncorrupted => \A x \in Streams : corrupt'[x] => corrupt[x]
      /\ \A x \in Streams : \/ life'[x] = life[x]
                            \/ life[x] \in {"opened", "asked"} /\ life'[x] = "closed"
  <2>1. CASE \E s \in Streams : StreamCloses(s)
    <3>1. PICK s \in Streams : StreamCloses(s)
      BY <2>1
    <3>2. Uncorrupted => corrupt' = [corrupt EXCEPT ![s] = FALSE]
      BY <3>1 DEF StreamCloses, Uncorrupted
    <3>3. life[s] \in {"opened", "asked"} /\ life' = [life EXCEPT ![s] = "closed"]
          /\ published' = published
      BY <3>1 DEF StreamCloses
    <3>4. Uncorrupted => \A x \in Streams : corrupt'[x] => corrupt[x]
      BY <3>2 DEF TypeInv, RangeInv, SharedRange
    <3> QED BY <3>3, <3>4 DEF TypeInv, ShapeInv
  <2>2. CASE UNCHANGED <<life, corrupt>> /\ published' \in {published, published + 1}
    BY <2>2
  <2> QED BY <2>1, <2>2 DEF DelayDue, DelayAborted, ReconnectNow, Publish, BackstopDue, vars, server
<1> QED BY <1>1, <1>2, <1>3 DEF AsideStep, Elsewhere

\* Every step is one or the other.
LEMMA AlongOrAside ==
    ASSUME TypeInv, QuietInv, [Next]_vars
    PROVE  AlongStep \/ \E t \in Threads : AsideStep(t)
<1> USE Apart
<1>1. ASSUME NEW t \in Threads, Step(t) PROVE AlongStep \/ AsideStep(t)
  <2>1. CASE t \in Openers \cup {Starter} /\ Opening(t)
    BY <2>1, OpeningAside DEF Launchers
  <2>2. CASE t \in Streams /\ Delivering(t)
    BY <2>2, FlowAside DEF Delivering, AlongStep
  <2>3. CASE ~(t \in Openers \cup {Starter} /\ Opening(t)) /\ ~(t \in Streams /\ Delivering(t))
    BY <1>1, <2>3, OtherAside DEF Step, AlongStep
  <2> QED BY <2>1, <2>2, <2>3
<1>2. CASE Start
  <2>1. Elsewhere(Starter) /\ pc'[Starter] = "open"
    BY <1>2, GoesOn, Going DEF Start, TypeInv
  <2> QED BY <1>2, <2>1 DEF Start, AsideStep, InHand, server, wire, history
<1>3. CASE Stop
  <2>1. /\ \A x \in Threads \ {User} : pc'[x] = pc[x] /\ ref'[x] = ref[x] /\ own'[x] = own[x]
        /\ pc'[User] = "stopping" /\ UNCHANGED <<at, resp>>
    BY <1>3 DEF Stop, TypeInv, ShapeInv
  <2> QED BY <1>3, <2>1 DEF Stop, AsideStep, Elsewhere, InHand, server, wire, history
<1>4. CASE UserReplenishes
  <2>1. Elsewhere(User) /\ pc'[User] \in {"replenish", "fetch"}
    BY <1>4, GoesOn, Going, Requesting DEF UserReplenishes, TypeInv
  <2> QED BY <1>4, <2>1 DEF UserReplenishes, AsideStep, InHand, flags, server, wire
<1>5. ASSUME NEW d \in Delays, ReconnectNow(d), NEW o \in Openers, pc[o] = "idle", Goto(o, "intern")
      PROVE  AsideStep(o)
  <2>1. o \in Threads
    BY DEF Threads
  <2>2. Elsewhere(o) /\ pc'[o] = "intern"
    BY <1>5, <2>1, GoesOn, Going DEF TypeInv
  <2> QED BY <1>5, <2>2 DEF ReconnectNow, AsideStep, InHand, flags, server, wire, history
<1>6. ASSUME NEW d \in Delays, DelayDue(d) \/ DelayAborted(d) \/ ReconnectNow(d)
      PROVE  \E t \in Threads : AsideStep(t)
  <2>1. CASE UNCHANGED locals
    BY <1>6, <2>1, OutsideAside
  <2>2. CASE ~UNCHANGED locals
    <3>1. PICK o \in Openers : pc[o] = "idle" /\ Goto(o, "intern")
      BY <1>6, <2>2 DEF DelayDue, DelayAborted, ReconnectNow
    <3> QED BY <1>5, <1>6, <2>2, <3>1 DEF DelayDue, DelayAborted, Threads
  <2> QED BY <2>1, <2>2
<1>7. CASE Publish \/ UNCHANGED vars \/ \E s \in Streams : StreamCloses(s) \/ BackstopDue(s)
  <2>1. UNCHANGED locals
    BY <1>7 DEF Publish, StreamCloses, BackstopDue, vars
  <2> QED BY <1>7, <2>1, OutsideAside
<1>8. CASE \E s \in Streams : Respond(s)
  BY <1>8 DEF AlongStep
<1> QED BY <1>1, <1>2, <1>3, <1>4, <1>6, <1>7, <1>8 DEF Next

\* Steps beside the chain keep what any number of streams keep.
LEMMA AsideMany ==
    ASSUME ManyInv, TypeInv', NEW t \in Threads, AsideStep(t)
    PROVE  ManyInv'
<1>1. \A x \in Streams : /\ pc'[x] \in InHand => pc'[x] = pc[x] /\ resp'[x] = resp[x]
                         /\ pc'[x] \notin InHand => pc[x] \notin InHand
                         /\ First(x)' = First(x)
  BY Apart DEF AsideStep, Elsewhere, First
<1>2. base' <= StartPosition'
  BY BoundsAssumption DEF ManyInv, TypeInv, RangeInv, SharedRange, StartPosition, AsideStep
<1>3. BoxInv'
  <2>1. ASSUME NEW s \in Streams
        PROVE  /\ life'[s] \in {"unused", "opened", "ended"} => box'[s] = <<>>
               /\ Contiguous(box'[s], pos'[s])
    BY DEF AsideStep, ManyInv, BoxInv, BoxOf
  <2>2. ASSUME NEW s \in Streams, pc'[s] \in InHand
        PROVE  /\ life'[s] \in {"asked", "closed"}
               /\ resp'[s].from >= 1 /\ resp'[s].to + 1 = First(s)'
               /\ pc'[s] = "keepalive" => resp'[s].from = resp'[s].to + 1
    BY <1>1, <2>2 DEF AsideStep, ManyInv, BoxInv, BoxOf
  <2> QED BY <2>1, <2>2 DEF BoxInv, BoxOf, InHand
<1>4. QuietInv'
  BY DEF AsideStep, Elsewhere, ManyInv, QuietInv
<1>5. CoverInv'
  <2> SUFFICES ASSUME Heard' PROVE CoverInv'
    BY DEF CoverInv
  <2>1. Heard /\ \A n : Covered(n) => Covered(n)'
    BY DEF AsideStep, Heard, Covered
  <2>2. \A x \in Threads : pc'[x] = "write" => Covered(at'[x])
    BY <2>1 DEF AsideStep, Elsewhere, ManyInv, CoverInv
  <2>3. ASSUME NEW s \in Streams, pc'[s] \in InHand
        PROVE  Covered(resp'[s].from - 1) /\ (pc'[s] = "advance" => seen'[resp'[s].from] > 0)
    BY <1>1, <2>1, <2>3 DEF AsideStep, ManyInv, CoverInv, CoverOf
  <2>4. ASSUME NEW s \in Streams, pc'[s] \notin InHand, life'[s] = "asked" \/ box'[s] # <<>>
        PROVE  Covered(First(s) - 1)
    BY <1>1, <2>1, <2>4 DEF AsideStep, ManyInv, CoverInv, CoverOf
  <2>5. Covered(lastReplay)
    BY <2>1 DEF ManyInv, CoverInv
  <2> QED BY <1>1, <2>1, <2>2, <2>3, <2>4, <2>5 DEF CoverInv, CoverOf, AsideStep, InHand
<1> QED BY <1>2, <1>3, <1>4, <1>5 DEF ManyInv

-----------------------------------------------------------------------------
\* Steps along the chain

\* A step that is about stream s alone keeps what it keeps for s.
LEMMA AlongMany ==
    ASSUME ManyInv, TypeInv', NEW s \in Streams, Elsewhere(s),
           \A x \in Streams \ {s} : life'[x] = life[x] /\ box'[x] = box[x] /\ pos'[x] = pos[x],
           UNCHANGED <<stopping, finished, base, published, sinks>>,
           \A e \in 1..MaxEvents : seen[e] > 0 => seen'[e] > 0,
           pc'[s] \in {"write", "give_up"} => UNCHANGED <<pc, at>>,
           BoxOf(s)', Heard => CoverOf(s)' /\ Covered(lastReplay)'
    PROVE  ManyInv'
<1>1. base' <= StartPosition'
  BY DEF ManyInv, StartPosition
<1>2. \A x \in Threads \ {s} : pc'[x] = pc[x] /\ at'[x] = at[x]
  BY DEF Elsewhere
<1>3. \A x \in Streams \ {s} : pc'[x] = pc[x] /\ resp'[x] = resp[x] /\ First(x)' = First(x)
  BY Apart DEF Elsewhere, First
<1>4. BoxInv'
  <2>1. ASSUME NEW x \in Streams, x # s PROVE BoxOf(x)'
    BY <1>3, <2>1 DEF ManyInv, BoxInv, BoxOf
  <2> QED BY <2>1 DEF BoxInv
<1>5. QuietInv'
  BY <1>2 DEF ManyInv, QuietInv
<1>6. CoverInv'
  <2> SUFFICES ASSUME Heard' PROVE CoverInv'
    BY DEF CoverInv
  <2>1. Heard /\ \A n : Covered(n) => Covered(n)'
    BY DEF Heard, Covered
  <2>2. ASSUME NEW x \in Threads, pc'[x] = "write" PROVE Covered(at[x])' 
    BY <1>2, <2>1, <2>2 DEF ManyInv, CoverInv
  <2>3. ASSUME NEW x \in Streams, x # s PROVE CoverOf(x)'
    <3>1. CoverOf(x)
      BY <2>1 DEF ManyInv, CoverInv
    <3>2. pc[x] = "advance" => resp[x].from \in 1..MaxEvents
      <4>1. pc[x] = "advance" => resp[x].from >= 1 /\ resp[x].from <= resp[x].to
        BY DEF ManyInv, TypeInv, HandInv, BoxInv, BoxOf, InHand
      <4> QED BY <4>1, InHandRanged, BoundsAssumption DEF ManyInv, TypeInv
    <3> QED BY <1>3, <2>1, <2>3, <3>1, <3>2 DEF CoverOf
  <2> QED BY <2>1, <2>2, <2>3 DEF CoverInv
<1> QED BY <1>1, <1>4, <1>5, <1>6 DEF ManyInv

\* A response is taken from the front of what waits.
LEMMA Taken ==
    ASSUME ShapeInv, RangeInv, BoxInv, NEW s \in Streams, TakeResponse(s)
    PROVE  /\ pc[s] = "wait" /\ life[s] \in {"asked", "closed"} /\ box[s] # <<>>
           /\ UNCHANGED <<stopping, finished, lastReplay, base, seen, sinks, published, pos, life,
                          corrupt, ref, own, at>>
           /\ \A x \in Streams : /\ resp'[x] = IF x = s THEN Head(box[s]) ELSE resp[x]
                                 /\ box'[x] = IF x = s THEN Tail(box[s]) ELSE box[x]
           /\ \A x \in Threads : pc'[x] = IF x # s THEN pc[x]
                                          ELSE IF Head(box[s]).from > Head(box[s]).to
                                          THEN "keepalive" ELSE "event"
           /\ Head(box[s]) \in Response /\ Contiguous(Tail(box[s]), pos[s])
           /\ Head(box[s]).from = First(s) /\ Head(box[s]).from >= 1
           /\ Head(box[s]).from <= Head(box[s]).to + 1 /\ Head(box[s]).to + 1 = First(s)'
<1>1. /\ pc[s] = "wait" /\ life[s] \in {"asked", "closed"} /\ box[s] \in Seq(Response)
      /\ box[s] # <<>>
      /\ UNCHANGED <<stopping, finished, lastReplay, base, seen, sinks, published, pos, life,
                     corrupt, ref, own, at>>
  BY DEF TakeResponse, flags, server, history, RangeInv, SharedRange
<1>2. \A x \in Streams : /\ resp'[x] = IF x = s THEN Head(box[s]) ELSE resp[x]
                         /\ box'[x] = IF x = s THEN Tail(box[s]) ELSE box[x]
  BY DEF TakeResponse, RangeInv, LocalsRange, SharedRange
<1>3. \A x \in Threads : pc'[x] = IF x # s THEN pc[x]
                                  ELSE IF Head(box[s]).from > Head(box[s]).to
                                  THEN "keepalive" ELSE "event"
  BY DEF TakeResponse, ShapeInv
<1>4. pos[s] \in 0..MaxEvents /\ Contiguous(box[s], pos[s])
  BY DEF BoxInv, BoxOf, RangeInv, SharedRange
<1> QED BY <1>1, <1>2, <1>3, <1>4, TakenContiguous DEF First

LEMMA TakeResponseMany ==
    ASSUME ManyInv, TypeInv', NEW s \in Streams, TakeResponse(s)
    PROVE  ManyInv'
<1> DEFINE r == Head(box[s])
<1>1. /\ pc[s] = "wait" /\ life[s] \in {"asked", "closed"} /\ box[s] # <<>>
      /\ UNCHANGED <<stopping, finished, lastReplay, base, seen, sinks, published, pos, life, at>>
      /\ \A x \in Streams : /\ resp'[x] = IF x = s THEN r ELSE resp[x]
                            /\ box'[x] = IF x = s THEN Tail(box[s]) ELSE box[x]
      /\ pc'[s] = IF r.from > r.to THEN "keepalive" ELSE "event"
      /\ r \in Response /\ Contiguous(Tail(box[s]), pos[s])
      /\ r.from = First(s) /\ r.from >= 1 /\ r.from <= r.to + 1 /\ r.to + 1 = First(s)'
      /\ Elsewhere(s)
  BY Taken, Apart DEF ManyInv, TypeInv, Elsewhere
<1>2. r.from \in Nat /\ r.to \in Nat
  BY <1>1, BoundsAssumption DEF Response
<1> HIDE DEF r
<1>3. BoxOf(s)'
  BY <1>1, <1>2 DEF BoxOf
<1>4. Heard => CoverOf(s)' /\ Covered(lastReplay)'
  BY <1>1 DEF ManyInv, CoverInv, CoverOf, Covered, InHand
<1> QED BY <1>1, <1>3, <1>4, AlongMany


\* A response comes at the end of what waits.
LEMMA Responded ==
    ASSUME ShapeInv, RangeInv, BoxInv, NEW s \in Streams, Respond(s)
    PROVE  /\ UNCHANGED <<stopping, finished, lastReplay, base, seen, sinks, published, life,
                          corrupt, pc, resp, ref, own, at>>
           /\ life[s] = "asked" /\ box'[s] # <<>>
           /\ Contiguous(box'[s], pos'[s]) /\ First(s)' = First(s)
           /\ \A x \in Streams \ {s} : pos'[x] = pos[x] /\ box'[x] = box[x]
<1>1. /\ UNCHANGED <<stopping, finished, lastReplay, base, seen, sinks, published, life, corrupt>>
      /\ UNCHANGED <<pc, resp, ref, own, at>> /\ life[s] = "asked"
  BY DEF Respond, flags, locals, history
<1>2. PICK r \in Response :
        /\ r.from = pos[s] + 1 /\ r.to >= pos[s] /\ pos'[s] = r.to
        /\ box'[s] = Append(box[s], r)
        /\ \A x \in Streams \ {s} : pos'[x] = pos[x] /\ box'[x] = box[x]
  <2>1. CASE pos[s] = published /\ box[s] = <<>> /\ UNCHANGED pos
             /\ box' = [box EXCEPT ![s] = <<[from |-> published + 1, to |-> published,
                                             pending |-> credit[s]]>>]
    <3> DEFINE r == [from |-> published + 1, to |-> published, pending |-> credit[s]]
    <3>1. r \in Response /\ r.from = pos[s] + 1 /\ r.to >= pos[s] /\ pos'[s] = r.to
      BY <2>1, BoundsAssumption DEF RangeInv, SharedRange, Response
    <3>2. box'[s] = Append(box[s], r)
      BY <2>1 DEF RangeInv, SharedRange
    <3>3. \A x \in Streams \ {s} : pos'[x] = pos[x] /\ box'[x] = box[x]
      BY <2>1 DEF RangeInv, SharedRange
    <3> HIDE DEF r
    <3> QED BY <3>1, <3>2, <3>3
  <2>2. ASSUME NEW n \in 1..MaxBatch, n <= credit[s], pos[s] + n <= published,
               box' = [box EXCEPT ![s] = Append(@, [from |-> pos[s] + 1, to |-> pos[s] + n,
                                                    pending |-> credit[s] - n])],
               pos' = [pos EXCEPT ![s] = @ + n]
        PROVE  \E r \in Response :
                  /\ r.from = pos[s] + 1 /\ r.to >= pos[s] /\ pos'[s] = r.to
                  /\ box'[s] = Append(box[s], r)
                  /\ \A x \in Streams \ {s} : pos'[x] = pos[x] /\ box'[x] = box[x]
    <3> DEFINE r == [from |-> pos[s] + 1, to |-> pos[s] + n, pending |-> credit[s] - n]
    <3>1. r \in Response /\ r.from = pos[s] + 1 /\ r.to >= pos[s] /\ pos'[s] = r.to
      BY <2>2, BoundsAssumption DEF RangeInv, SharedRange, Response
    <3>2. box'[s] = Append(box[s], r)
      BY <2>2 DEF RangeInv, SharedRange
    <3>3. \A x \in Streams \ {s} : pos'[x] = pos[x] /\ box'[x] = box[x]
      BY <2>2 DEF RangeInv, SharedRange
    <3> HIDE DEF r
    <3> QED BY <3>1, <3>2, <3>3
  <2> QED BY <2>1, <2>2 DEF Respond
<1>3. Contiguous(box'[s], pos'[s]) /\ First(s)' = First(s)
  <2>1. pos[s] \in 0..MaxEvents /\ box[s] \in Seq(Response) /\ Contiguous(box[s], pos[s])
    BY DEF BoxInv, BoxOf, RangeInv, SharedRange
  <2> QED BY <1>2, <2>1, AddedContiguous DEF First
<1>4. box'[s] # <<>>
  <2>1. Len(box'[s]) = Len(box[s]) + 1 /\ Len(box[s]) \in Nat
    BY <1>2, AppendProperties DEF RangeInv, SharedRange
  <2> QED BY <2>1
<1> QED BY <1>1, <1>2, <1>3, <1>4

LEMMA RespondMany ==
    ASSUME ManyInv, TypeInv', NEW s \in Streams, Respond(s)
    PROVE  ManyInv'
<1>1. /\ UNCHANGED <<stopping, finished, lastReplay, base, seen, sinks, published, life>>
      /\ UNCHANGED <<pc, resp, ref, own, at>> /\ life[s] = "asked" /\ Contiguous(box'[s], pos'[s])
      /\ First(s)' = First(s) /\ \A x \in Streams \ {s} : pos'[x] = pos[x] /\ box'[x] = box[x]
  BY Responded DEF ManyInv, TypeInv
<1>2. Elsewhere(s)
  BY <1>1 DEF Elsewhere
<1>3. BoxOf(s)'
  BY <1>1 DEF ManyInv, BoxInv, BoxOf, InHand
<1>4. Heard => CoverOf(s)' /\ Covered(lastReplay)'
  BY <1>1 DEF ManyInv, CoverInv, CoverOf, Covered, InHand
<1> QED BY <1>1, <1>2, <1>3, <1>4, AlongMany

\* The event in hand is one that was published.
LEMMA EventRanged ==
    ASSUME ManyInv, NEW s \in Streams, pc[s] \in {"event", "advance"}
    PROVE  /\ life[s] \in {"asked", "closed"}
           /\ resp[s].from \in 1..MaxEvents /\ resp[s].to \in Nat
           /\ resp[s].from <= resp[s].to /\ resp[s].to + 1 = First(s)
<1>1. /\ life[s] \in {"asked", "closed"} /\ resp[s].from >= 1 /\ resp[s].to + 1 = First(s)
      /\ resp[s].from <= resp[s].to
  BY DEF ManyInv, BoxInv, BoxOf, InHand, TypeInv, HandInv
<1>2. resp[s].from \in Nat /\ resp[s].to \in 0..MaxEvents
  BY InHandRanged DEF ManyInv, TypeInv
<1> QED BY <1>1, <1>2, BoundsAssumption

\* The event in hand is delivered.
LEMMA Delivered ==
    ASSUME ManyInv, NEW s \in Streams, pc[s] = "event", Goto(s, "advance"),
           seen' = IF sinks /\ seen[resp[s].from] < 2
                   THEN [seen EXCEPT ![resp[s].from] = @ + 1] ELSE seen
    PROVE  /\ \A x \in Threads : pc'[x] = IF x = s THEN "advance" ELSE pc[x]
           /\ UNCHANGED <<resp, ref, own, at>>
           /\ seen[resp[s].from] \in 0..2
           /\ seen'[resp[s].from] = IF sinks /\ seen[resp[s].from] < 2
                                    THEN seen[resp[s].from] + 1 ELSE seen[resp[s].from]
           /\ \A e \in 1..MaxEvents : e # resp[s].from => seen'[e] = seen[e]
<1>1. /\ \A x \in Threads : pc'[x] = IF x = s THEN "advance" ELSE pc[x]
      /\ UNCHANGED <<resp, ref, own, at>>
  BY Going, Apart DEF Goto, ManyInv, TypeInv
<1>2. resp[s].from \in 1..MaxEvents
  BY EventRanged
<1> QED BY <1>1, <1>2 DEF ManyInv, TypeInv, RangeInv, SharedRange

LEMMA DeliveredMany ==
    ASSUME ManyInv, TypeInv', NEW s \in Streams, pc[s] = "event", Goto(s, "advance"),
           seen' = IF sinks /\ seen[resp[s].from] < 2
                   THEN [seen EXCEPT ![resp[s].from] = @ + 1] ELSE seen,
           UNCHANGED <<stopping, finished, lastReplay, base, sinks, published, pos, life, box>>
    PROVE  ManyInv'
<1> DEFINE e == resp[s].from
<1>1. /\ \A x \in Threads : pc'[x] = IF x = s THEN "advance" ELSE pc[x]
      /\ UNCHANGED <<resp, ref, own, at>>
      /\ seen[e] \in 0..2
      /\ seen'[e] = IF sinks /\ seen[e] < 2 THEN seen[e] + 1 ELSE seen[e]
      /\ \A x \in 1..MaxEvents : x # e => seen'[x] = seen[x]
  BY Delivered
<1>2. e \in 1..MaxEvents
  BY EventRanged
<1> HIDE DEF e
<1>3. Elsewhere(s) /\ pc'[s] = "advance"
  BY <1>1, Apart DEF Elsewhere
<1>4. \A x \in 1..MaxEvents : seen[x] > 0 => seen'[x] > 0
  BY <1>1
<1>5. Heard => seen'[e] > 0
  BY <1>1 DEF Heard
<1>6. BoxOf(s)'
  BY <1>1, <1>3 DEF ManyInv, BoxInv, BoxOf, First, InHand
<1>7. Heard => CoverOf(s)' /\ Covered(lastReplay)'
  BY <1>1, <1>3, <1>4, <1>5 DEF ManyInv, CoverInv, CoverOf, Covered, InHand, e
<1> QED BY <1>3, <1>4, <1>6, <1>7, AlongMany

\* The position passes the event in hand.
LEMMA Advanced ==
    ASSUME ShapeInv, RangeInv, NEW s \in Streams, Advance(s), NEW e, e = resp[s].from
    PROVE  /\ pc[s] = "advance" /\ lastReplay' = e
           /\ UNCHANGED <<stopping, finished, base, seen, sinks, published, pos, life, corrupt, box>>
           /\ \A x \in Threads \ {s} : pc'[x] = pc[x] /\ ref'[x] = ref[x] /\ own'[x] = own[x] /\ at'[x] = at[x]
           /\ \A x \in Streams \ {s} : resp'[x] = resp[x]
           /\ \/ stopping /\ pc'[s] = "wait"
              \/ /\ e < resp[s].to /\ pc'[s] = "event"
                 /\ resp'[s].from = e + 1 /\ resp'[s].to = resp[s].to
              \/ ~(e < resp[s].to) /\ pc'[s] = "flow"
<1>1. /\ pc[s] = "advance" /\ lastReplay' = e
      /\ UNCHANGED <<stopping, finished, base, seen, sinks, published, pos, life, corrupt, box>>
  BY DEF Advance, flags, server, wire, history
<1>4. /\ \A x \in Threads \ {s} : pc'[x] = pc[x] /\ ref'[x] = ref[x] /\ own'[x] = own[x] /\ at'[x] = at[x]
      /\ \A x \in Streams \ {s} : resp'[x] = resp[x]
      /\ \/ stopping /\ pc'[s] = "wait"
         \/ e < resp[s].to /\ pc'[s] = "event" /\ resp'[s].from = e + 1 /\ resp'[s].to = resp[s].to
         \/ ~(e < resp[s].to) /\ pc'[s] = "flow"
  <2>1. s \in Threads /\ Home(s) = "wait"
    BY Apart DEF Home
  <2>2. CASE stopping /\ Return(s)
    <3>1. Elsewhere(s)
      BY <2>1, <2>2, GoesOn DEF ShapeInv
    <3> QED BY <2>1, <2>2, <3>1, Returning DEF Elsewhere, ShapeInv
  <2>3. CASE /\ resp' = [resp EXCEPT ![s].from = e + 1]
             /\ pc' = [pc EXCEPT ![s] = IF e < resp[s].to THEN "event" ELSE "flow"]
             /\ UNCHANGED <<req, own, ref, call, at>>
    <3>1. pc'[s] = IF e < resp[s].to THEN "event" ELSE "flow"
      BY <2>1, <2>3 DEF ShapeInv, ShapeInv
    <3>2. resp'[s].from = e + 1 /\ resp'[s].to = resp[s].to
      BY <2>3 DEF RangeInv, LocalsRange, Response
    <3>3. /\ \A x \in Threads \ {s} : pc'[x] = pc[x] /\ ref'[x] = ref[x] /\ own'[x] = own[x] /\ at'[x] = at[x]
          /\ \A x \in Streams \ {s} : resp'[x] = resp[x]
      BY <2>3 DEF ShapeInv, ShapeInv, RangeInv, LocalsRange
    <3> QED BY <3>1, <3>2, <3>3
  <2> QED BY <2>2, <2>3 DEF Advance
<1> QED BY <1>1, <1>4

LEMMA AdvanceMany ==
    ASSUME ManyInv, TypeInv', NEW s \in Streams, Advance(s)
    PROVE  ManyInv'
<1>0. PICK e : e = resp[s].from
  OBVIOUS
<1>1. /\ pc[s] = "advance" /\ lastReplay' = e
      /\ UNCHANGED <<stopping, finished, base, seen, sinks, published, pos, life, box>>
      /\ Elsewhere(s)
      /\ \/ stopping /\ pc'[s] = "wait"
         \/ e < resp[s].to /\ pc'[s] = "event" /\ resp'[s].from = e + 1 /\ resp'[s].to = resp[s].to
         \/ ~(e < resp[s].to) /\ pc'[s] = "flow"
  BY <1>0, Advanced DEF ManyInv, TypeInv, Elsewhere
<1>2. /\ e \in 1..MaxEvents /\ e \in Nat /\ resp[s].to \in Nat /\ e <= resp[s].to
      /\ resp[s].to + 1 = First(s) /\ First(s)' = First(s) /\ life[s] \in {"asked", "closed"}
  BY <1>0, <1>1, EventRanged DEF First
<1>3. Heard => Covered(e)'
  <2>1. Heard => Covered(e - 1) /\ seen[e] > 0
    BY <1>0, <1>1 DEF ManyInv, CoverInv, CoverOf, InHand
  <2> QED BY <1>1, <1>2, <2>1 DEF Covered
<1>4. BoxOf(s)'
  BY <1>0, <1>1, <1>2 DEF ManyInv, BoxInv, BoxOf, InHand
<1>5. Heard => CoverOf(s)'
  BY <1>1, <1>2, <1>3 DEF CoverOf, Covered, Heard, InHand
<1> QED BY <1>1, <1>3, <1>4, <1>5, AlongMany

\* An empty batch moves the position to where it says the server is.
LEMMA KeepaliveRanged ==
    ASSUME ManyInv, NEW s \in Streams, pc[s] = "keepalive"
    PROVE  /\ life[s] \in {"asked", "closed"}
           /\ resp[s].to \in Nat /\ resp[s].to + 1 = First(s)
           /\ resp[s].from = resp[s].to + 1
<1>1. resp[s].to \in Nat
  BY InHandRanged, BoundsAssumption DEF ManyInv, TypeInv
<1> QED BY <1>1 DEF ManyInv, BoxInv, BoxOf, InHand

LEMMA AdoptedMany ==
    ASSUME ManyInv, TypeInv', NEW s \in Streams, pc[s] = "keepalive",
           NEW l \in {"flow", "terminal"}, Goto(s, l),
           \A x \in Streams \ {s} : life'[x] = life[x] /\ box'[x] = box[x],
           \/ l = "flow" /\ UNCHANGED <<life, box>>
           \/ l = "terminal" /\ life'[s] = "ended" /\ box'[s] = <<>>,
           lastReplay' = IF resp[s].to # 0 THEN resp[s].to ELSE lastReplay,
           UNCHANGED <<stopping, finished, base, seen, sinks, published, pos>>
    PROVE  ManyInv'
<1>1. /\ \A x \in Threads : pc'[x] = IF x = s THEN l ELSE pc[x]
      /\ UNCHANGED <<resp, ref, own, at>>
  BY Apart DEF Goto, ManyInv, TypeInv, ShapeInv
<1>2. Elsewhere(s) /\ pc'[s] = l
  BY <1>1, Apart DEF Elsewhere
<1>3. /\ life[s] \in {"asked", "closed"} /\ resp[s].to \in Nat /\ resp[s].to + 1 = First(s)
      /\ resp[s].from = resp[s].to + 1
  BY KeepaliveRanged
<1>4. Heard => Covered(resp[s].to) /\ Covered(lastReplay)
  BY <1>3 DEF ManyInv, CoverInv, CoverOf, InHand
<1>5. Heard => Covered(lastReplay)'
  BY <1>4 DEF Covered
<1>6. BoxOf(s)'
  <2>1. Contiguous(<<>>, pos[s])
    BY EmptySeq DEF Contiguous
  <2> QED BY <1>2, <1>3, <2>1 DEF ManyInv, BoxInv, BoxOf, InHand
<1>7. Heard => CoverOf(s)'
  BY <1>2, <1>3, <1>4 DEF CoverOf, Covered, InHand, First
<1> QED BY <1>2, <1>5, <1>6, <1>7, AlongMany

\* A stream ends, and what it has not delivered is dropped.
LEMMA CollapseMany ==
    ASSUME ManyInv, TypeInv', NEW s \in Streams, Collapse(s),
           UNCHANGED <<stopping, finished, lastReplay, base, sinks, published, pos>>,
           \A e \in 1..MaxEvents : seen[e] > 0 => seen'[e] > 0
    PROVE  ManyInv'
<1>1. /\ \A x \in Threads : pc'[x] = IF x = s THEN "terminal" ELSE pc[x]
      /\ UNCHANGED <<resp, ref, own, at>>
  BY Going, Apart DEF Collapse, Goto, ManyInv, TypeInv
<1>2. \A x \in Streams : /\ life'[x] = IF x = s THEN "ended" ELSE life[x]
                         /\ box'[x] = IF x = s THEN <<>> ELSE box[x]
  BY DEF Collapse, ManyInv, TypeInv, ShapeInv, RangeInv, SharedRange
<1>3. Elsewhere(s) /\ pc'[s] = "terminal"
  BY <1>1, Apart DEF Elsewhere
<1>4. BoxOf(s)'
  <2>1. Contiguous(<<>>, pos[s])
    BY EmptySeq DEF Contiguous
  <2> QED BY <1>2, <1>3, <2>1 DEF BoxOf, InHand
<1>5. Heard => CoverOf(s)' /\ Covered(lastReplay)'
  BY <1>2, <1>3 DEF ManyInv, CoverInv, CoverOf, Covered, InHand
<1> QED BY <1>2, <1>3, <1>4, <1>5, AlongMany

\* An opening request begins where the position is.
LEMMA OpenedMany ==
    ASSUME ManyInv, TypeInv', NEW t \in Threads, WriteSucceeds(t),
           call[t] = "open", life[ref[t]] = "opened"
    PROVE  ManyInv'
<1>1. /\ pc[t] = "write"
      /\ UNCHANGED <<stopping, finished, lastReplay, seen, sinks, published, box>>
      /\ base' = IF at[t] # 0 THEN base ELSE StartPosition
  BY DEF WriteSucceeds, flags, wire
<1>2. /\ \A x \in Threads : pc'[x] = IF x = t THEN "book" ELSE pc[x]
      /\ UNCHANGED <<resp, ref, own, at>>
  BY Going DEF WriteSucceeds, Goto, ManyInv, TypeInv
<1>3. \A x \in Streams :
         IF x = ref[t]
         THEN /\ life[x] = "opened" /\ life'[x] = "asked"
              /\ pos'[x] = IF at[t] # 0 THEN at[t] ELSE StartPosition
         ELSE life'[x] = life[x] /\ pos'[x] = pos[x]
  <2>1. /\ life' = [life EXCEPT ![ref[t]] = "asked"]
        /\ pos' = [pos EXCEPT ![ref[t]] = IF at[t] # 0 THEN at[t] ELSE StartPosition]
    BY DEF WriteSucceeds
  <2> QED BY <2>1 DEF ManyInv, TypeInv, ShapeInv, RangeInv, SharedRange
<1>4. /\ base <= base' /\ base' <= StartPosition' /\ base \in Nat /\ base' \in Nat
      /\ StartPosition \in Nat /\ at[t] \in Nat
  BY <1>1, BoundsAssumption
     DEF ManyInv, TypeInv, RangeInv, LocalsRange, SharedRange, StartPosition
<1>5. ASSUME NEW x \in Streams, x = ref[t]
      PROVE  box[x] = <<>> /\ pc[x] \notin InHand /\ First(x)' = pos'[x] + 1
  <2>1. box[x] = <<>> /\ pc[x] \notin InHand
    BY <1>3, <1>5 DEF ManyInv, BoxInv, BoxOf
  <2> QED BY <1>1, <2>1 DEF First, Begin
<1>6. \A x \in Streams : pc'[x] \in InHand \/ pc[x] \in InHand => pc'[x] = pc[x]
  BY <1>1, <1>2, Apart DEF InHand
<1>7. \A x \in Streams : x # ref[t] => First(x)' = First(x)
  BY <1>1, <1>3 DEF First
<1>8. BoxInv'
  <2>1. ASSUME NEW x \in Streams, x # ref[t] PROVE BoxOf(x)'
    BY <1>1, <1>2, <1>3, <1>6, <1>7, <2>1 DEF ManyInv, BoxInv, BoxOf, InHand
  <2>2. ASSUME NEW x \in Streams, x = ref[t] PROVE BoxOf(x)'
    <3>1. Contiguous(<<>>, pos'[x])
      BY EmptySeq DEF Contiguous
    <3> QED BY <1>1, <1>3, <1>5, <1>6, <2>2, <3>1 DEF BoxOf, InHand
  <2> QED BY <2>1, <2>2 DEF BoxInv
<1>9. QuietInv'
  BY <1>1, <1>2 DEF ManyInv, QuietInv
<1>10. CoverInv'
  <2> SUFFICES ASSUME Heard' PROVE CoverInv'
    BY DEF CoverInv
  <2>1. Heard /\ \A n : Covered(n) => Covered(n)'
    BY <1>1, <1>4 DEF Heard, Covered
  <2>2. Covered(lastReplay) /\ \A x \in Threads : pc'[x] = "write" => Covered(at[x])'
    BY <1>2, <2>1 DEF ManyInv, CoverInv
  <2>3. ASSUME NEW x \in Streams, x # ref[t] PROVE CoverOf(x)'
    BY <1>1, <1>2, <1>3, <1>6, <1>7, <2>1, <2>3 DEF ManyInv, CoverInv, CoverOf, InHand
  <2>4. ASSUME NEW x \in Streams, x = ref[t] PROVE CoverOf(x)'
    <3>1. \A e \in 1..MaxEvents : base' < e /\ e <= pos'[x] => seen[e] > 0
      <4>1. CASE at[t] # 0
        <5>1. pos'[x] = at[t] /\ base' = base /\ Covered(at[t])
          BY <1>1, <1>3, <2>1, <2>4, <4>1 DEF ManyInv, CoverInv
        <5> QED BY <5>1 DEF Covered
      <4>2. CASE at[t] = 0
        <5>1. pos'[x] = base'
          BY <1>1, <1>3, <2>4, <4>2
        <5> QED BY <1>4, <5>1
      <4> QED BY <4>1, <4>2
    <3>2. pos'[x] = First(x)' - 1
      BY <1>3, <1>4, <1>5, <2>4
    <3> QED BY <1>1, <1>5, <1>6, <2>4, <3>1, <3>2 DEF CoverOf, Covered, InHand
  <2> QED BY <1>1, <2>1, <2>2, <2>3, <2>4 DEF CoverInv
<1> QED BY <1>4, <1>8, <1>9, <1>10 DEF ManyInv

\* A position the server calls corrupted is given up.
LEMMA Spoilt ==
    ASSUME ShapeInv, NEW t \in Threads, HandleTerminal(t), lastReplay' # lastReplay
    PROVE  /\ pc[t] = "terminal" /\ ~stopping /\ ~finished /\ lastReplay' = 0
           /\ t \in Streams /\ corrupt[t]
           /\ UNCHANGED <<stopping, base, seen, sinks, published, pos, life, corrupt, box>>
           /\ \A x \in Threads : x # t => pc'[x] = pc[x]
           /\ pc'[t] = IF finished' THEN "give_up" ELSE "schedule"
           /\ UNCHANGED <<resp, ref, own, at>>
<1>1. /\ pc[t] = "terminal" /\ ~stopping /\ ~finished /\ lastReplay' = 0
      /\ t \in Streams /\ corrupt[t]
      /\ UNCHANGED <<stopping, base, seen, sinks, published, pos, life, corrupt, box>>
  BY DEF HandleTerminal, server, wire, history
<1>2. PICK g \in BOOLEAN : finished' = g /\ Goto(t, IF g THEN "give_up" ELSE "schedule")
  BY <1>1 DEF HandleTerminal
<1>3. pc' = [pc EXCEPT ![t] = IF finished' THEN "give_up" ELSE "schedule"]
      /\ UNCHANGED <<resp, ref, own, at>>
  BY <1>2 DEF Goto
<1> QED BY <1>1, <1>3 DEF ShapeInv

LEMMA SpoiltMany ==
    ASSUME ManyInv, TypeInv', NEW t \in Threads, HandleTerminal(t), lastReplay' # lastReplay
    PROVE  ManyInv'
<1>1. /\ pc[t] = "terminal" /\ ~finished /\ lastReplay' = 0 /\ t \in Streams
      /\ UNCHANGED <<stopping, base, seen, sinks, published, pos, life, box, resp, ref, own, at>>
      /\ \A x \in Threads : x # t => pc'[x] = pc[x]
      /\ pc'[t] = IF finished' THEN "give_up" ELSE "schedule"
  BY Spoilt DEF ManyInv, TypeInv
<1>2. \A x \in Streams : /\ pc'[x] \in InHand \/ pc[x] \in InHand => pc'[x] = pc[x]
                         /\ First(x)' = First(x)
  BY <1>1, Apart DEF InHand, First
<1>3. base' <= StartPosition'
  BY <1>1 DEF ManyInv, StartPosition
<1>4. BoxInv'
  BY <1>1, <1>2 DEF ManyInv, BoxInv, BoxOf, InHand
<1>5. QuietInv'
  BY <1>1 DEF ManyInv, QuietInv
<1>6. CoverInv'
  <2> SUFFICES ASSUME Heard' PROVE CoverInv'
    BY DEF CoverInv
  <2>1. Heard /\ \A n : Covered(n) => Covered(n)'
    BY <1>1 DEF Heard, Covered
  <2>2. \A x \in Threads : pc'[x] = "write" => Covered(at[x])'
    BY <1>1, <2>1 DEF ManyInv, CoverInv
  <2>3. ASSUME NEW x \in Streams PROVE CoverOf(x)'
    BY <1>1, <1>2, <2>1 DEF ManyInv, CoverInv, CoverOf, InHand
  <2>4. Covered(lastReplay)'
    BY <1>1 DEF Covered
  <2> QED BY <2>2, <2>3, <2>4 DEF CoverInv
<1> QED BY <1>3, <1>4, <1>5, <1>6 DEF ManyInv

\* An event delivered, or a callback that throws.
LEMMA OnEventMany ==
    ASSUME ManyInv, TypeInv', NEW s \in Streams, OnEvent(s)
    PROVE  ManyInv'
<1>1. pc[s] = "event" /\ UNCHANGED <<stopping, finished, lastReplay, base, sinks, published, pos>>
  BY DEF OnEvent, flags
<1>2. CASE Collapse(s) /\ HandedAgain(resp[s].from)
  <2>1. \A e \in 1..MaxEvents : seen[e] > 0 => seen'[e] > 0
    BY <1>2 DEF HandedAgain, ManyInv, TypeInv, RangeInv, SharedRange
  <2> QED BY <1>1, <1>2, <2>1, CollapseMany
<1>3. CASE ~(Collapse(s) /\ HandedAgain(resp[s].from))
  <2>1. /\ seen' = IF sinks /\ seen[resp[s].from] < 2
                   THEN [seen EXCEPT ![resp[s].from] = @ + 1] ELSE seen
        /\ Goto(s, "advance") /\ UNCHANGED <<life, box>>
    BY <1>3 DEF OnEvent, CallbackThrows, wire
  <2> QED BY <1>1, <2>1, DeliveredMany
<1> QED BY <1>2, <1>3

LEMMA KeepaliveMany ==
    ASSUME ManyInv, TypeInv', NEW s \in Streams, Keepalive(s)
    PROVE  ManyInv'
<1>1. /\ pc[s] = "keepalive"
      /\ lastReplay' = IF resp[s].to # 0 THEN resp[s].to ELSE lastReplay
      /\ UNCHANGED <<stopping, finished, base, seen, sinks, published, pos>>
  BY DEF Keepalive, flags, history
<1>2. CASE Goto(s, "flow") /\ UNCHANGED <<life, wire>>
  BY <1>1, <1>2, AdoptedMany DEF wire
<1>3. CASE Collapse(s)
  <2>1. \A x \in Streams : /\ life'[x] = IF x = s THEN "ended" ELSE life[x]
                           /\ box'[x] = IF x = s THEN <<>> ELSE box[x]
    BY <1>3 DEF Collapse, ManyInv, TypeInv, ShapeInv, RangeInv, SharedRange
  <2>2. Goto(s, "terminal")
    BY <1>3 DEF Collapse
  <2> QED BY <1>1, <2>1, <2>2, AdoptedMany
<1> QED BY <1>2, <1>3 DEF Keepalive, CallbackThrows

LEMMA NextMany == ASSUME ManyInv, [Next]_vars PROVE ManyInv'
<1>1. TypeInv'
  BY NextTypes DEF ManyInv
<1>2. AlongStep \/ \E t \in Threads : AsideStep(t)
  BY AlongOrAside DEF ManyInv
<1>3. ASSUME NEW s \in Streams, StreamTerminates(s) \/ (WriteThrows(s) /\ Collapse(s))
      PROVE  ManyInv'
  BY <1>1, <1>3, CollapseMany DEF StreamTerminates, WriteThrows, flags, history
<1> QED BY <1>1, <1>2, <1>3, AsideMany, RespondMany, TakeResponseMany, OnEventMany, AdvanceMany,
           KeepaliveMany, OpenedMany, SpoiltMany DEF AlongStep

LEMMA InitMany == Init => ManyInv
<1> SUFFICES ASSUME Init PROVE ManyInv
  OBVIOUS
<1>1. TypeInv
  BY InitTypes
<1>2. /\ \A t \in Threads : pc[t] \in {"wait", "idle"}
      /\ \A s \in Streams : s \in Threads /\ life[s] = "unused" /\ box[s] = <<>>
      /\ sinks /\ lastReplay = 0 /\ base = StartPosition
  BY Apart DEF Init, Home
<1>3. base <= StartPosition
  BY <1>1, <1>2, BoundsAssumption DEF TypeInv, RangeInv, SharedRange
<1>4. BoxInv
  <2>1. \A s \in Streams : Contiguous(<<>>, pos[s])
    BY EmptySeq DEF Contiguous
  <2> QED BY <1>2, <2>1 DEF BoxInv, BoxOf, InHand
<1>5. QuietInv
  BY <1>2 DEF QuietInv
<1>6. CoverInv
  BY <1>2 DEF CoverInv, CoverOf, Covered, InHand
<1> QED BY <1>1, <1>3, <1>4, <1>5, <1>6 DEF ManyInv

\* Until it is stopped or gives up, a subscription has no event behind its position that
\* the consumer did not see: also one that runs two streams at a time, because a
\* stream ended before its first request or a user granted credit while one was opened,
\* and whose opening request then goes to the stream of another thread
\* (openStream(), sendFetchRequest(), handleResponse()).
AllHeard == Heard => Unseen = {}

THEOREM NothingMissed == Spec => []AllHeard
<1>1. ManyInv => AllHeard
  <2> SUFFICES ASSUME ManyInv, Heard, NEW e \in Unseen PROVE FALSE
    BY DEF AllHeard
  <2>1. e \in 1..MaxEvents /\ seen[e] = 0 /\ seen[e] > 0
    BY DEF ManyInv, CoverInv, Covered, Unseen
  <2> QED BY <2>1
<1> QED BY <1>1, InitMany, NextMany, PTL DEF Spec

-----------------------------------------------------------------------------
\* The one stream there is

LEMMA OnlyOne ==
    ASSUME HoldInv, NEW s \in Streams, life[s] \in Alive
    PROVE  /\ \A q \in Streams : life[q] \in Alive => q = s
           /\ ~finished
<1>1. Has("stream", s)
  BY DEF Has
<1>2. \A q \in Streams : life[q] \in Alive => Has("stream", q)
  BY DEF Has
<1> QED BY <1>1, <1>2, Apart DEF HoldInv, TokenInv, Kinds

\* While a stream delivers it is the only one, and no thread opens another.
LEMMA Alone ==
    ASSUME HoldInv, QuietInv, NEW s \in Streams, life[s] \in {"asked", "closed"}
    PROVE  /\ sinks /\ ~finished
           /\ \A x \in Streams \ {s} :
                 life[x] \in {"unused", "ended"} /\ pc[x] \notin InHand
           /\ \A x \in Streams : life[x] # "opened"
<1>1. \A x \in Streams : life[x] \in {"unused", "opened", "asked", "closed", "ended"}
  BY DEF HoldInv, ShapeInv
<1>2. ~finished /\ \A x \in Streams \ {s} : life[x] \in {"unused", "ended"}
  BY <1>1, OnlyOne DEF Alive
<1>3. \A x \in Streams \ {s} : pc[x] \notin InHand
  BY <1>2 DEF InHand, HoldInv, RolesInv, WorkInv, Working
<1> QED BY <1>2, <1>3 DEF QuietInv

\* A step along the chain is that of a subscription that has not given up.
LEMMA AlongAlive ==
    ASSUME HoldInv, AlongStep
    PROVE  ~finished /\ UNCHANGED sinks
<1>1. ASSUME NEW s \in Streams,
             \/ Respond(s) \/ TakeResponse(s) \/ OnEvent(s) \/ Advance(s) \/ Keepalive(s)
             \/ StreamTerminates(s) \/ (WriteThrows(s) /\ Collapse(s))
      PROVE  ~finished /\ UNCHANGED sinks
  <2>1. life[s] \in Alive
    <3>1. \/ life[s] \in Alive
          \/ pc[s] \in {"event", "advance", "keepalive", "write"}
      BY <1>1 DEF Respond, TakeResponse, OnEvent, Advance, Keepalive, StreamTerminates,
                  WriteThrows, Alive
    <3> QED BY <3>1 DEF HoldInv, RolesInv, WorkInv, Working, Alive
  <2>2. UNCHANGED sinks
    BY <1>1 DEF Respond, TakeResponse, OnEvent, Advance, Keepalive, StreamTerminates, WriteThrows
  <2> QED BY <2>1, <2>2, OnlyOne
<1>2. ASSUME NEW t \in Threads, WriteSucceeds(t), call[t] = "open", life[ref[t]] = "opened"
      PROVE  ~finished /\ UNCHANGED sinks
  <2>1. ref[t] \in Streams
    BY <1>2, Whereabouts
       DEF WriteSucceeds, HoldInv, RolesInv, LaunchInv, Unasked, WorkInv, UserInv, Launching
  <2> QED BY <1>2, <2>1, OnlyOne DEF WriteSucceeds, Alive
<1>3. ASSUME NEW t \in Threads, HandleTerminal(t), lastReplay' # lastReplay
      PROVE  ~finished /\ UNCHANGED sinks
  BY <1>3 DEF HandleTerminal
<1> QED BY <1>1, <1>2, <1>3 DEF AlongStep

\* So a subscription that gives up goes on with the position it has.
LEMMA SeenKeeps ==
    ASSUME HoldInv, ManyInv, ManyInv', SeenInv, [Next]_vars
    PROVE  SeenInv'
<1>1. AlongStep \/ \E t \in Threads : AsideStep(t)
  BY AlongOrAside DEF ManyInv
<1>2. CASE Heard'
  BY <1>2 DEF ManyInv, CoverInv, SeenInv
<1>3. CASE AlongStep /\ ~Heard'
  <2>1. sinks'
    BY <1>3, AlongAlive DEF ManyInv, QuietInv
  <2> QED BY <1>3, <2>1 DEF SeenInv, Heard
<1>4. CASE \E t \in Threads : AsideStep(t)
  BY <1>4 DEF AsideStep, SeenInv, Covered
<1> QED BY <1>1, <1>2, <1>3, <1>4

\* Where no stream is opened, no thread is about to write an opening request.
LEMMA NoneOpening ==
    ASSUME HoldInv, \A x \in Streams : life'[x] # "opened",
           \A o \in Launchers : pc'[o] = "write" => pc[o] = "write" /\ ref'[o] = ref[o]
    PROVE  ReopenInv'
  BY DEF HoldInv, RolesInv, LaunchInv, Unasked, Launching, ReopenInv

\* Before the position come only numbers of events.
LEMMA HereIsNat ==
    ASSUME RangeInv
    PROVE  lastReplay \in Nat /\ base \in Nat /\ Here \in Nat /\ lastReplay <= Here
  BY BoundsAssumption DEF RangeInv, SharedRange, Here

\* Steps beside the chain keep it.
LEMMA AsideKeeps ==
    ASSUME HoldInv, ManyInv, DeliveryInv, NEW t \in Threads, AsideStep(t)
    PROVE  DeliveryInv'
<1>1. \A s \in Streams : \/ pc'[s] = pc[s] /\ resp'[s] = resp[s]
                         \/ pc[s] \notin InHand /\ pc'[s] \notin InHand
  BY Apart DEF AsideStep, Elsewhere
<1>2. ChainInv'
  <2> SUFFICES ASSUME NEW s \in Streams, life'[s] \in {"asked", "closed"}
               PROVE  /\ pc'[s] \in {"event", "advance"} =>
                            Here' < resp'[s].from /\ (stopping' \/ resp'[s].from = Here' + 1)
                      /\ pc'[s] = "keepalive" =>
                            Here' <= resp'[s].to /\ (stopping' \/ Here' = resp'[s].to)
                      /\ pc'[s] \notin InHand /\ (life'[s] = "asked" \/ box'[s] # <<>>) =>
                            Here' < First(s)' /\ (stopping' \/ First(s)' = Here' + 1)
    BY DEF ChainInv
  <2>1. Here' = Here /\ First(s)' = First(s)
    BY DEF AsideStep, Here, First
  <2>2. CASE life[s] \in {"asked", "closed"}
    BY <1>1, <2>1, <2>2 DEF AsideStep, DeliveryInv, ChainInv, InHand
  <2>3. CASE life[s] = "opened" /\ life'[s] = "closed"
    <3>1. box'[s] = <<>>
      BY <2>3 DEF AsideStep, ManyInv, BoxInv, BoxOf
    <3>2. pc'[s] \notin InHand
      BY <1>1, <2>3 DEF ManyInv, BoxInv, BoxOf
    <3> QED BY <2>3, <3>1, <3>2 DEF InHand
  <2> QED BY <2>2, <2>3 DEF AsideStep
<1>3. OnceInv'
  <2>1. \A s \in Streams : pc'[s] = "advance" <=> pc[s] = "advance"
    BY <1>1 DEF InHand
  <2>2. \A s \in Streams : pc[s] = "advance" => resp'[s] = resp[s]
    BY <1>1 DEF InHand
  <2> QED BY <2>1, <2>2 DEF AsideStep, DeliveryInv, OnceInv, Uncorrupted
<1>4. ReopenInv'
  <2> SUFFICES ASSUME NEW o \in Launchers, pc'[o] = "write", life'[ref'[o]] = "opened"
               PROVE  at'[o] = lastReplay'
    BY DEF ReopenInv
  <2>1. CASE o = t /\ at'[t] = lastReplay
    BY <2>1 DEF AsideStep
  <2>2. CASE ~(o = t /\ at'[t] = lastReplay)
    <3>1. pc[o] = "write" /\ ref'[o] = ref[o] /\ at'[o] = at[o]
      BY <2>2, Apart DEF AsideStep, Elsewhere
    <3>2. ref[o] \in Streams /\ life[ref[o]] # "unused"
      BY <3>1 DEF HoldInv, RolesInv, LaunchInv, Unasked
    <3> QED BY <3>1, <3>2 DEF AsideStep, DeliveryInv, ReopenInv
  <2> QED BY <2>1, <2>2
<1> QED BY <1>2, <1>3, <1>4 DEF DeliveryInv

LEMMA TakeResponseKeeps ==
    ASSUME HoldInv, ManyInv, DeliveryInv, NEW s \in Streams, TakeResponse(s)
    PROVE  DeliveryInv'
<1> DEFINE r == Head(box[s])
<1>1. /\ pc[s] = "wait" /\ life[s] \in {"asked", "closed"} /\ box[s] # <<>>
      /\ UNCHANGED <<stopping, lastReplay, base, seen, life, corrupt, ref, own, at>>
      /\ \A x \in Streams : resp'[x] = IF x = s THEN r ELSE resp[x]
      /\ \A x \in Threads : pc'[x] = IF x # s THEN pc[x]
                                     ELSE IF r.from > r.to THEN "keepalive" ELSE "event"
      /\ r \in Response /\ r.from = First(s) /\ r.from <= r.to + 1
  BY Taken DEF ManyInv, TypeInv
<1>2. r.from \in Nat /\ r.to \in Nat
  BY <1>1, BoundsAssumption DEF Response
<1> HIDE DEF r
<1>3. ChainInv'
  <2>1. Here < r.from /\ (stopping \/ r.from = Here + 1)
    BY <1>1 DEF DeliveryInv, ChainInv, InHand
  <2>2. Here' = Here /\ Here \in Nat
    BY <1>1, HereIsNat DEF Here, ManyInv, TypeInv
  <2>3. \A x \in Streams : life'[x] \in {"asked", "closed"} => x = s
    BY <1>1, Alone DEF ManyInv
  <2>4. resp'[s] = r /\ pc'[s] = IF r.from > r.to THEN "keepalive" ELSE "event"
    BY <1>1, Apart
  <2>5. pc'[s] = "keepalive" => r.from = r.to + 1
    BY <1>1, <1>2, <2>4
  <2> QED BY <1>1, <1>2, <2>1, <2>2, <2>3, <2>4, <2>5 DEF ChainInv, InHand
<1>4. OnceInv'
  BY <1>1, Apart DEF DeliveryInv, OnceInv, Uncorrupted
<1>5. ReopenInv'
  <2>1. \A x \in Streams : life'[x] # "opened"
    BY <1>1, Alone DEF ManyInv
  <2> QED BY <1>1, <2>1, NoneOpening, Apart
<1> QED BY <1>3, <1>4, <1>5 DEF DeliveryInv

LEMMA RespondKeeps ==
    ASSUME HoldInv, ManyInv, DeliveryInv, NEW s \in Streams, Respond(s)
    PROVE  DeliveryInv'
<1>1. /\ UNCHANGED <<stopping, lastReplay, base, seen, life, corrupt, pc, resp, ref, own, at>>
      /\ life[s] = "asked" /\ First(s)' = First(s)
      /\ \A x \in Streams \ {s} : pos'[x] = pos[x] /\ box'[x] = box[x]
  BY Responded DEF ManyInv, TypeInv
<1>2. ChainInv'
  <2>1. \A x \in Streams : First(x)' = First(x)
    BY <1>1 DEF First
  <2>2. Here' = Here
    BY <1>1 DEF Here
  <2> QED BY <1>1, <2>1, <2>2 DEF DeliveryInv, ChainInv
<1>3. OnceInv' /\ ReopenInv'
  BY <1>1 DEF DeliveryInv, OnceInv, ReopenInv, Uncorrupted
<1> QED BY <1>2, <1>3 DEF DeliveryInv

\* While an event is delivered, the position is just before it.
LEMMA EventInHand ==
    ASSUME HoldInv, ManyInv, DeliveryInv, NEW s \in Streams, pc[s] \in {"event", "advance"}
    PROVE  /\ life[s] \in {"asked", "closed"}
           /\ resp[s].from \in 1..MaxEvents /\ resp[s].to \in Nat
           /\ resp[s].from <= resp[s].to /\ resp[s].to + 1 = First(s)
           /\ Here < resp[s].from /\ (stopping \/ resp[s].from = Here + 1)
           /\ lastReplay < resp[s].from
<1>1. /\ life[s] \in {"asked", "closed"}
      /\ resp[s].from \in 1..MaxEvents /\ resp[s].to \in Nat
      /\ resp[s].from <= resp[s].to /\ resp[s].to + 1 = First(s)
  BY EventRanged
<1>2. Here < resp[s].from /\ (stopping \/ resp[s].from = Here + 1)
  BY <1>1 DEF DeliveryInv, ChainInv
<1> QED BY <1>1, <1>2, HereIsNat DEF ManyInv, TypeInv

\* While no position is given up, the event to be delivered was not seen before.
LEMMA FirstTime ==
    ASSUME HoldInv, ManyInv, DeliveryInv, NEW s \in Streams, pc[s] = "event", Uncorrupted
    PROVE  seen[resp[s].from] = 0
<1>1. /\ life[s] \in {"asked", "closed"} /\ resp[s].from \in 1..MaxEvents
      /\ lastReplay < resp[s].from /\ lastReplay \in Nat
  BY EventInHand, HereIsNat DEF ManyInv, TypeInv
<1>2. \A x \in Streams : pc[x] # "advance"
  BY <1>1, Alone DEF ManyInv, InHand
<1>3. seen[resp[s].from] < 2 /\ (seen[resp[s].from] = 1 => resp[s].from <= lastReplay)
  BY <1>1, <1>2 DEF DeliveryInv, OnceInv
<1>4. seen[resp[s].from] \in 0..2
  BY <1>1 DEF ManyInv, TypeInv, RangeInv, SharedRange
<1> QED BY <1>1, <1>3, <1>4

LEMMA DeliveredKeeps ==
    ASSUME HoldInv, ManyInv, DeliveryInv, NEW s \in Streams, pc[s] = "event",
           Goto(s, "advance"),
           seen' = IF sinks /\ seen[resp[s].from] < 2
                   THEN [seen EXCEPT ![resp[s].from] = @ + 1] ELSE seen,
           UNCHANGED <<stopping, lastReplay, base, sinks, pos, life, corrupt, box>>
    PROVE  DeliveryInv'
<1> DEFINE e == resp[s].from
<1>1. /\ life[s] \in {"asked", "closed"} /\ e \in 1..MaxEvents /\ Here < e
      /\ lastReplay < e /\ (stopping \/ e = Here + 1) /\ lastReplay \in Nat
  BY EventInHand, HereIsNat DEF ManyInv, TypeInv
<1>2. /\ \A x \in Threads : pc'[x] = IF x = s THEN "advance" ELSE pc[x]
      /\ UNCHANGED <<resp, ref, own, at>>
      /\ seen[e] \in 0..2
      /\ seen'[e] = IF sinks /\ seen[e] < 2 THEN seen[e] + 1 ELSE seen[e]
      /\ \A x \in 1..MaxEvents : x # e => seen'[x] = seen[x]
  BY Delivered
<1>3. /\ sinks /\ \A x \in Streams : life[x] # "opened"
      /\ \A x \in Streams \ {s} : life[x] \in {"unused", "ended"} /\ pc[x] \notin InHand
  BY <1>1, Alone DEF ManyInv
<1>4. \A x \in Streams : pc[x] # "advance"
  BY <1>3 DEF InHand
<1>5. Uncorrupted => seen[e] = 0
  BY FirstTime
<1>6. OnceInv'
  <2>1. ASSUME NEW x \in 1..MaxEvents, Uncorrupted
        PROVE  /\ seen'[x] < 2
               /\ seen'[x] = 1 => \/ x <= lastReplay'
                                  \/ \E y \in Streams : pc'[y] = "advance" /\ resp'[y].from = x
    <3>1. CASE x = e
      BY <1>1, <1>2, <1>5, <2>1, <3>1, Apart
    <3>2. CASE x # e
      BY <1>2, <1>4, <2>1, <3>2 DEF DeliveryInv, OnceInv
    <3> QED BY <3>1, <3>2
  <2> QED BY <2>1 DEF DeliveryInv, OnceInv, Uncorrupted
<1>7. ChainInv'
  <2>1. Here' = Here
    BY DEF Here
  <2>2. \A x \in Streams : life'[x] \in {"asked", "closed"} => x = s
    BY <1>3
  <2>3. pc'[s] = "advance" /\ resp'[s] = resp[s]
    BY <1>2, Apart
  <2> QED BY <1>1, <2>1, <2>2, <2>3 DEF ChainInv, InHand
<1>8. ReopenInv'
  BY <1>2, <1>3, NoneOpening, Apart
<1> QED BY <1>6, <1>7, <1>8 DEF DeliveryInv

LEMMA AdvanceKeeps ==
    ASSUME HoldInv, ManyInv, DeliveryInv, NEW s \in Streams, Advance(s)
    PROVE  DeliveryInv'
<1>1. PICK e : e = resp[s].from
  OBVIOUS
<1>2. /\ pc[s] = "advance" /\ lastReplay' = e
      /\ UNCHANGED <<stopping, base, seen, pos, life, corrupt, box>>
      /\ \A x \in Threads \ {s} : pc'[x] = pc[x] /\ ref'[x] = ref[x] /\ own'[x] = own[x] /\ at'[x] = at[x]
      /\ \/ stopping /\ pc'[s] = "wait"
         \/ e < resp[s].to /\ pc'[s] = "event" /\ resp'[s].from = e + 1
         \/ ~(e < resp[s].to) /\ pc'[s] = "flow"
  BY <1>1, Advanced DEF ManyInv, TypeInv
<1>3. /\ life[s] \in {"asked", "closed"} /\ e \in 1..MaxEvents /\ e \in Nat
      /\ resp[s].to \in Nat /\ e <= resp[s].to /\ resp[s].to + 1 = First(s)
      /\ lastReplay < e /\ lastReplay \in Nat
  BY <1>1, <1>2, EventInHand, HereIsNat DEF ManyInv, TypeInv
<1>4. /\ \A x \in Streams : life[x] # "opened"
      /\ \A x \in Streams \ {s} : life[x] \in {"unused", "ended"} /\ pc[x] \notin InHand
  BY <1>3, Alone DEF ManyInv
<1>5. ChainInv'
  <2>1. Here' = e /\ First(s)' = First(s)
    BY <1>2, <1>3 DEF Here, First
  <2>2. \A x \in Streams : life'[x] \in {"asked", "closed"} => x = s
    BY <1>2, <1>4
  <2> QED BY <1>2, <1>3, <2>1, <2>2 DEF ChainInv, InHand
<1>6. OnceInv'
  <2>1. ASSUME NEW x \in 1..MaxEvents, Uncorrupted
        PROVE  seen[x] < 2 /\ (seen[x] = 1 => x <= e)
    <3>1. seen[x] < 2 /\ (seen[x] = 1 => x <= lastReplay \/ x = e)
      BY <1>1, <1>4, <2>1 DEF DeliveryInv, OnceInv, InHand
    <3> QED BY <1>3, <3>1
  <2> QED BY <1>2, <2>1 DEF DeliveryInv, OnceInv, Uncorrupted
<1>7. ReopenInv'
  BY <1>2, <1>4, NoneOpening, Apart
<1> QED BY <1>5, <1>6, <1>7 DEF DeliveryInv

\* The stream goes on with an empty batch, which has the position the subscription had.
LEMMA AdoptedKeeps ==
    ASSUME HoldInv, ManyInv, DeliveryInv, NEW s \in Streams, pc[s] = "keepalive",
           NEW l \in {"flow", "terminal"}, Goto(s, l),
           \A x \in Streams \ {s} : life'[x] = life[x],
           \/ l = "flow" /\ UNCHANGED <<life, box>>
           \/ l = "terminal" /\ life'[s] = "ended",
           lastReplay' = IF resp[s].to # 0 THEN resp[s].to ELSE lastReplay,
           UNCHANGED <<stopping, base, seen, pos, corrupt>>
    PROVE  DeliveryInv'
<1>1. /\ \A x \in Threads : pc'[x] = IF x = s THEN l ELSE pc[x]
      /\ UNCHANGED <<resp, ref, own, at>>
  BY Apart DEF Goto, ManyInv, TypeInv, ShapeInv
<1>2. life[s] \in {"asked", "closed"} /\ resp[s].to \in Nat /\ resp[s].to + 1 = First(s)
  BY KeepaliveRanged
<1>3. /\ Here <= resp[s].to
      /\ lastReplay \in Nat /\ base \in Nat /\ Here \in Nat /\ lastReplay <= Here
  BY <1>2, HereIsNat DEF DeliveryInv, ChainInv, ManyInv, TypeInv
<1>4. /\ \A x \in Streams : life[x] # "opened"
      /\ \A x \in Streams \ {s} : life[x] \in {"unused", "ended"} /\ pc[x] \notin InHand
  BY <1>2, Alone DEF ManyInv
<1>5. pc'[s] = l /\ \A x \in Streams : pc[x] # "advance" /\ pc'[x] # "advance"
  BY <1>1, <1>4, Apart DEF InHand
<1>6. ChainInv'
  <2>1. Here' = resp[s].to
    BY <1>2, <1>3 DEF Here
  <2>2. \A x \in Streams : life'[x] \in {"asked", "closed"} => x = s /\ l = "flow"
    BY <1>4
  <2>3. l = "flow" => First(s)' = First(s)
    BY DEF First
  <2> QED BY <1>2, <1>5, <2>1, <2>2, <2>3 DEF ChainInv, InHand
<1>7. OnceInv'
  <2>1. ASSUME NEW x \in 1..MaxEvents, Uncorrupted
        PROVE  seen[x] < 2 /\ (seen[x] = 1 => x <= lastReplay')
    <3>1. seen[x] < 2 /\ (seen[x] = 1 => x <= lastReplay)
      BY <1>5, <2>1 DEF DeliveryInv, OnceInv
    <3>2. lastReplay <= lastReplay' /\ lastReplay' \in Nat
      BY <1>2, <1>3
    <3> QED BY <1>3, <3>1, <3>2
  <2> QED BY <2>1 DEF DeliveryInv, OnceInv, Uncorrupted
<1>8. ReopenInv'
  <2>1. \A x \in Streams : life'[x] # "opened"
    BY <1>4
  <2> QED BY <1>1, <2>1, NoneOpening, Apart
<1> QED BY <1>6, <1>7, <1>8 DEF DeliveryInv

\* The stream ends: what it has not delivered is dropped, and comes again from the
\* position.
LEMMA CollapseKeeps ==
    ASSUME HoldInv, ManyInv, DeliveryInv, NEW s \in Streams, Collapse(s), pc[s] # "advance",
           life[s] \in Alive, UNCHANGED <<stopping, lastReplay, base, pos, corrupt>>,
           Uncorrupted => UNCHANGED seen
    PROVE  DeliveryInv'
<1>1. /\ \A x \in Threads : pc'[x] = IF x = s THEN "terminal" ELSE pc[x]
      /\ UNCHANGED <<resp, ref, own, at>>
  BY Going, Apart DEF Collapse, Goto, HoldInv
<1>2. \A x \in Streams : /\ life'[x] = IF x = s THEN "ended" ELSE life[x]
                         /\ life'[x] \notin Alive
  BY OnlyOne DEF Collapse, HoldInv, ShapeInv, Alive
<1>3. ChainInv' /\ OnceInv'
  BY <1>1, <1>2, Apart DEF ChainInv, Alive, DeliveryInv, OnceInv, Uncorrupted
<1>4. ReopenInv'
  BY <1>1, <1>2, NoneOpening, Apart DEF Alive
<1> QED BY <1>3, <1>4 DEF DeliveryInv

\* The opening request takes the chain up where the position is.
LEMMA OpenedKeeps ==
    ASSUME HoldInv, ManyInv, DeliveryInv, NEW t \in Threads, WriteSucceeds(t),
           call[t] = "open", life[ref[t]] = "opened"
    PROVE  DeliveryInv'
<1>1. /\ t \in Launchers /\ pc[t] = "write"
      /\ UNCHANGED <<stopping, lastReplay, seen, box, corrupt>>
  BY Whereabouts DEF WriteSucceeds, flags, wire, HoldInv, RolesInv, WorkInv, UserInv
<1>2. PICK s \in Streams : s = ref[t] /\ life[s] = "opened" /\ at[t] = lastReplay
  BY <1>1 DEF HoldInv, RolesInv, LaunchInv, Unasked, Launching, DeliveryInv, ReopenInv
<1>3. /\ \A x \in Streams : life'[x] = IF x = s THEN "asked" ELSE life[x]
      /\ pos'[s] = IF lastReplay # 0 THEN lastReplay ELSE StartPosition
      /\ base' = IF lastReplay # 0 THEN base ELSE StartPosition
  BY <1>2 DEF WriteSucceeds, ManyInv, TypeInv, ShapeInv, RangeInv, SharedRange
<1>4. /\ \A x \in Threads : pc'[x] = IF x = t THEN "book" ELSE pc[x]
      /\ UNCHANGED <<resp, ref, own, at>>
  BY Going DEF WriteSucceeds, Goto, HoldInv
<1>5. \A x \in Streams \ {s} : life[x] \notin Alive
  BY <1>2, OnlyOne DEF Alive
<1>6. box[s] = <<>> /\ pc[s] \notin InHand
  BY <1>2 DEF ManyInv, BoxInv, BoxOf
<1>7. StartPosition \in Nat /\ lastReplay \in Nat
  BY BoundsAssumption DEF StartPosition, ManyInv, TypeInv, RangeInv, SharedRange
<1>8. \A x \in Streams : pc'[x] = pc[x]
  BY <1>1, <1>4, Apart
<1>9. ChainInv'
  <2>1. First(s)' = Here' + 1 /\ Here' < First(s)'
    BY <1>1, <1>3, <1>6, <1>7 DEF First, Begin, Here
  <2>2. \A x \in Streams : life'[x] \in {"asked", "closed"} => x = s
    BY <1>3, <1>5 DEF Alive
  <2> QED BY <1>6, <1>8, <2>1, <2>2 DEF ChainInv, InHand
<1>10. OnceInv'
  BY <1>1, <1>4, <1>8 DEF DeliveryInv, OnceInv, Uncorrupted
<1>11. ReopenInv'
  <2>1. \A x \in Streams : life'[x] # "opened"
    BY <1>3, <1>5 DEF Alive
  <2> QED BY <1>4, <2>1, NoneOpening, Apart
<1> QED BY <1>9, <1>10, <1>11 DEF DeliveryInv

\* A position is given up when the stream has ended, and no other stream goes by it.
LEMMA SpoiltKeeps ==
    ASSUME HoldInv, ManyInv, DeliveryInv, NEW t \in Threads, HandleTerminal(t),
           lastReplay' # lastReplay
    PROVE  DeliveryInv'
<1>1. /\ pc[t] = "terminal" /\ ~stopping /\ t \in Streams /\ corrupt[t]
      /\ UNCHANGED <<life, corrupt, ref, own>>
      /\ \A x \in Threads : x # t => pc'[x] = pc[x]
  BY Spoilt DEF ManyInv, TypeInv
<1>2. \A x \in Streams : life[x] \notin Alive
  <2>1. Has("end", t) /\ t \in Holders /\ \A x \in Streams : x \in Holders
    BY <1>1, Apart DEF Has
  <2>2. \A x \in Streams : life[x] \in Alive => Has("stream", x)
    BY DEF Has
  <2> QED BY <2>1, <2>2 DEF HoldInv, TokenInv, Kinds
<1>3. ChainInv' /\ OnceInv'
  BY <1>1, <1>2 DEF ChainInv, Alive, DeliveryInv, OnceInv, Uncorrupted
<1>4. ReopenInv'
  <2>1. \A x \in Streams : life'[x] # "opened"
    BY <1>1, <1>2 DEF Alive
  <2> QED BY <1>1, <2>1, NoneOpening, Apart
<1> QED BY <1>3, <1>4 DEF DeliveryInv

-----------------------------------------------------------------------------
\* Every step

\* An event delivered, or a callback that throws.
LEMMA OnEventKeeps ==
    ASSUME HoldInv, ManyInv, DeliveryInv, NEW s \in Streams, OnEvent(s)
    PROVE  DeliveryInv'
<1>1. pc[s] = "event" /\ UNCHANGED <<stopping, lastReplay, base, sinks, pos, corrupt>>
  BY DEF OnEvent, flags
<1>2. CASE Collapse(s) /\ HandedAgain(resp[s].from)
  <2>1. Uncorrupted => UNCHANGED seen
    BY <1>1, <1>2, FirstTime DEF HandedAgain
  <2> QED BY <1>1, <1>2, <2>1, CollapseKeeps DEF HoldInv, RolesInv, WorkInv, Working, Alive
<1>3. CASE ~(Collapse(s) /\ HandedAgain(resp[s].from))
  <2>1. /\ seen' = IF sinks /\ seen[resp[s].from] < 2
                   THEN [seen EXCEPT ![resp[s].from] = @ + 1] ELSE seen
        /\ Goto(s, "advance") /\ UNCHANGED <<life, box>>
    BY <1>3 DEF OnEvent, CallbackThrows, wire
  <2> QED BY <1>1, <2>1, DeliveredKeeps
<1> QED BY <1>2, <1>3

LEMMA KeepaliveKeeps ==
    ASSUME HoldInv, ManyInv, DeliveryInv, NEW s \in Streams, Keepalive(s)
    PROVE  DeliveryInv'
<1>1. /\ pc[s] = "keepalive"
      /\ lastReplay' = IF resp[s].to # 0 THEN resp[s].to ELSE lastReplay
      /\ UNCHANGED <<stopping, base, seen, pos, corrupt>>
  BY DEF Keepalive, flags, history
<1>2. CASE Goto(s, "flow") /\ UNCHANGED <<life, wire>>
  BY <1>1, <1>2, AdoptedKeeps DEF wire
<1>3. CASE Collapse(s)
  <2>1. \A x \in Streams : life'[x] = IF x = s THEN "ended" ELSE life[x]
    BY <1>3 DEF Collapse, HoldInv, ShapeInv
  <2>2. Goto(s, "terminal")
    BY <1>3 DEF Collapse
  <2> QED BY <1>1, <2>1, <2>2, AdoptedKeeps
<1> QED BY <1>2, <1>3 DEF Keepalive, CallbackThrows

LEMMA NextDelivers ==
    ASSUME HoldInv, ManyInv, DeliveryInv, [Next]_vars
    PROVE  DeliveryInv'
<1>1. AlongStep \/ \E t \in Threads : AsideStep(t)
  BY AlongOrAside DEF ManyInv
<1>2. ASSUME NEW s \in Streams, StreamTerminates(s) \/ (WriteThrows(s) /\ Collapse(s))
      PROVE  DeliveryInv'
  <2>1. /\ Collapse(s) /\ pc[s] # "advance" /\ (life[s] \in Alive \/ pc[s] = "write")
        /\ UNCHANGED <<stopping, lastReplay, base, seen, pos, corrupt>>
    BY <1>2 DEF StreamTerminates, WriteThrows, Alive, flags, history
  <2>2. life[s] \in Alive
    BY <2>1 DEF HoldInv, RolesInv, WorkInv, Working, Alive
  <2> QED BY <2>1, <2>2, CollapseKeeps
<1> QED BY <1>1, <1>2, AsideKeeps, RespondKeeps, TakeResponseKeeps, OnEventKeeps, AdvanceKeeps,
           KeepaliveKeeps, OpenedKeeps, SpoiltKeeps DEF AlongStep

LEMMA InitDelivery == Init => SeenInv /\ DeliveryInv
<1> SUFFICES ASSUME Init PROVE SeenInv /\ DeliveryInv
  OBVIOUS
<1>1. /\ \A t \in Threads : pc[t] \in {"wait", "idle"}
      /\ \A s \in Streams : s \in Threads /\ life[s] = "unused" /\ ~corrupt[s]
      /\ \A e \in 1..MaxEvents : seen[e] = 0
      /\ lastReplay = 0
  BY Apart DEF Init, Home
<1>2. SeenInv /\ ChainInv /\ OnceInv
  BY <1>1 DEF SeenInv, Covered, ChainInv, OnceInv
<1>3. ReopenInv
  BY <1>1, Apart DEF ReopenInv
<1> QED BY <1>2, <1>3 DEF DeliveryInv

LEMMA WholeInvariant == ASSUME Orderly PROVE Spec => []WholeInv
<1>1. Init => WholeInv
  BY InitHold, InitMany, InitDelivery DEF WholeInv
<1>2. WholeInv /\ [Next]_vars => WholeInv'
  BY NextHolds, NextMany, SeenKeeps, NextDelivers DEF WholeInv
<1> QED BY <1>1, <1>2, PTL DEF Spec

\* However its streams end, between any two of its steps, and whatever its callbacks
\* throw, a subscription never hands over again an event that on_event has returned
\* from (sendFetchRequest()'s replay position, deliverEvent()).
THEOREM NeverTwice == ASSUME Orderly, Uncorrupted PROVE Spec => []NoDuplicate
<1>1. WholeInv => NoDuplicate
  BY DEF WholeInv, DeliveryInv, OnceInv, NoDuplicate
<1> QED BY <1>1, WholeInvariant, PTL

\* And the position a reconnect resumes from has no event behind it that the
\* consumer did not see, also when a position was corrupted and given up, and when
\* the subscription gave up (deliverEvent(), handleResponse(), handleTerminal()).
THEOREM NothingSkipped == ASSUME Orderly PROVE Spec => []NoSkip
<1>1. WholeInv => NoSkip
  <2> SUFFICES ASSUME WholeInv, ~stopping, NEW e \in Unseen PROVE FALSE
    BY DEF NoSkip
  <2>1. e \in 1..MaxEvents /\ seen[e] = 0 /\ seen[e] > 0
    BY DEF WholeInv, SeenInv, Covered, Unseen
  <2> QED BY <2>1
<1> QED BY <1>1, WholeInvariant, PTL


-----------------------------------------------------------------------------
\* Nothing ahead of what was published

\* What stream s goes on with, what waits and what is in hand is about published events.
AheadOf(s) ==
    /\ pos[s] <= published
    /\ \A i \in 1..Len(box[s]) : box[s][i].to <= published
    /\ pc[s] \in InHand => resp[s].to <= published

AheadInv ==
    /\ lastReplay <= published
    /\ \A t \in Threads : pc[t] = "write" => at[t] <= published
    /\ \A s \in Streams : AheadOf(s)

LEMMA AsideAhead ==
    ASSUME ManyInv, AheadInv, NEW t \in Threads, AsideStep(t)
    PROVE  AheadInv'
<1>1. /\ published \in Nat /\ published' \in Nat /\ published <= published'
      /\ lastReplay \in Nat
  BY BoundsAssumption DEF AsideStep, ManyInv, TypeInv, RangeInv, SharedRange
<1>2. UNCHANGED <<lastReplay, pos, box>>
  BY DEF AsideStep
<1>3. ASSUME NEW x \in Threads, pc'[x] = "write" PROVE at'[x] <= published'
  <2>1. at[x] \in Nat
    BY BoundsAssumption DEF ManyInv, TypeInv, RangeInv, LocalsRange
  <2>2. at'[x] = lastReplay \/ (pc[x] = "write" /\ at'[x] = at[x])
    BY <1>3 DEF AsideStep, Elsewhere
  <2> QED BY <1>1, <2>1, <2>2 DEF AheadInv
<1>4. ASSUME NEW s \in Streams PROVE AheadOf(s)'
  <2>1. /\ pos[s] \in Nat /\ resp[s].to \in Nat
        /\ \A i \in 1..Len(box[s]) : box[s][i].to \in Nat
    <3>1. /\ pos[s] \in 0..MaxEvents /\ resp[s] \in Response /\ box[s] \in Seq(Response)
      BY DEF ManyInv, TypeInv, RangeInv, LocalsRange, SharedRange
    <3>2. \A i \in 1..Len(box[s]) : box[s][i] \in Response
      BY <3>1
    <3>3. \A r \in Response : r.to \in Nat
      BY BoundsAssumption DEF Response
    <3> QED BY <3>1, <3>2, <3>3, BoundsAssumption
  <2>2. pc'[s] \in InHand => pc[s] \in InHand /\ resp'[s] = resp[s]
    BY Apart DEF AsideStep, Elsewhere
  <2> QED BY <1>1, <1>2, <2>1, <2>2 DEF AheadInv, AheadOf
<1> QED BY <1>1, <1>2, <1>3, <1>4 DEF AheadInv

\* A step that is about stream s alone keeps what it keeps for s.
LEMMA AlongAhead ==
    ASSUME AheadInv, NEW s \in Streams, Elsewhere(s), UNCHANGED published,
           \A x \in Streams \ {s} : box'[x] = box[x] /\ pos'[x] = pos[x],
           lastReplay' <= published, pc'[s] = "write" => UNCHANGED <<pc, at>>,
           AheadOf(s)'
    PROVE  AheadInv'
<1>1. \A x \in Threads : pc'[x] = "write" => at'[x] <= published
  BY DEF AheadInv, Elsewhere
<1>2. \A x \in Streams \ {s} : AheadOf(x)'
  BY Apart DEF AheadInv, AheadOf, Elsewhere
<1> QED BY <1>1, <1>2 DEF AheadInv

LEMMA RespondAhead ==
    ASSUME ManyInv, AheadInv, NEW s \in Streams, Respond(s)
    PROVE  AheadInv'
<1>1. /\ UNCHANGED <<lastReplay, published, pc, resp, at>>
      /\ \A x \in Streams \ {s} : pos'[x] = pos[x] /\ box'[x] = box[x]
      /\ Elsewhere(s)
  BY Responded DEF ManyInv, TypeInv, Elsewhere
<1>2. box[s] \in Seq(Response) /\ pos[s] \in Nat /\ published \in Nat /\ credit[s] \in Nat
  BY BoundsAssumption DEF ManyInv, TypeInv, RangeInv, SharedRange
<1>3. PICK r : /\ r.to <= published /\ pos'[s] <= published /\ box'[s] = Append(box[s], r)
  <2>1. CASE pos[s] = published /\ box[s] = <<>> /\ UNCHANGED pos
             /\ box' = [box EXCEPT ![s] = <<[from |-> published + 1, to |-> published,
                                             pending |-> credit[s]]>>]
    <3> DEFINE r == [from |-> published + 1, to |-> published, pending |-> credit[s]]
    <3>1. r.to <= published
      BY <1>2
    <3>2. box'[s] = Append(box[s], r)
      BY <2>1 DEF ManyInv, TypeInv, RangeInv, SharedRange
    <3> HIDE DEF r
    <3> QED BY <1>2, <2>1, <3>1, <3>2
  <2>2. ASSUME NEW n \in 1..MaxBatch, n <= credit[s], pos[s] + n <= published,
               box' = [box EXCEPT ![s] = Append(@, [from |-> pos[s] + 1, to |-> pos[s] + n,
                                                    pending |-> credit[s] - n])],
               pos' = [pos EXCEPT ![s] = @ + n]
        PROVE  \E r : r.to <= published /\ pos'[s] <= published /\ box'[s] = Append(box[s], r)
    <3> DEFINE r == [from |-> pos[s] + 1, to |-> pos[s] + n, pending |-> credit[s] - n]
    <3>1. r.to <= published
      BY <2>2
    <3>2. box'[s] = Append(box[s], r) /\ pos'[s] = pos[s] + n
      BY <2>2 DEF ManyInv, TypeInv, RangeInv, SharedRange
    <3> HIDE DEF r
    <3> QED BY <2>2, <3>1, <3>2
  <2> QED BY <2>1, <2>2 DEF Respond
<1>4. \A i \in 1..Len(box'[s]) : box'[s][i].to <= published
  <2>1. /\ Len(box'[s]) = Len(box[s]) + 1 /\ Len(box[s]) \in Nat
        /\ \A i \in 1..Len(box'[s]) : box'[s][i] = IF i = Len(box[s]) + 1 THEN r ELSE box[s][i]
    BY <1>2, <1>3
  <2> QED BY <1>3, <2>1 DEF AheadInv, AheadOf
<1>5. AheadOf(s)'
  BY <1>1, <1>3, <1>4 DEF AheadInv, AheadOf
<1>6. lastReplay' <= published
  BY <1>1 DEF AheadInv
<1> QED BY <1>1, <1>5, <1>6, AlongAhead

LEMMA TakeResponseAhead ==
    ASSUME ManyInv, AheadInv, NEW s \in Streams, TakeResponse(s)
    PROVE  AheadInv'
<1>1. /\ UNCHANGED <<lastReplay, published, pos, ref, own, at>> /\ box[s] # <<>>
      /\ \A x \in Streams : /\ resp'[x] = IF x = s THEN Head(box[s]) ELSE resp[x]
                            /\ box'[x] = IF x = s THEN Tail(box[s]) ELSE box[x]
      /\ \A x \in Threads : pc'[x] = IF x # s THEN pc[x]
                                     ELSE IF Head(box[s]).from > Head(box[s]).to
                                     THEN "keepalive" ELSE "event"
  BY Taken DEF ManyInv, TypeInv
<1>2. Elsewhere(s) /\ pc'[s] # "write"
  BY <1>1, Apart DEF Elsewhere
<1>3. box[s] \in Seq(Response)
  BY DEF ManyInv, TypeInv, RangeInv, SharedRange
<1>4. /\ Len(box[s]) \in Nat /\ Len(box[s]) > 0 /\ Head(box[s]) = box[s][1]
      /\ Len(Tail(box[s])) = Len(box[s]) - 1
      /\ \A i \in 1..Len(Tail(box[s])) : Tail(box[s])[i] = box[s][i + 1]
  BY <1>1, <1>3, EmptySeq, HeadTailProperties
<1>5. AheadOf(s)'
  <2>1. \A i \in 1..Len(box[s]) : box[s][i].to <= published
    BY DEF AheadInv, AheadOf
  <2>2. Head(box[s]).to <= published
    BY <1>4, <2>1
  <2>3. \A i \in 1..Len(Tail(box[s])) : Tail(box[s])[i].to <= published
    <3>1. \A i \in 1..Len(Tail(box[s])) : i + 1 \in 1..Len(box[s])
      BY <1>4
    <3> QED BY <1>4, <2>1, <3>1
  <2> QED BY <1>1, <2>2, <2>3 DEF AheadInv, AheadOf
<1> QED BY <1>1, <1>2, <1>5, AlongAhead DEF AheadInv

LEMMA CollapseAhead ==
    ASSUME ManyInv, AheadInv, NEW s \in Streams, Collapse(s), UNCHANGED <<published, pos>>,
           lastReplay' <= published
    PROVE  AheadInv'
<1>1. /\ \A x \in Threads : pc'[x] = IF x = s THEN "terminal" ELSE pc[x]
      /\ UNCHANGED <<resp, ref, own, at>>
      /\ \A x \in Streams : box'[x] = IF x = s THEN <<>> ELSE box[x]
  BY Going, Apart DEF Collapse, Goto, ManyInv, TypeInv, RangeInv, SharedRange
<1>2. Elsewhere(s) /\ pc'[s] = "terminal"
  BY <1>1, Apart DEF Elsewhere
<1>3. AheadOf(s)'
  BY <1>1, <1>2 DEF AheadInv, AheadOf, InHand
<1> QED BY <1>1, <1>2, <1>3, AlongAhead

LEMMA OnEventAhead ==
    ASSUME ManyInv, AheadInv, NEW s \in Streams, OnEvent(s)
    PROVE  AheadInv'
<1>1. pc[s] = "event" /\ UNCHANGED <<lastReplay, published, pos>>
  BY DEF OnEvent
<1>2. CASE Collapse(s)
  BY <1>1, <1>2, CollapseAhead DEF AheadInv
<1>3. CASE ~Collapse(s)
  <2>1. Goto(s, "advance") /\ UNCHANGED box
    BY <1>3 DEF OnEvent, CallbackThrows, wire
  <2>2. Elsewhere(s) /\ pc'[s] = "advance"
    BY <2>1, GoesOn, Going, Apart DEF ManyInv, TypeInv
  <2>3. AheadOf(s)'
    BY <1>1, <2>1, <2>2 DEF Goto, AheadInv, AheadOf, InHand
  <2> QED BY <1>1, <2>1, <2>2, <2>3, AlongAhead DEF AheadInv
<1> QED BY <1>2, <1>3

LEMMA AdvanceAhead ==
    ASSUME ManyInv, AheadInv, NEW s \in Streams, Advance(s)
    PROVE  AheadInv'
<1>0. PICK e : e = resp[s].from
  OBVIOUS
<1>1. /\ pc[s] = "advance" /\ lastReplay' = e
      /\ UNCHANGED <<published, pos, box>>
      /\ Elsewhere(s)
      /\ \/ pc'[s] = "wait"
         \/ pc'[s] = "event" /\ resp'[s].to = resp[s].to
         \/ pc'[s] = "flow"
  BY <1>0, Advanced DEF ManyInv, TypeInv, Elsewhere
<1>2. e \in Nat /\ resp[s].to \in Nat /\ published \in Nat /\ e <= resp[s].to
  BY <1>0, <1>1, EventRanged, BoundsAssumption DEF ManyInv, TypeInv, RangeInv, SharedRange
<1>3. resp[s].to <= published
  BY <1>1 DEF AheadInv, AheadOf, InHand
<1>4. AheadOf(s)'
  BY <1>1, <1>3 DEF AheadInv, AheadOf, InHand
<1> QED BY <1>1, <1>2, <1>3, <1>4, AlongAhead

LEMMA KeepaliveAhead ==
    ASSUME ManyInv, AheadInv, NEW s \in Streams, Keepalive(s)
    PROVE  AheadInv'
<1>1. /\ pc[s] = "keepalive" /\ UNCHANGED <<published, pos>>
      /\ lastReplay' = IF resp[s].to # 0 THEN resp[s].to ELSE lastReplay
  BY DEF Keepalive
<1>2. lastReplay' <= published
  BY <1>1 DEF AheadInv, AheadOf, InHand
<1>3. CASE Collapse(s)
  BY <1>1, <1>2, <1>3, CollapseAhead
<1>4. CASE Goto(s, "flow") /\ UNCHANGED box
  <2>1. Elsewhere(s) /\ pc'[s] = "flow"
    BY <1>4, GoesOn, Going, Apart DEF ManyInv, TypeInv
  <2>2. AheadOf(s)'
    BY <1>1, <1>4, <2>1 DEF AheadInv, AheadOf, InHand
  <2> QED BY <1>1, <1>2, <1>4, <2>1, <2>2, AlongAhead
<1> QED BY <1>3, <1>4 DEF Keepalive, CallbackThrows, wire

LEMMA OpenedAhead ==
    ASSUME ManyInv, AheadInv, NEW t \in Threads, WriteSucceeds(t),
           call[t] = "open", life[ref[t]] = "opened"
    PROVE  AheadInv'
<1>1. /\ pc[t] = "write" /\ UNCHANGED <<lastReplay, published, box>>
      /\ \A x \in Threads : pc'[x] = IF x = t THEN "book" ELSE pc[x]
      /\ UNCHANGED <<resp, at>>
  BY Going DEF WriteSucceeds, wire, Goto, ManyInv, TypeInv
<1>2. at[t] <= published /\ StartPosition <= published
  BY <1>1, BoundsAssumption DEF AheadInv, StartPosition, ManyInv, TypeInv, RangeInv, SharedRange
<1>3. \A x \in Streams : pos'[x] <= published
  <2>1. pos' = [pos EXCEPT ![ref[t]] = IF at[t] # 0 THEN at[t] ELSE StartPosition]
    BY DEF WriteSucceeds
  <2> QED BY <1>2, <2>1 DEF AheadInv, AheadOf, ManyInv, TypeInv, RangeInv, SharedRange
<1>4. \A x \in Streams : pc'[x] \in InHand => pc[x] \in InHand
  BY <1>1, Apart DEF InHand
<1> QED BY <1>1, <1>3, <1>4 DEF AheadInv, AheadOf

LEMMA SpoiltAhead ==
    ASSUME ManyInv, AheadInv, NEW t \in Threads, HandleTerminal(t), lastReplay' # lastReplay
    PROVE  AheadInv'
<1>1. /\ lastReplay' = 0 /\ t \in Streams
      /\ UNCHANGED <<published, pos, box, resp, ref, own, at>>
      /\ \A x \in Threads : x # t => pc'[x] = pc[x]
      /\ pc'[t] \in {"give_up", "schedule"}
  BY Spoilt DEF ManyInv, TypeInv
<1>2. published \in Nat
  BY BoundsAssumption DEF ManyInv, TypeInv, RangeInv, SharedRange
<1>3. Elsewhere(t) /\ lastReplay' <= published
  BY <1>1, <1>2 DEF Elsewhere
<1>4. AheadOf(t)'
  BY <1>1 DEF AheadInv, AheadOf, InHand
<1> QED BY <1>1, <1>3, <1>4, AlongAhead

LEMMA NextAhead == ASSUME ManyInv, AheadInv, [Next]_vars PROVE AheadInv'
<1>1. AlongStep \/ \E t \in Threads : AsideStep(t)
  BY AlongOrAside DEF ManyInv
<1>2. ASSUME NEW s \in Streams, StreamTerminates(s) \/ (WriteThrows(s) /\ Collapse(s))
      PROVE  AheadInv'
  BY <1>2, CollapseAhead DEF StreamTerminates, WriteThrows, AheadInv
<1> QED BY <1>1, <1>2, AsideAhead, RespondAhead, TakeResponseAhead, OnEventAhead, AdvanceAhead,
           KeepaliveAhead, OpenedAhead, SpoiltAhead DEF AlongStep

LEMMA InitAhead == Init => AheadInv
<1> SUFFICES ASSUME Init PROVE AheadInv
  OBVIOUS
<1>1. \A t \in Threads : pc[t] \in {"wait", "idle"}
  BY DEF Init, Home
<1>2. /\ lastReplay = 0 /\ published \in Nat
      /\ \A s \in Streams : s \in Threads /\ pos[s] = 0 /\ box[s] = <<>>
  BY Apart, BoundsAssumption DEF Init
<1> QED BY <1>1, <1>2 DEF AheadInv, AheadOf, InHand


-----------------------------------------------------------------------------
\* What a consumer sees of a step

LEMMA GivenStays ==
    ASSUME \A s \in Streams : pc[s] = "advance" \/ pc'[s] = "advance" =>
                                  pc'[s] = pc[s] /\ resp'[s] = resp[s]
    PROVE  Given' = Given
<1>1. \A s \in Streams : pc'[s] = "advance" <=> pc[s] = "advance"
  OBVIOUS
<1>2. ASSUME NEW e PROVE e \in Given' <=> e \in Given
  BY <1>1 DEF Given
<1> QED BY <1>2 DEF Given

\* While a stream delivers, only its event can be given.
LEMMA GivenAlone ==
    ASSUME HoldInv, QuietInv, NEW s \in Streams, life[s] \in {"asked", "closed"}
    PROVE  Given = IF pc[s] = "advance" THEN {resp[s].from} ELSE {}
<1>1. \A x \in Streams : pc[x] = "advance" => x = s
  BY Alone DEF InHand
<1> QED BY <1>1 DEF Given

\* Where no stream delivers, nothing is given.
LEMMA GivenNone ==
    ASSUME HoldInv, \A s \in Streams : life[s] \notin {"asked", "closed"}
    PROVE  Given = {}
<1>1. \A s \in Streams : pc[s] # "advance"
  BY DEF HoldInv, RolesInv, WorkInv, Working
<1> QED BY <1>1 DEF Given

\* The thread that handles the end of a stream has the subscription to itself.
LEMMA EndsAlone ==
    ASSUME HoldInv, NEW t \in Threads,
           pc[t] = "submit" \/ (pc[t] = "terminal" /\ ~stopping)
    PROVE  Given = {} /\ ~finished
<1>1. Has("end", t) /\ t \in Holders /\ \A s \in Streams : s \in Holders
  BY Apart DEF Has
<1>2. \A s \in Streams : life[s] \in Alive => Has("stream", s)
  BY DEF Has
<1>3. ~finished /\ \A s \in Streams : life[s] \notin Alive
  BY <1>1, <1>2 DEF HoldInv, TokenInv, Kinds
<1> QED BY <1>3, GivenNone DEF Alive

\* Who publishes, stops, gives up and says so.
LEMMA Changes ==
    ASSUME [Next]_vars
    PROVE  \/ UNCHANGED <<published, stopping, finished, sinks>> \/ Publish \/ Stop
           \/ \E t \in Threads : HandleTerminal(t) \/ GiveUp(t) \/ SubmitDelay(t)
<1> DEFINE Same == UNCHANGED <<published, stopping, finished, sinks>>
<1>1. ASSUME NEW t \in Threads, Opening(t) PROVE Same
  BY <1>1 DEF Opening, ReconnectIntern, OpenStream, BidiStream, PublishStream, OpenCancels,
              flags, server
<1>2. ASSUME NEW t \in Threads, Delivering(t) PROVE Same
  BY <1>2 DEF Delivering, TakeResponse, OnEvent, Advance, Keepalive, FlowControl, ArmBackstop,
              FlowControlBackstop, StreamTerminates, flags, server
<1>3. ASSUME NEW t \in Threads,
             \/ StopCancels \/ Replenish(t) \/ Fetch(t) \/ WriteSucceeds(t) \/ WriteThrows(t)
             \/ Book(t) \/ ScheduleReconnect(t)
      PROVE  Same
  BY <1>3 DEF StopCancels, Replenish, Fetch, WriteSucceeds, WriteThrows, Book, ScheduleReconnect,
              flags, server
<1>4. CASE \/ Start \/ UserReplenishes \/ UNCHANGED vars
           \/ \E d \in Delays : DelayDue(d) \/ DelayAborted(d) \/ ReconnectNow(d)
           \/ \E s \in Streams : Respond(s) \/ StreamCloses(s) \/ BackstopDue(s)
  BY <1>4 DEF Start, UserReplenishes, vars, DelayDue, DelayAborted, ReconnectNow, Respond, StreamCloses,
              BackstopDue, flags, server
<1> QED BY <1>1, <1>2, <1>3, <1>4 DEF Next, Step

\* A step beside the chain: an event is published, the subscription is stopped, gives
\* up, says so; or the consumer sees nothing.
LEMMA ContractAside ==
    ASSUME HoldInv, ManyInv, [Next]_vars, NEW x \in Threads, AsideStep(x)
    PROVE  [Contract!Next]_(Contract!vars)
<1>1. UNCHANGED <<lastReplay, base>> /\ Given' = Given
  <2>1. \A s \in Streams : pc[s] = "advance" \/ pc'[s] = "advance" =>
                               pc'[s] = pc[s] /\ resp'[s] = resp[s]
    BY Apart DEF AsideStep, Elsewhere, InHand
  <2> QED BY <2>1, GivenStays DEF AsideStep
<1>2. CASE UNCHANGED <<published, stopping, finished, sinks>>
  BY <1>1, <1>2 DEF Contract!vars
<1>3. CASE Publish
  <2>1. Contract!Publish
    BY <1>1, <1>3 DEF Publish, flags, Contract!Publish
  <2> QED BY <2>1 DEF Contract!Next
<1>4. CASE Stop
  <2>1. Contract!Stop
    BY <1>1, <1>4 DEF Stop, server, Contract!Stop
  <2> QED BY <2>1 DEF Contract!Next
<1>5. ASSUME NEW t \in Threads, HandleTerminal(t) \/ SubmitDelay(t), finished' # finished
      PROVE  [Contract!Next]_(Contract!vars)
  <2>1. /\ pc[t] = "submit" \/ (pc[t] = "terminal" /\ ~stopping)
        /\ UNCHANGED <<published, stopping, sinks>>
    BY <1>5 DEF HandleTerminal, SubmitDelay, server
  <2>2. Given = {} /\ ~finished
    BY <2>1, EndsAlone
  <2>3. finished' \in BOOLEAN
    <3>1. finished' \in {~Reconnect \/ (MaxAttempts # 0 /\ attempts + 1 > MaxAttempts), TRUE}
      BY <1>5 DEF HandleTerminal, SubmitDelay
    <3> QED BY <3>1
  <2>4. Contract!Lose
    BY <1>1, <2>1, <2>2, <2>3 DEF Contract!Lose
  <2> QED BY <2>4 DEF Contract!Next
<1>6. ASSUME NEW t \in Threads, GiveUp(t), sinks' # sinks
      PROVE  [Contract!Next]_(Contract!vars)
  <2>1. /\ finished /\ sinks = TRUE /\ sinks' = FALSE
        /\ UNCHANGED <<published, stopping, finished>>
    BY <1>6 DEF GiveUp, flags, server, ManyInv, QuietInv, TypeInv, RangeInv, SharedRange
  <2>2. Contract!Tell
    BY <1>1, <2>1 DEF Contract!Tell
  <2> QED BY <2>2 DEF Contract!Next
<1>7. ASSUME NEW t \in Threads, HandleTerminal(t) \/ GiveUp(t) \/ SubmitDelay(t)
      PROVE  UNCHANGED <<published, stopping>> /\ (UNCHANGED finished \/ UNCHANGED sinks)
             /\ (GiveUp(t) => UNCHANGED finished) /\ (~GiveUp(t) => UNCHANGED sinks)
  BY <1>7 DEF HandleTerminal, GiveUp, SubmitDelay, flags, server
<1> QED BY <1>2, <1>3, <1>4, <1>5, <1>6, <1>7, Changes

\* An event is given right behind the position.
LEMMA ContractOnEvent ==
    ASSUME WholeInv, AheadInv, NEW s \in Streams, OnEvent(s)
    PROVE  [Contract!Next]_(Contract!vars)
<1> USE DEF WholeInv
<1>1. /\ pc[s] = "event" /\ UNCHANGED <<published, base, lastReplay, stopping, finished, sinks, resp>>
  BY DEF OnEvent, CallbackThrows, Collapse, Goto, flags
<1>2. /\ life[s] \in {"asked", "closed"} /\ resp[s].from \in 1..MaxEvents
      /\ resp[s].from <= resp[s].to /\ resp[s].to \in Nat
      /\ Here < resp[s].from /\ (stopping \/ resp[s].from = Here + 1)
  BY <1>1, EventInHand
<1>3. Given = {} /\ ~finished
  BY <1>1, <1>2, GivenAlone, Alone DEF ManyInv
<1>4. CASE Collapse(s)
  <2>1. \A x \in Threads : pc'[x] = IF x = s THEN "terminal" ELSE pc[x]
    BY <1>4, Going, Apart DEF Collapse, HoldInv
  <2>2. Given' = Given
    BY <1>1, <2>1, GivenStays, Apart
  <2> QED BY <1>1, <2>2 DEF Contract!vars
<1>5. CASE Goto(s, "advance")
  <2>1. \A x \in Threads : pc'[x] = IF x = s THEN "advance" ELSE pc[x]
    BY <1>5, Going, Apart DEF HoldInv
  <2>2. \A x \in Streams : pc'[x] = "advance" <=> x = s
    BY <1>3, <2>1, Apart DEF Given
  <2>3. Given' = {resp[s].from}
    BY <1>1, <2>2 DEF Given
  <2>4. resp[s].from <= published
    <3>1. resp[s].to <= published /\ published \in Nat
      BY <1>1, BoundsAssumption
         DEF AheadInv, AheadOf, InHand, ManyInv, TypeInv, RangeInv, SharedRange
    <3> QED BY <1>2, <3>1
  <2>5. Contract!Here = Here
    BY DEF Contract!Here, Here
  <2>6. Contract!Give(resp[s].from)
    BY <1>1, <1>2, <1>3, <2>3, <2>4, <2>5 DEF Contract!Give
  <2> QED BY <1>2, <2>6 DEF Contract!Next
<1> QED BY <1>4, <1>5 DEF OnEvent, CallbackThrows

\* The position passes the event that was given.
LEMMA ContractAdvance ==
    ASSUME WholeInv, NEW s \in Streams, Advance(s)
    PROVE  [Contract!Next]_(Contract!vars)
<1> USE DEF WholeInv
<1>1. PICK e : e = resp[s].from
  OBVIOUS
<1>2. /\ pc[s] = "advance" /\ lastReplay' = e
      /\ UNCHANGED <<published, base, stopping, finished, sinks>>
      /\ \A x \in Threads \ {s} : pc'[x] = pc[x]
      /\ pc'[s] \in {"wait", "event", "flow"}
  BY <1>1, Advanced DEF ManyInv, TypeInv
<1>3. life[s] \in {"asked", "closed"} /\ e \in 1..MaxEvents
  BY <1>1, <1>2, EventRanged
<1>4. Given = {e}
  BY <1>1, <1>2, <1>3, GivenAlone DEF ManyInv
<1>5. Given' = {}
  <2>1. \A x \in Streams \ {s} : pc[x] # "advance"
    BY <1>3, Alone DEF ManyInv, InHand
  <2>2. \A x \in Streams : pc'[x] # "advance"
    BY <1>2, <2>1, Apart
  <2> QED BY <2>2 DEF Given
<1>6. Contract!Pass(e)
  BY <1>2, <1>4, <1>5 DEF Contract!Pass
<1> QED BY <1>3, <1>6 DEF Contract!Next

\* The position of an empty batch is adopted.
LEMMA ContractKeepalive ==
    ASSUME WholeInv, AheadInv, NEW s \in Streams, Keepalive(s)
    PROVE  [Contract!Next]_(Contract!vars)
<1> USE DEF WholeInv
<1>1. /\ pc[s] = "keepalive"
      /\ lastReplay' = IF resp[s].to # 0 THEN resp[s].to ELSE lastReplay
      /\ UNCHANGED <<published, base, stopping, finished, sinks, resp>>
  BY DEF Keepalive, CallbackThrows, Collapse, Goto, flags, history
<1>2. /\ life[s] \in {"asked", "closed"} /\ resp[s].to \in 0..MaxEvents
      /\ Here <= resp[s].to /\ (stopping \/ Here = resp[s].to) /\ resp[s].to <= published
  BY <1>1, KeepaliveRanged, InHandRanged
     DEF ManyInv, TypeInv, DeliveryInv, ChainInv, AheadInv, AheadOf, InHand
<1>3. Given = {} /\ ~finished
  BY <1>1, <1>2, GivenAlone, Alone DEF ManyInv
<1>4. Given' = Given
  <2>1. PICK l \in {"flow", "terminal"} : Goto(s, l)
    BY DEF Keepalive, CallbackThrows, Collapse
  <2>2. \A x \in Threads : pc'[x] = IF x = s THEN l ELSE pc[x]
    BY <2>1, Going, Apart DEF HoldInv
  <2> QED BY <1>1, <2>2, GivenStays, Apart
<1>5. CASE resp[s].to = 0
  BY <1>1, <1>4, <1>5 DEF Contract!vars
<1>6. CASE resp[s].to # 0
  <2>1. Contract!Here = Here
    BY DEF Contract!Here, Here
  <2>2. Contract!Adopt(resp[s].to)
    BY <1>1, <1>2, <1>3, <1>4, <1>6, <2>1 DEF Contract!Adopt
  <2>3. resp[s].to \in 1..MaxEvents
    BY <1>2, <1>6, BoundsAssumption
  <2> QED BY <2>2, <2>3 DEF Contract!Next
<1> QED BY <1>5, <1>6

\* The server is asked for the events behind the position.
LEMMA ContractOpened ==
    ASSUME WholeInv, NEW t \in Threads, WriteSucceeds(t), call[t] = "open",
           life[ref[t]] = "opened"
    PROVE  [Contract!Next]_(Contract!vars)
<1> USE DEF WholeInv
<1>1. /\ t \in Launchers /\ pc[t] = "write"
      /\ UNCHANGED <<published, lastReplay, stopping, finished, sinks>>
      /\ base' = IF at[t] # 0 THEN base ELSE StartPosition
  BY Whereabouts DEF WriteSucceeds, flags, HoldInv, RolesInv, WorkInv, UserInv
<1>2. ref[t] \in Streams /\ life[ref[t]] = "opened" /\ at[t] = lastReplay
  BY <1>1 DEF HoldInv, RolesInv, LaunchInv, Unasked, Launching, DeliveryInv, ReopenInv
<1>3. Given = {} /\ ~finished
  <2>1. \A s \in Streams : life[s] \notin {"asked", "closed"}
    BY <1>2, Alone DEF ManyInv
  <2> QED BY <1>2, <2>1, GivenNone, OnlyOne DEF Alive
<1>4. Given' = Given
  <2>1. Goto(t, "book")
    BY DEF WriteSucceeds
  <2>2. UNCHANGED resp /\ \A x \in Threads : pc'[x] = IF x = t THEN "book" ELSE pc[x]
    BY <2>1, Going DEF HoldInv, Goto
  <2> QED BY <1>1, <2>2, GivenStays, Apart
<1>5. CASE at[t] # 0
  BY <1>1, <1>4, <1>5 DEF Contract!vars
<1>6. CASE at[t] = 0
  <2>1. base' = Contract!Beginning
    BY <1>1, <1>6 DEF StartPosition, Contract!Beginning
  <2>2. Contract!Begin
    BY <1>1, <1>2, <1>3, <1>4, <1>6, <2>1 DEF Contract!Begin
  <2> QED BY <2>2 DEF Contract!Next
<1> QED BY <1>5, <1>6

\* A corrupted position is given up.
LEMMA ContractSpoilt ==
    ASSUME WholeInv, NEW t \in Threads, HandleTerminal(t), lastReplay' # lastReplay
    PROVE  [Contract!Next]_(Contract!vars)
<1> USE DEF WholeInv
<1>1. /\ pc[t] = "terminal" /\ ~stopping /\ lastReplay' = 0 /\ t \in Streams /\ corrupt[t]
      /\ UNCHANGED <<published, base, stopping, sinks, resp>>
      /\ \A x \in Threads : x # t => pc'[x] = pc[x]
      /\ pc'[t] \in {"give_up", "schedule"}
  BY Spoilt DEF ManyInv, TypeInv
<1>2. Given = {} /\ ~finished
  BY <1>1, EndsAlone
<1>3. Given' = Given
  BY <1>1, GivenStays, Apart
<1>4. "corrupt" \in Faults
  BY <1>1 DEF DeliveryInv, OnceInv, Uncorrupted
<1>5. finished' \in BOOLEAN
  BY <1>1 DEF HandleTerminal
<1>6. Contract!Lose
  BY <1>1, <1>2, <1>3, <1>4, <1>5 DEF Contract!Lose
<1> QED BY <1>6 DEF Contract!Next

\* A response that comes or is taken, and a stream that ends, show nothing.
LEMMA ContractUnseen ==
    ASSUME WholeInv, NEW s \in Streams,
           \/ Respond(s) \/ TakeResponse(s) \/ StreamTerminates(s)
           \/ (WriteThrows(s) /\ Collapse(s))
    PROVE  UNCHANGED Contract!vars
<1> USE DEF WholeInv
<1>1. UNCHANGED <<published, base, lastReplay, stopping, finished, sinks>>
  BY DEF Respond, TakeResponse, StreamTerminates, WriteThrows, flags, server, history
<1>2. \A x \in Streams : pc[x] = "advance" \/ pc'[x] = "advance" =>
                             pc'[x] = pc[x] /\ resp'[x] = resp[x]
  <2>1. CASE Respond(s)
    BY <2>1 DEF Respond, locals
  <2>2. CASE TakeResponse(s)
    BY <2>2, Taken, Apart DEF ManyInv, TypeInv
  <2>3. CASE StreamTerminates(s) \/ (WriteThrows(s) /\ Collapse(s))
    <3>1. pc[s] \in {"wait", "write"} /\ Goto(s, "terminal")
      BY <2>3 DEF StreamTerminates, WriteThrows, Collapse
    <3>2. UNCHANGED resp /\ \A x \in Threads : pc'[x] = IF x = s THEN "terminal" ELSE pc[x]
      BY <3>1, Going, Apart DEF HoldInv, Goto
    <3> QED BY <3>1, <3>2, Apart
  <2> QED BY <2>1, <2>2, <2>3
<1>3. Given' = Given
  BY <1>2, GivenStays
<1> QED BY <1>1, <1>3 DEF Contract!vars

LEMMA NextKeepsContract ==
    ASSUME WholeInv, AheadInv, [Next]_vars
    PROVE  [Contract!Next]_(Contract!vars)
<1>1. AlongStep \/ \E t \in Threads : AsideStep(t)
  BY AlongOrAside DEF WholeInv, ManyInv
<1> QED BY <1>1, ContractAside, ContractUnseen, ContractOnEvent, ContractAdvance,
           ContractKeepalive, ContractOpened, ContractSpoilt DEF AlongStep, WholeInv

\* However many streams it takes, and whatever ends them, a subscription is for its
\* consumer the one of SubscriptionContract (deliverEvent(), handleResponse(),
\* handleTerminal(), deliverError(), the opening request).
THEOREM SubscriptionKeepsContract == ASSUME Orderly PROVE Spec => KeepsContract
<1>1. Init => Contract!Init
  <2> SUFFICES ASSUME Init PROVE Contract!Init
    OBVIOUS
  <2>1. \A s \in Streams : pc[s] # "advance"
    BY Apart DEF Init, Home
  <2>2. Given = {}
    BY <2>1 DEF Given
  <2>3. base = Contract!Beginning
    BY DEF Init, StartPosition, Contract!Beginning
  <2> QED BY <2>2, <2>3 DEF Init, Contract!Init
<1>2. WholeInv /\ AheadInv /\ [Next]_vars => AheadInv'
  BY NextAhead DEF WholeInv
<1>3. WholeInv /\ AheadInv /\ [Next]_vars => [Contract!Next]_(Contract!vars)
  BY NextKeepsContract
<1> QED BY <1>1, <1>2, <1>3, InitAhead, WholeInvariant, PTL DEF Spec, KeepsContract, Contract!Spec

=============================================================================
