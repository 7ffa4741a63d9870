-------------------------- MODULE AsyncContractProofs --------------------------
(***************************************************************************)
(* That an asynchronous call loses no message silently and keeps the       *)
(* contract of CallContract, for any number of users, any chunks, bounds,  *)
(* sinks and options, unless the controller aborts the operation in the    *)
(* middle of a drain.                                                      *)
(*                                                                         *)
(* Every message the server completed is with the sinks, in the worker's   *)
(* hand, in the deframing buffer or in a chunk that waits to be read; and  *)
(* as long as the drain can still read, what waits tells how the server    *)
(* left the stream.                                                        *)
(***************************************************************************)
EXTENDS AsyncClientStreamProofs, FiniteSetTheorems

-----------------------------------------------------------------------------
\* Messages on their way

\* What a deframer holds, and what it holds once it is given an item of the queue
Held == [frames : Nat, tail : {"none", "part", "big"}]
Fed(held, item) ==
    IF item \in Chunks
    THEN [frames |-> held.frames + ChunkFrames[item], tail |-> ChunkTail[item]]
    ELSE held

\* f follows a deframer through the items q, from `first` to `last`.
Follows(f, q, first, last) ==
    /\ f \in [0..Len(q) -> Held]
    /\ f[0] = first /\ f[Len(q)] = last
    /\ \A i \in 1..Len(q) : f[i] = Fed(f[i - 1], q[i])
    /\ \A i \in 0..Len(q) : f[i].frames <= last.frames

Through(q, first, last) == \E f \in [0..Len(q) -> Held] : Follows(f, q, first, last)

\* Where the worker stands before the end of its last drain
Reading == {"off", "wait", "poll", "drain"} \cup Draining

\* The message that the worker has taken and not delivered
InHand == IF pc[Worker] = "message" THEN 1 ELSE 0

\* Each sink has had n messages but for the one in hand.
Handed(n) ==
    /\ "callbacks" \in Sinks => n = Messages(cbs) + InHand
    /\ "queue" \in Sinks => n = Messages(queue) + InHand

\* The messages taken, those in the buffer and those that wait are the ones sent.
AccountInv ==
    active /\ pc[Worker] \in Reading =>
        \E n \in Nat :
            /\ Handed(n)
            /\ Through(inq, [frames |-> n + buf.frames, tail |-> buf.tail],
                            [frames |-> sent.frames, tail |-> sent.tail])

-----------------------------------------------------------------------------
\* How the server left the stream

\* A drain is running or to come, and nothing but it can end the call.
Reads ==
    /\ active /\ ~cancelRequested /\ ~complete
    /\ started => pollActive
    /\ pc[Worker] \in Reading

\* The end of the stream is the last item and is read once.
PeerInv ==
    Reads =>
        /\ peer # "cancelled"
        /\ readsDone => peer = "ended" /\ inq = <<>> /\ pc[Worker] \in {"frames", "message"}
        /\ ~readsDone /\ peer # "open" =>
              inq # <<>> /\ inq[Len(inq)] = IF peer = "ended" THEN "end" ELSE "error"
        /\ \A i \in 1..Len(inq) : inq[i] \in {"end", "error"} => i = Len(inq) /\ peer # "open"

\* Nothing is polled once the operation is complete, and whoever resets the stream
\* has a reason that takes the worker off it.
WhereInv ==
    /\ complete => pc[Worker] \notin Draining \cup {"drain"}
    /\ \A u \in Users : pc[u] = "unsubmitted" => started /\ ~pollActive
    /\ \A u \in Users : pc[u] = "rst_notify" => cancelRequested
    /\ \A t \in Users \cup {Controller} : report[t] # "OK"

-----------------------------------------------------------------------------
\* The server's status

\* What NoSilentLoss says of a call that ends with the server's status
AllArrived ==
    /\ peer = "ended" /\ sent.tail = "none"
    /\ "callbacks" \in Sinks => Messages(cbs) = sent.frames
    /\ "queue" \in Sinks => Messages(queue) = sent.frames

\* The worker is about to end the call with the server's status.
Succeeds ==
    pc[Worker] = "mark" /\ report[Worker] = "OK" /\ active /\ ~cancelRequested

ArrivedInv == Succeeds \/ verdict = "OK" => AllArrived

DeliveryInv == WhereInv /\ AccountInv /\ PeerInv /\ ArrivedInv

LossInv == Undisturbed => DeliveryInv

-----------------------------------------------------------------------------
\* Messages in a log, and items of a queue

\* The number of messages in a log is a number.
LEMMA MessagesType ==
    ASSUME NEW S, NEW log \in Seq(S)
    PROVE  Messages(log) \in Nat
<1>1. IsFiniteSet(1..Len(log))
  BY FS_Interval
<1>2. IsFiniteSet({i \in 1..Len(log) : log[i] = "message"})
  BY <1>1, FS_Subset
<1> QED BY <1>2, FS_CardinalityType DEF Messages

\* A delivered message counts for one, any other event for none.
LEMMA MessagesAppend ==
    ASSUME NEW S, NEW log \in Seq(S), NEW k \in S
    PROVE  Messages(Append(log, k)) = IF k = "message" THEN Messages(log) + 1 ELSE Messages(log)
<1> DEFINE at(l) == {i \in 1..Len(l) : l[i] = "message"}
           n == Len(log) + 1
<1>1. IsFiniteSet(at(log))
  <2>1. IsFiniteSet(1..Len(log))
    BY FS_Interval
  <2> QED BY <2>1, FS_Subset
<1>2. n \notin at(log)
  OBVIOUS
<1>3. /\ Len(Append(log, k)) = n /\ Append(log, k)[n] = k
      /\ \A i \in 1..Len(log) : Append(log, k)[i] = log[i]
      /\ 1..n = 1..Len(log) \cup {n}
  OBVIOUS
<1>4. at(Append(log, k)) = IF k = "message" THEN at(log) \cup {n} ELSE at(log)
  BY <1>3
<1>5. Cardinality(at(log) \cup {n}) = Cardinality(at(log)) + 1
  BY <1>1, <1>2, FS_AddElement
<1> QED BY <1>4, <1>5 DEF Messages

\* What a chunk adds never takes messages away.
LEMMA FedType ==
    ASSUME NEW held \in Held, NEW item
    PROVE  Fed(held, item) \in Held /\ held.frames <= Fed(held, item).frames
  BY ChunkTypes DEF Held, Fed

\* Nothing waits: the deframer holds all there is.
LEMMA ThroughEmpty ==
    ASSUME NEW first, NEW last, Through(<<>>, first, last)
    PROVE  first = last
  BY DEF Through, Follows

LEMMA ThroughType ==
    ASSUME NEW S, NEW q \in Seq(S), NEW first, NEW last, Through(q, first, last)
    PROVE  first \in Held /\ last \in Held /\ first.frames <= last.frames
<1>1. PICK f \in [0..Len(q) -> Held] : Follows(f, q, first, last)
  BY DEF Through
<1>2. 0 \in 0..Len(q) /\ Len(q) \in 0..Len(q)
  OBVIOUS
<1> QED BY <1>1, <1>2 DEF Follows

\* Another item comes behind what waits.
LEMMA ThroughAppend ==
    ASSUME NEW S, NEW q \in Seq(S), NEW item \in S, NEW first, NEW last, Through(q, first, last)
    PROVE  Through(Append(q, item), first, Fed(last, item))
<1> DEFINE n == Len(q) + 1
           r == Append(q, item)
           end == Fed(last, item)
<1>1. PICK f \in [0..Len(q) -> Held] : Follows(f, q, first, last)
  BY DEF Through
<1> DEFINE g == [i \in 0..n |-> IF i = n THEN end ELSE f[i]]
<1>2. last \in Held /\ end \in Held /\ last.frames <= end.frames
  BY ThroughType, FedType
<1>3. Len(q) \in Nat /\ Len(r) = n /\ r[n] = item /\ \A i \in 1..Len(q) : r[i] = q[i]
  OBVIOUS
<1>4. \A i \in 0..n : i = n \/ i \in 0..Len(q)
  BY <1>3
<1>5. g \in [0..n -> Held]
  BY <1>2, <1>4
<1>6. g[0] = first /\ g[n] = end
  BY <1>1, <1>3 DEF Follows
<1>7. ASSUME NEW i \in 1..n PROVE g[i] = Fed(g[i - 1], r[i])
  <2>1. CASE i = n
    <3>1. g[i - 1] = f[Len(q)]
      BY <1>3, <2>1
    <3> QED BY <1>1, <1>3, <2>1, <3>1 DEF Follows
  <2>2. CASE i \in 1..Len(q)
    <3>1. g[i] = f[i] /\ g[i - 1] = f[i - 1]
      BY <1>3, <2>2
    <3> QED BY <1>1, <1>3, <2>2, <3>1 DEF Follows
  <2> QED BY <1>3, <2>1, <2>2
<1>8. ASSUME NEW i \in 0..n PROVE g[i].frames <= end.frames
  <2>1. CASE i = n
    BY <1>2, <2>1 DEF Held
  <2>2. CASE i \in 0..Len(q)
    <3>1. g[i] = f[i] /\ f[i] \in Held /\ f[i].frames <= last.frames
      BY <1>1, <1>3, <2>2 DEF Follows
    <3> QED BY <1>2, <3>1 DEF Held
  <2> QED BY <1>4, <2>1, <2>2
<1>9. Follows(g, r, first, end)
  BY <1>3, <1>5, <1>6, <1>7, <1>8 DEF Follows
<1> QED BY <1>3, <1>5, <1>9 DEF Through

\* The deframer is given the first of what waits.
LEMMA ThroughTail ==
    ASSUME NEW S, NEW q \in Seq(S), q # <<>>, NEW first, NEW last, Through(q, first, last)
    PROVE  Through(Tail(q), Fed(first, Head(q)), last)
<1> DEFINE n == Len(q) - 1
           r == Tail(q)
<1>1. PICK f \in [0..Len(q) -> Held] : Follows(f, q, first, last)
  BY DEF Through
<1> DEFINE g == [i \in 0..n |-> f[i + 1]]
<1>2. /\ Len(q) \in Nat /\ Len(q) > 0 /\ n \in Nat /\ Len(r) = n /\ Head(q) = q[1]
      /\ \A i \in 1..n : r[i] = q[i + 1]
  OBVIOUS
<1>3. \A i \in 0..n : i + 1 \in 1..Len(q) /\ i + 1 \in 0..Len(q)
  BY <1>2
<1>4. g \in [0..n -> Held]
  BY <1>3
<1>5. g[0] = Fed(first, Head(q)) /\ g[n] = last
  <2>1. g[0] = f[1] /\ g[n] = f[Len(q)]
    BY <1>2
  <2>2. f[1] = Fed(f[0], q[1])
    BY <1>1, <1>2 DEF Follows
  <2> QED BY <1>1, <1>2, <2>1, <2>2 DEF Follows
<1>6. ASSUME NEW i \in 1..n PROVE g[i] = Fed(g[i - 1], r[i])
  <2>1. g[i] = f[i + 1] /\ g[i - 1] = f[i] /\ i + 1 \in 1..Len(q) /\ (i + 1) - 1 = i
    BY <1>2
  <2> QED BY <1>1, <1>2, <2>1 DEF Follows
<1>7. \A i \in 0..n : g[i].frames <= last.frames
  BY <1>1, <1>3 DEF Follows
<1>8. Follows(g, r, Fed(first, Head(q)), last)
  BY <1>2, <1>4, <1>5, <1>6, <1>7 DEF Follows
<1> QED BY <1>2, <1>4, <1>8 DEF Through

-----------------------------------------------------------------------------
\* What keeps each part of the invariant

\* The account stays as it is when nothing but the worker's place changes, and that
\* not into or out of a delivery; a reset of the stream is no message.
LEMMA AccountStill ==
    ASSUME TypeOK, AccountInv, UNCHANGED <<buf, sent, cbs, queue>>,
           inq' \in {inq, Append(inq, "error")},
           active' /\ pc'[Worker] \in Reading =>
               /\ active /\ pc[Worker] \in Reading
               /\ pc'[Worker] = "message" <=> pc[Worker] = "message"
    PROVE  AccountInv'
<1> SUFFICES ASSUME active', pc'[Worker] \in Reading
             PROVE  \E n \in Nat :
                       /\ Handed(n)'
                       /\ Through(inq', [frames |-> n + buf.frames, tail |-> buf.tail],
                                        [frames |-> sent.frames, tail |-> sent.tail])
  BY DEF AccountInv
<1> DEFINE first(n) == [frames |-> n + buf.frames, tail |-> buf.tail]
           last == [frames |-> sent.frames, tail |-> sent.tail]
<1>1. PICK n \in Nat : Handed(n) /\ Through(inq, first(n), last)
  BY DEF AccountInv
<1>2. Handed(n)'
  BY <1>1 DEF Handed, InHand, Messages
<1>3. Through(inq', first(n), last)
  <2>1. "error" \notin Chunks /\ inq \in Seq(Items) /\ "error" \in Items
    BY ChunkTypes DEF TypeOK, StateOK, Items
  <2>2. Fed(last, "error") = last
    BY <2>1 DEF Fed
  <2>3. Through(Append(inq, "error"), first(n), Fed(last, "error"))
    <3> HIDE DEF first, last
    <3> QED BY <1>1, <2>1, ThroughAppend
  <2> QED BY <1>1, <2>2, <2>3
<1> QED BY <1>2, <1>3

\* A drain that could not read cannot read again, and a step that touches neither the
\* transport nor the end of the reads leaves the server's end where it is.
LEMMA PeerStill ==
    ASSUME PeerInv, Reads' => Reads, UNCHANGED <<inq, peer, readsDone>>,
           readsDone /\ Reads' => pc'[Worker] \in {"frames", "message"}
    PROVE  PeerInv'
  BY DEF PeerInv

\* Everything has arrived, and stays so.
LEMMA ArrivedStill ==
    ASSUME ArrivedInv, peer' = peer \/ peer # "ended", sent' = sent \/ peer # "ended",
           Messages(cbs)' = Messages(cbs), Messages(queue)' = Messages(queue),
           Succeeds' \/ verdict' = "OK" => Succeeds \/ verdict = "OK"
    PROVE  ArrivedInv'
  BY DEF ArrivedInv, AllArrived

\* Nothing is delivered and the worker is not about to end the call well.
LEMMA DeliveryStill ==
    ASSUME TypeOK, DeliveryInv, WhereInv', UNCHANGED <<buf, sent, cbs, queue, inq, peer, readsDone>>,
           Reads' => Reads,
           readsDone /\ Reads' => pc'[Worker] \in {"frames", "message"},
           active' /\ pc'[Worker] \in Reading =>
               /\ active /\ pc[Worker] \in Reading
               /\ pc'[Worker] = "message" <=> pc[Worker] = "message",
           Succeeds' \/ verdict' = "OK" => Succeeds \/ verdict = "OK"
    PROVE  DeliveryInv'
<1> USE DEF DeliveryInv
<1>1. AccountInv'
  BY AccountStill
<1>2. PeerInv'
  BY PeerStill
<1>3. ArrivedInv'
  BY ArrivedStill DEF Messages
<1> QED BY <1>1, <1>2, <1>3

\* Whoever resets the stream takes the worker off it.
LEMMA DeliveryReset ==
    ASSUME TypeOK, DeliveryInv, WhereInv', CancelTransport, ~Reads',
           UNCHANGED <<buf, cbs, queue>> \/ (pc'[Worker] \notin Reading /\ UNCHANGED <<cbs, queue>>),
           pc'[Worker] = pc[Worker] \/ pc'[Worker] \notin Reading,
           active' => active,
           Succeeds' \/ verdict' = "OK" => Succeeds \/ verdict = "OK"
    PROVE  DeliveryInv'
<1> USE DEF DeliveryInv
<1>1. sent' = sent /\ inq' \in {inq, Append(inq, "error")} /\ (peer' = peer \/ peer = "open")
  BY DEF CancelTransport
<1>2. AccountInv'
  <2>1. CASE pc'[Worker] \in Reading
    BY <1>1, <2>1, AccountStill
  <2>2. CASE pc'[Worker] \notin Reading
    BY <2>2 DEF AccountInv
  <2> QED BY <2>1, <2>2
<1>3. PeerInv'
  BY DEF PeerInv
<1>4. ArrivedInv'
  BY <1>1, ArrivedStill DEF Messages
<1> QED BY <1>2, <1>3, <1>4

-----------------------------------------------------------------------------
\* The users

LEMMA WhereUser ==
    ASSUME TypeOK, PlaceInv, WhereInv, NEW u \in Users, UserCall(u) \/ UserStep(u)
    PROVE  WhereInv'
<1> USE Identities DEF TypeOK, ThreadsOK
<1>1. CASE Start(u)
  <2>1. /\ \A t \in Threads : pc'[t] = IF t = u THEN "submit" ELSE pc[t]
        /\ ~started /\ started' /\ UNCHANGED <<complete, cancelRequested, report>>
    BY <1>1 DEF Start, Goto
  <2> QED BY <2>1 DEF WhereInv
<1>2. CASE Submit(u)
  <2>1. pc[u] = "submit" /\ UNCHANGED <<started, complete, cancelRequested, report>>
    BY <1>2 DEF Submit, Goto
  <2>2. started
    BY <2>1 DEF PlaceInv
  <2>3. CASE pc' = [pc EXCEPT ![u] = "wake", ![Worker] = "poll"] /\ UNCHANGED pollActive
    <3>1. \A t \in Threads : pc'[t] = IF t = Worker THEN "poll" ELSE IF t = u THEN "wake" ELSE pc[t]
      BY <2>3
    <3> QED BY <2>1, <2>3, <3>1 DEF WhereInv, Draining, Delivering
  <2>4. CASE pollActive' = FALSE /\ Goto(u, "unsubmitted")
    <3>1. \A t \in Threads : pc'[t] = IF t = u THEN "unsubmitted" ELSE pc[t]
      BY <2>4 DEF Goto
    <3> QED BY <2>1, <2>2, <2>4, <3>1 DEF WhereInv
  <2> QED BY <1>2, <2>3, <2>4 DEF Submit
<1>3. CASE Cancel(u)
  <2>1. PICK l \in {"rst_notify", "rst_inline"} : \A t \in Threads : pc'[t] = IF t = u THEN l ELSE pc[t]
    BY <1>3 DEF Cancel, Goto
  <2>2. cancelRequested' /\ UNCHANGED <<started, pollActive, complete, report>>
    BY <1>3 DEF Cancel, Goto
  <2> QED BY <2>1, <2>2 DEF WhereInv
<1>4. CASE SubmitFailed(u) \/ CancelReset(u)
  <2>1. PICK l \in {"mark", "wake"} : \A t \in Threads : pc'[t] = IF t = u THEN l ELSE pc[t]
    BY <1>4 DEF SubmitFailed, CancelReset, Deliver, Goto
  <2>2. \A t \in Threads : report'[t] = report[t] \/ (t = u /\ report'[t] \in {"ERROR", "CANCELLED"})
    BY <1>4 DEF SubmitFailed, CancelReset, Deliver, Goto
  <2>3. UNCHANGED <<started, pollActive, complete, cancelRequested>>
    BY <1>4 DEF SubmitFailed, CancelReset, lifecycle
  <2> QED BY <2>1, <2>2, <2>3 DEF WhereInv
<1>5. CASE \/ UserCall(u) /\ ~Start(u) /\ ~Cancel(u)
           \/ Wake(u) \/ Send(u) \/ NotWritable(u) \/ FinishWritesSend(u) \/ FinishWritesArm(u)
  <2>1. UNCHANGED <<started, pollActive, complete, cancelRequested, report>>
    BY <1>5 DEF UserCall, ArmTimer, CancelTimer, SetIdleTimeout, Write, WritesDone,
         FinishWrites, Wake, Send, NotWritable, FinishWritesSend, FinishWritesArm, lifecycle,
         threads, Goto
  <2>2. \/ UNCHANGED pc
        \/ \E l \in {"idle", "send", "not_writable", "send_end", "arm_drain", "wake"} :
              pc' = [pc EXCEPT ![u] = l]
    BY <1>5 DEF UserCall, ArmTimer, CancelTimer, SetIdleTimeout, Write, WritesDone,
         FinishWrites, Wake, Send, NotWritable, FinishWritesSend, FinishWritesArm, Goto, threads
  <2> QED BY <2>1, <2>2 DEF WhereInv
<1> QED BY <1>1, <1>2, <1>3, <1>4, <1>5 DEF UserStep

\* No user reads for the worker or ends a call well.
LEMMA DeliveryUser ==
    ASSUME TypeOK, IInv, PlaceInv, DeliveryInv, NEW u \in Users, UserCall(u) \/ UserStep(u)
    PROVE  DeliveryInv'
<1> USE Identities
<1>1. WhereInv'
  BY WhereUser DEF DeliveryInv
<1>2. UNCHANGED <<complete, active, readsDone, buf, cbs, queue, verdict>> /\ (cancelRequested => cancelRequested')
  BY DEF UserCall, Start, Cancel, ArmTimer, CancelTimer, SetIdleTimeout, Write, WritesDone,
         FinishWrites, UserStep, Submit, SubmitFailed, Wake, CancelReset, Send, NotWritable,
         FinishWritesSend, FinishWritesArm, lifecycle, readSide, ends, logs
<1>3. report'[Worker] = report[Worker]
  BY DEF UserCall, Start, Cancel, ArmTimer, CancelTimer, SetIdleTimeout, Write, WritesDone,
         FinishWrites, UserStep, Submit, SubmitFailed, Wake, CancelReset, Send, NotWritable,
         FinishWritesSend, FinishWritesArm, Goto, Deliver, threads, TypeOK, ThreadsOK
<1>4. pc'[Worker] = pc[Worker] \/ (Submit(u) /\ pc[Worker] = "off" /\ pc'[Worker] = "poll")
  <2>1. CASE Submit(u)
    BY <2>1 DEF Submit, Goto, PlaceInv, TypeOK, ThreadsOK
  <2>2. CASE ~Submit(u)
    BY <2>2 DEF UserCall, Start, Cancel, ArmTimer, CancelTimer, SetIdleTimeout, Write, WritesDone,
         FinishWrites, UserStep, SubmitFailed, Wake, CancelReset, Send, NotWritable,
         FinishWritesSend, FinishWritesArm, Goto, Deliver, threads, TypeOK, ThreadsOK
  <2> QED BY <2>1, <2>2
<1>5. Succeeds' \/ verdict' = "OK" => Succeeds \/ verdict = "OK"
  BY <1>2, <1>3, <1>4 DEF Succeeds
<1>6. CASE SubmitFailed(u) \/ CancelReset(u)
  <2>1. CancelTransport /\ UNCHANGED lifecycle /\ pc'[Worker] = pc[Worker]
    BY <1>4, <1>6 DEF SubmitFailed, CancelReset, Submit
  <2>2. cancelRequested \/ (started /\ ~pollActive)
    BY <1>6 DEF SubmitFailed, CancelReset, DeliveryInv, WhereInv, IInv, CancelInv
  <2>3. ~Reads'
    BY <2>1, <2>2 DEF Reads, lifecycle
  <2> QED BY <1>1, <1>2, <1>5, <2>1, <2>3, DeliveryReset
<1>7. CASE ~SubmitFailed(u) /\ ~CancelReset(u)
  <2>1. UNCHANGED <<inq, peer, sent>>
    BY <1>7 DEF UserCall, Start, Cancel, ArmTimer, CancelTimer, SetIdleTimeout, Write, WritesDone,
         FinishWrites, UserStep, Submit, Wake, Send, NotWritable, FinishWritesSend, FinishWritesArm,
         transport
  <2>2. (started' => pollActive') => (started => pollActive)
    <3>1. CASE Start(u)
      BY <3>1 DEF Start
    <3>2. CASE Submit(u)
      BY <3>2 DEF Submit
    <3>3. CASE ~Start(u) /\ ~Submit(u)
      BY <1>7, <3>3 DEF UserCall, Cancel, ArmTimer, CancelTimer, SetIdleTimeout, Write, WritesDone,
           FinishWrites, UserStep, Wake, Send, NotWritable, FinishWritesSend, FinishWritesArm,
           lifecycle
    <3> QED BY <3>1, <3>2, <3>3
  <2>3. Reads' => Reads
    BY <1>2, <1>4, <2>2 DEF Reads, Reading
  <2>4. readsDone /\ Reads' => pc'[Worker] \in {"frames", "message"}
    BY <1>4, <2>3 DEF DeliveryInv, PeerInv
  <2>5. active' /\ pc'[Worker] \in Reading =>
            active /\ pc[Worker] \in Reading /\ (pc'[Worker] = "message" <=> pc[Worker] = "message")
    BY <1>2, <1>4 DEF Reading
  <2> QED BY <1>1, <1>2, <1>5, <2>1, <2>3, <2>4, <2>5, DeliveryStill
<1> QED BY <1>6, <1>7

-----------------------------------------------------------------------------
\* The worker

LEMMA WhereWorker ==
    ASSUME TypeOK, WhereInv, WorkerStep
    PROVE  WhereInv'
<1> USE Identities DEF TypeOK, ThreadsOK
<1>1. UNCHANGED <<started, pollActive, complete, cancelRequested>>
  BY DEF WorkerStep, WakeUp, ContinuePoll, CheckCancelled, ReadNothing, ReadClosed,
         ReadError, ReadEnd, ReadHeaders, ReadChunk, ReadItem, TakeFrame, FrameTooLarge,
         FramesExhausted, DeliverEvent, FireTimers, TimerCallback, TimersFired, CheckDeadlines,
         Rearm, DrainCaught, lifecycle
<1>2. (\E l : Goto(Worker, l)) \/ (\E s, b : Deliver(Worker, s, b))
  BY DEF WorkerStep, WakeUp, ContinuePoll, CheckCancelled, ReadNothing, ReadClosed,
         ReadError, ReadEnd, ReadHeaders, ReadChunk, TakeFrame, FrameTooLarge,
         FramesExhausted, DeliverEvent, FireTimers, TimerCallback, TimersFired, CheckDeadlines,
         Rearm, DrainCaught
<1>3. \A t \in Threads \ {Worker} : pc'[t] = pc[t] /\ report'[t] = report[t]
  BY <1>2 DEF Goto, Deliver
<1>4. complete /\ pc[Worker] \notin Draining \cup {"drain"} => pc'[Worker] \notin Draining \cup {"drain"}
  <2> SUFFICES ASSUME complete, pc[Worker] \notin Draining \cup {"drain"}
               PROVE  pc'[Worker] \notin Draining \cup {"drain"}
    OBVIOUS
  <2>1. WakeUp \/ ContinuePoll \/ DrainCaught
    BY DEF WorkerStep, CheckCancelled, ReadNothing, ReadClosed, ReadError, ReadEnd, ReadHeaders,
           ReadChunk, ReadItem, TakeFrame, FrameTooLarge, FramesExhausted, DeliverEvent, FireTimers,
           TimerCallback, TimersFired, CheckDeadlines, Rearm, Draining, Delivering
  <2> QED BY <2>1 DEF WakeUp, ContinuePoll, DrainCaught, Goto, Deliver, Draining, Delivering
<1> QED BY <1>1, <1>3, <1>4 DEF WhereInv

\* The worker's place, and the end it reports
LEMMA WorkerMoves ==
    ASSUME TypeOK
    PROVE  /\ \A l : Goto(Worker, l) => pc'[Worker] = l /\ report' = report
           /\ \A s, b : Deliver(Worker, s, b) => pc'[Worker] = "mark" /\ report'[Worker] = s
  BY Identities DEF TypeOK, ThreadsOK, Goto, Deliver

\* Steps of the worker that read nothing, deliver nothing and end nothing well
LEMMA DeliveryMove ==
    ASSUME TypeOK, DeliveryInv, WhereInv',
           UNCHANGED <<lifecycle, readsDone, buf, transport, logs, verdict>>,
           pc[Worker] \in Reading \ {"frames", "message"},
           \/ \E l : Goto(Worker, l) /\ l # "message" /\ l # "mark"
           \/ \E s, b : Deliver(Worker, s, b) /\ s # "OK"
    PROVE  DeliveryInv'
<1>1. /\ pc'[Worker] # "message"
      /\ pc'[Worker] = "mark" => report'[Worker] # "OK"
  BY WorkerMoves
<1>2. Reads' => Reads
  BY DEF Reads, lifecycle
<1>3. readsDone => ~Reads'
  BY <1>2 DEF DeliveryInv, PeerInv
<1> QED BY <1>1, <1>2, <1>3, DeliveryStill DEF Succeeds, lifecycle, transport, logs

\* Steps that reset the stream and report why
LEMMA DeliveryAbandon ==
    ASSUME TypeOK, DeliveryInv, WhereInv', CancelTransport,
           UNCHANGED <<lifecycle, logs, verdict>>,
           \E s, b : Deliver(Worker, s, b) /\ s # "OK"
    PROVE  DeliveryInv'
<1>1. pc'[Worker] = "mark" /\ report'[Worker] # "OK"
  BY WorkerMoves
<1>2. pc'[Worker] \notin Reading
  BY <1>1 DEF Reading, Draining, Delivering
<1> QED BY <1>1, <1>2, DeliveryReset DEF Reads, Succeeds, lifecycle, logs

\* An item is read that is no message.
LEMMA AccountRead ==
    ASSUME TypeOK, AccountInv, inq # <<>>, inq' = Tail(inq),
           UNCHANGED <<active, sent, cbs, queue>>,
           [frames |-> buf'.frames, tail |-> buf'.tail] = Fed([frames |-> buf.frames, tail |-> buf.tail], Head(inq)),
           pc[Worker] \in Reading \ {"message"}, pc'[Worker] # "message"
    PROVE  AccountInv'
<1> SUFFICES ASSUME active, pc'[Worker] \in Reading
             PROVE  \E n \in Nat :
                       /\ Handed(n)'
                       /\ Through(inq', [frames |-> n + buf'.frames, tail |-> buf'.tail],
                                        [frames |-> sent.frames, tail |-> sent.tail])
  BY DEF AccountInv
<1> DEFINE first(n) == [frames |-> n + buf.frames, tail |-> buf.tail]
           last == [frames |-> sent.frames, tail |-> sent.tail]
<1>1. PICK n \in Nat : Handed(n) /\ Through(inq, first(n), last)
  BY DEF AccountInv
<1>2. Handed(n)'
  BY <1>1 DEF Handed, InHand, Messages
<1>3. Through(Tail(inq), Fed(first(n), Head(inq)), last)
  <2>1. inq \in Seq(Items)
    BY DEF TypeOK, StateOK, Items
  <2> HIDE DEF first, last
  <2> QED BY <1>1, <2>1, ThroughTail
<1>4. Fed(first(n), Head(inq)) = [frames |-> n + buf'.frames, tail |-> buf'.tail]
  <2>0. buf.frames \in Nat
    BY DEF TypeOK, StateOK
  <2>1. CASE Head(inq) \in Chunks
    BY <2>0, <2>1, ChunkTypes DEF Fed
  <2>2. CASE Head(inq) \notin Chunks
    BY <2>2 DEF Fed
  <2> QED BY <2>1, <2>2
<1> QED BY <1>2, <1>3, <1>4

\* What the worker reads takes the server's end with it when it is the end.
LEMMA DeliveryRead ==
    ASSUME TypeOK, PlaceInv, DeliveryInv, WhereInv',
           ReadError \/ ReadEnd \/ ReadHeaders \/ ReadChunk
    PROVE  DeliveryInv'
<1> USE DEF DeliveryInv
<1>1. /\ pc[Worker] = "read" /\ inq # <<>> /\ inq' = Tail(inq)
      /\ UNCHANGED <<lifecycle, peer, sent, verdict, cbs, queue>>
  BY DEF ReadError, ReadEnd, ReadHeaders, ReadChunk, ReadItem, Goto, Deliver, ends, logs
<1>2. /\ ReadError => pc'[Worker] = "mark" /\ report'[Worker] = "ERROR"
      /\ ReadEnd \/ ReadChunk => pc'[Worker] = "frames"
      /\ ReadHeaders => pc'[Worker] \in {"read", "headers"}
  BY WorkerMoves DEF ReadError, ReadEnd, ReadHeaders, ReadChunk
<1>3. inq \in Seq(Items)
  BY DEF TypeOK, StateOK, Items
<1>4. AccountInv'
  <2>1. buf \in [frames : Nat, tail : {"none", "part", "big"}]
    BY DEF TypeOK, StateOK
  <2>2. [frames |-> buf'.frames, tail |-> buf'.tail] = Fed([frames |-> buf.frames, tail |-> buf.tail], Head(inq))
    <3>1. CASE ReadChunk
      BY <2>1, <3>1 DEF ReadChunk, Fed
    <3>2. CASE ~ReadChunk
      <4>1. buf' = buf /\ Head(inq) \notin Chunks
        BY <3>2, ChunkTypes DEF ReadError, ReadEnd, ReadHeaders, readSide
      <4> QED BY <4>1 DEF Fed
    <3> QED BY <3>1, <3>2
  <2> QED BY <1>1, <1>2, <2>2, AccountRead DEF lifecycle, Reading, Draining, Delivering
<1>5. PeerInv'
  <2> SUFFICES ASSUME Reads' PROVE PeerInv'
    BY DEF PeerInv
  <2>1. Reads /\ ~ReadError
    BY <1>1, <1>2 DEF Reads, Reading, Draining, Delivering, lifecycle
  <2>2. /\ peer # "cancelled" /\ ~readsDone
        /\ peer # "open" => inq[Len(inq)] = IF peer = "ended" THEN "end" ELSE "error"
        /\ \A i \in 1..Len(inq) : inq[i] \in {"end", "error"} => i = Len(inq) /\ peer # "open"
    BY <1>1, <2>1 DEF PeerInv
  <2>3. /\ Len(inq) \in Nat /\ Len(inq) > 0 /\ Head(inq) = inq[1] /\ Len(inq') = Len(inq) - 1
        /\ \A i \in 1..Len(inq') : inq'[i] = inq[i + 1]
    BY <1>1, <1>3
  <2>4. ASSUME NEW i \in 1..Len(inq'), inq'[i] \in {"end", "error"}
        PROVE  i = Len(inq') /\ peer' # "open"
    <3>1. i + 1 \in 1..Len(inq) /\ inq[i + 1] \in {"end", "error"}
      BY <2>3, <2>4
    <3>2. i + 1 = Len(inq) /\ peer # "open"
      BY <2>2, <3>1
    <3>3. i = Len(inq')
      BY <2>3, <3>2
    <3> QED BY <1>1, <3>2, <3>3
  <2>5. CASE ReadEnd
    <3>1. Head(inq) = "end" /\ readsDone'
      BY <2>5 DEF ReadEnd
    <3>2. Len(inq) = 1 /\ peer = "ended"
      BY <2>2, <2>3, <3>1
    <3>3. inq' = <<>>
      BY <1>1, <1>3, <3>2
    <3> QED BY <1>1, <1>2, <2>4, <2>5, <3>1, <3>2, <3>3 DEF PeerInv
  <2>6. CASE ~ReadEnd
    <3>1. ReadHeaders \/ ReadChunk
      BY <2>1, <2>6
    <3>2. ~readsDone' /\ Head(inq) \notin {"end", "error"}
      BY <2>2, <3>1, ChunkTypes DEF ReadHeaders, ReadChunk
    <3>3. peer # "open" => inq' # <<>> /\ inq'[Len(inq')] = inq[Len(inq)]
      <4> SUFFICES ASSUME peer # "open" PROVE inq' # <<>> /\ inq'[Len(inq')] = inq[Len(inq)]
        OBVIOUS
      <4>1. Len(inq) # 1
        BY <2>2, <2>3, <3>2
      <4>2. Len(inq') > 0 /\ Len(inq') \in 1..Len(inq')
        BY <2>3, <4>1
      <4> QED BY <2>3, <4>2
    <3> QED BY <1>1, <2>2, <2>4, <3>2, <3>3 DEF PeerInv
  <2> QED BY <2>5, <2>6
<1>6. ArrivedInv'
  <2>1. ~Succeeds'
    BY <1>2 DEF Succeeds
  <2> QED BY <1>1, <2>1, ArrivedStill DEF Messages
<1> QED BY <1>4, <1>5, <1>6

\* A frame is taken: it is in the worker's hand unless the stream has ended.
LEMMA DeliveryTake ==
    ASSUME TypeOK, DeliveryInv, WhereInv', TakeFrame
    PROVE  DeliveryInv'
<1> USE DEF DeliveryInv
<1>1. /\ pc[Worker] = "frames" /\ buf.frames > 0 /\ buf' = [buf EXCEPT !.frames = @ - 1]
      /\ UNCHANGED <<lifecycle, readsDone, inq, peer, sent, verdict, cbs, queue>>
      /\ active => pc'[Worker] = "message"
  BY WorkerMoves DEF TakeFrame, transport, ends, logs
<1>2. pc[Worker] \in Reading
  BY <1>1 DEF Reading, Draining, Delivering
<1>3. AccountInv'
  <2> SUFFICES ASSUME active PROVE AccountInv'
    BY <1>1 DEF AccountInv, lifecycle
  <2> DEFINE last == [frames |-> sent.frames, tail |-> sent.tail]
  <2>1. PICK n \in Nat : /\ Handed(n)
                         /\ Through(inq, [frames |-> n + buf.frames, tail |-> buf.tail], last)
    BY <1>2 DEF AccountInv
  <2>2. buf \in [frames : Nat, tail : {"none", "part", "big"}]
    BY DEF TypeOK, StateOK
  <2>3. (n + 1) + buf'.frames = n + buf.frames /\ buf'.tail = buf.tail /\ n + 1 \in Nat
    BY <1>1, <2>2
  <2>4. Handed(n + 1)'
    <3>1. Messages(cbs)' = Messages(cbs) /\ Messages(queue)' = Messages(queue)
      BY <1>1 DEF Messages
    <3>2. Messages(cbs) \in Nat /\ Messages(queue) \in Nat
      BY MessagesType DEF TypeOK, LogsOK
    <3>3. InHand = 0 /\ InHand' = 1
      BY <1>1 DEF InHand
    <3> QED BY <2>1, <3>1, <3>2, <3>3 DEF Handed
  <2>5. Through(inq', [frames |-> (n + 1) + buf'.frames, tail |-> buf'.tail],
                      [frames |-> sent'.frames, tail |-> sent'.tail])
    BY <1>1, <2>1, <2>3
  <2> QED BY <2>3, <2>4, <2>5 DEF AccountInv
<1>4. PeerInv'
  BY <1>1, <1>2, PeerStill DEF Reads, lifecycle
<1>5. ArrivedInv'
  <2>1. ~Succeeds'
    BY <1>1 DEF Succeeds, lifecycle
  <2> QED BY <1>1, <2>1, ArrivedStill DEF Messages
<1> QED BY <1>3, <1>4, <1>5

\* No frame is left: the call ends well only if the stream ended, behind a whole
\* message, with nothing waiting.
LEMMA DeliveryExhausted ==
    ASSUME TypeOK, PlaceInv, DeliveryInv, WhereInv', FramesExhausted
    PROVE  DeliveryInv'
<1> USE DEF DeliveryInv
<1>1. /\ pc[Worker] = "frames" /\ buf.frames = 0 /\ buf.tail # "big"
      /\ UNCHANGED <<lifecycle, readsDone, inq, peer, sent, verdict, cbs, queue>>
  BY DEF FramesExhausted, transport, ends, logs
<1>2. pc[Worker] \in Reading \cap Draining
  BY <1>1 DEF Reading, Draining, Delivering
<1>3. CASE ~readsDone
  <2>1. pc'[Worker] = "check" /\ buf' = buf
    BY <1>3, WorkerMoves DEF FramesExhausted
  <2> QED BY <1>1, <1>2, <1>3, <2>1, DeliveryStill DEF Reads, Succeeds, lifecycle
<1>4. CASE readsDone
  <2>1. /\ pc'[Worker] = "mark"
        /\ report'[Worker] = IF buf.tail = "part" THEN "DATA_LOSS" ELSE "OK"
    BY <1>4, WorkerMoves DEF FramesExhausted
  <2>2. pc'[Worker] \notin Reading
    BY <2>1 DEF Reading, Draining, Delivering
  <2>3. AccountInv' /\ PeerInv'
    BY <2>2 DEF AccountInv, PeerInv, Reads
  <2>4. Succeeds' => AllArrived
    <3> SUFFICES ASSUME Succeeds' PROVE AllArrived
      OBVIOUS
    <3>1. active /\ ~cancelRequested /\ buf.tail # "part"
      BY <1>1, <2>1 DEF Succeeds, lifecycle
    <3>2. Reads
      BY <1>2, <3>1 DEF Reads, WhereInv, PlaceInv
    <3>3. peer = "ended" /\ inq = <<>>
      BY <1>4, <3>2 DEF PeerInv
    <3>4. PICK n \in Nat : /\ Handed(n)
                           /\ Through(<<>>, [frames |-> n + buf.frames, tail |-> buf.tail],
                                            [frames |-> sent.frames, tail |-> sent.tail])
      BY <1>2, <3>1, <3>3 DEF AccountInv
    <3>5. n + buf.frames = sent.frames /\ buf.tail = sent.tail
      BY <3>4, ThroughEmpty
    <3>6. n = sent.frames /\ sent.tail = "none"
      BY <1>1, <3>1, <3>5 DEF TypeOK, StateOK
    <3>7. Messages(cbs) \in Nat /\ Messages(queue) \in Nat /\ InHand = 0
      BY <1>1, MessagesType DEF TypeOK, LogsOK, InHand
    <3> QED BY <3>3, <3>4, <3>6, <3>7 DEF AllArrived, Handed
  <2>5. ArrivedInv'
    BY <1>1, <2>4 DEF ArrivedInv, AllArrived, Messages
  <2> QED BY <2>3, <2>5
<1> QED BY <1>3, <1>4

\* A message leaves the worker's hand, and headers are no message.
LEMMA DeliveryEvent ==
    ASSUME TypeOK, IInv, PlaceInv, DeliveryInv, WhereInv',
           DeliverEvent("message", "frames") \/ DeliverEvent("headers", "read")
    PROVE  DeliveryInv'
<1> USE DEF DeliveryInv
<1> DEFINE k == pc[Worker]
<1>1. /\ k \in Delivering
      /\ UNCHANGED <<lifecycle, readsDone, buf, inq, peer, sent, verdict>>
      /\ \/ /\ Log(k, <<k>>)
            /\ pc'[Worker] = IF k = "message" THEN "frames" ELSE "read"
         \/ Throws(k) /\ pc'[Worker] = "caught"
  BY WorkerMoves DEF DeliverEvent, Delivering, readSide, transport, ends
<1>2. active /\ verdict = "none" /\ k \in Reading
  BY <1>1 DEF PlaceInv, IInv, EndsInv, Reading, Draining
<1>3. AccountInv'
  <2> SUFFICES ASSUME pc'[Worker] \in Reading PROVE AccountInv'
    BY DEF AccountInv
  <2>1. Log(k, <<k>>) /\ pc'[Worker] = IF k = "message" THEN "frames" ELSE "read"
    BY <1>1 DEF Reading, Draining, Delivering
  <2>2. PICK n \in Nat : /\ Handed(n)
                         /\ Through(inq, [frames |-> n + buf.frames, tail |-> buf.tail],
                                         [frames |-> sent.frames, tail |-> sent.tail])
    BY <1>2 DEF AccountInv
  <2>3. Handed(n)'
    <3>1. /\ cbs \in Seq({"headers", "message"} \cup Terminal) /\ k \in {"headers", "message"} \cup Terminal
          /\ queue \in Seq({"headers", "message", "sentinel"} \cup Terminal)
          /\ k \in {"headers", "message", "sentinel"} \cup Terminal
      BY <1>1 DEF TypeOK, LogsOK, Delivering
    <3>2. queue \o <<k>> = Append(queue, k)
      BY <3>1
    <3>3. /\ "callbacks" \in Sinks => Messages(cbs)' = Messages(Append(cbs, k))
          /\ "queue" \in Sinks => Messages(queue)' = Messages(Append(queue, k))
      BY <2>1, <3>2 DEF Log, Messages
    <3>4. /\ Messages(Append(cbs, k)) = IF k = "message" THEN Messages(cbs) + 1 ELSE Messages(cbs)
          /\ Messages(Append(queue, k)) = IF k = "message" THEN Messages(queue) + 1 ELSE Messages(queue)
      BY <3>1, MessagesAppend
    <3>5. Messages(cbs) \in Nat /\ Messages(queue) \in Nat
      BY <3>1, MessagesType
    <3>6. InHand = (IF k = "message" THEN 1 ELSE 0) /\ InHand' = 0
      BY <2>1 DEF InHand
    <3> QED BY <2>2, <3>3, <3>4, <3>5, <3>6 DEF Handed
  <2> QED BY <1>1, <2>2, <2>3 DEF AccountInv
<1>4. PeerInv'
  <2> SUFFICES ASSUME Reads' PROVE PeerInv'
    BY DEF PeerInv
  <2>1. Reads /\ pc'[Worker] # "caught"
    BY <1>1, <1>2 DEF Reads, Reading, Draining, Delivering, lifecycle
  <2>2. readsDone => k = "message" /\ pc'[Worker] = "frames"
    BY <1>1, <2>1 DEF PeerInv, Delivering
  <2> QED BY <1>1, <2>1, <2>2, PeerStill
<1>5. ArrivedInv'
  <2>1. ~Succeeds' /\ verdict' # "OK"
    BY <1>1, <1>2 DEF Succeeds
  <2> QED BY <2>1 DEF ArrivedInv
<1> QED BY <1>3, <1>4, <1>5

\* Every step of the drain keeps the account.
LEMMA DeliveryWorker ==
    ASSUME TypeOK, IInv, PlaceInv, DeliveryInv, WorkerStep
    PROVE  DeliveryInv'
<1>1. WhereInv'
  BY WhereWorker DEF DeliveryInv
<1> USE DEF lifecycle, readSide, transport, ends
<1>2. CASE WakeUp \/ ContinuePoll \/ ReadNothing \/ FireTimers \/ Rearm
  <2>1. /\ UNCHANGED <<lifecycle, readsDone, buf, transport, logs, verdict>>
        /\ pc[Worker] \in Reading \ {"frames", "message"}
    BY <1>2 DEF WakeUp, ContinuePoll, ReadNothing, FireTimers, Rearm, Reading, Draining
  <2>2. \E l : Goto(Worker, l) /\ l # "message" /\ l # "mark"
    BY <1>2 DEF WakeUp, ContinuePoll, ReadNothing, FireTimers, Rearm
  <2> QED BY <1>1, <2>1, <2>2, DeliveryMove
<1>3. ASSUME NEW here \in {"drain", "check", "timer"}, NEW next \in {"read", "deadlines"},
             CheckCancelled(here, next)
      PROVE  DeliveryInv'
  <2>1. /\ UNCHANGED <<lifecycle, readsDone, buf, transport, logs, verdict>>
        /\ pc[Worker] \in Reading \ {"frames", "message"}
    BY <1>3 DEF CheckCancelled, Reading, Draining
  <2>2. \/ \E l : Goto(Worker, l) /\ l # "message" /\ l # "mark"
        \/ \E s, b : Deliver(Worker, s, b) /\ s # "OK"
    BY <1>3 DEF CheckCancelled
  <2> QED BY <1>1, <2>1, <2>2, DeliveryMove
<1>4. ASSUME NEW name \in Timers, TimerCallback(name) PROVE DeliveryInv'
  <2>1. /\ UNCHANGED <<lifecycle, readsDone, buf, transport, logs, verdict>>
        /\ pc[Worker] \in Reading \ {"frames", "message"}
    BY <1>4 DEF TimerCallback, Reading, Draining
  <2>2. \E l : Goto(Worker, l) /\ l # "message" /\ l # "mark"
    BY <1>4 DEF TimerCallback
  <2> QED BY <1>1, <2>1, <2>2, DeliveryMove
<1>5. CASE FrameTooLarge \/ DrainCaught
  <2>1. CancelTransport /\ UNCHANGED <<lifecycle, logs, verdict>> /\ \E s, b : Deliver(Worker, s, b) /\ s # "OK"
    BY <1>5 DEF FrameTooLarge, DrainCaught
  <2> QED BY <1>1, <2>1, DeliveryAbandon
<1>6. CASE CheckDeadlines
  <2>1. UNCHANGED <<lifecycle, readsDone, buf, logs, verdict>> /\ pc[Worker] \in Reading \ {"frames", "message"}
    BY <1>6 DEF CheckDeadlines, Reading, Draining
  <2>2. CASE CancelTransport /\ \E s, b : Deliver(Worker, s, b) /\ s # "OK"
    BY <1>1, <2>1, <2>2, DeliveryAbandon
  <2>3. CASE Goto(Worker, "rearm") /\ UNCHANGED transport
    BY <1>1, <2>1, <2>3, DeliveryMove
  <2> QED BY <1>6, <2>2, <2>3 DEF CheckDeadlines
<1>7. CASE ReadClosed
  <2>1. /\ pc[Worker] = "read" /\ inq = <<>> /\ peer # "open"
        /\ UNCHANGED <<lifecycle, buf, inq, peer, sent, cbs, queue, verdict>>
    BY <1>7 DEF ReadClosed, logs
  <2>2. /\ pc'[Worker] \in {"mark", "frames"}
        /\ pc'[Worker] = "mark" => report'[Worker] = "ERROR"
    BY <1>7, WorkerMoves DEF ReadClosed
  <2>3. pc[Worker] \in Reading
    BY <2>1 DEF Reading, Draining
  <2>4. ~Reads'
    <3>1. ~Reads
      BY <2>1 DEF DeliveryInv, PeerInv
    <3> QED BY <2>1, <2>3, <3>1 DEF Reads
  <2>5. AccountInv'
    BY <2>1, <2>2, <2>3, AccountStill DEF DeliveryInv
  <2>6. ~Succeeds'
    BY <2>2 DEF Succeeds
  <2>7. ArrivedInv'
    BY <2>1, <2>6, ArrivedStill DEF DeliveryInv, Messages
  <2> QED BY <1>1, <2>4, <2>5, <2>7 DEF DeliveryInv, PeerInv
<1>8. CASE ReadError \/ ReadEnd \/ ReadHeaders \/ ReadChunk
  BY <1>1, <1>8, DeliveryRead
<1>9. CASE TakeFrame
  BY <1>1, <1>9, DeliveryTake
<1>10. CASE FramesExhausted
  BY <1>1, <1>10, DeliveryExhausted
<1>11. CASE DeliverEvent("message", "frames") \/ DeliverEvent("headers", "read")
  BY <1>1, <1>11, DeliveryEvent
<1> QED
  BY <1>2, <1>3, <1>4, <1>5, <1>6, <1>7, <1>8, <1>9, <1>10, <1>11 DEF WorkerStep, TimersFired

-----------------------------------------------------------------------------
\* The end of the call

LEMMA WhereEnd ==
    ASSUME TypeOK, IInv, PlaceInv, WhereInv, NEW t \in Threads,
           TerminalStep(t) \/ PollDone(t) \/ PollDoneCheck(t)
    PROVE  WhereInv'
<1> USE Identities DEF TypeOK, ThreadsOK
<1>1. PICK l \in {"store", "emit", "mark", "caught", "done_check", "idle", "done", "gone"} :
          \A v \in Threads : pc'[v] = IF v = t THEN l ELSE pc[v]
  <2>1. ret[t] \in {"idle", "done", "gone"}
    OBVIOUS
  <2>2. \E l \in {"store", "emit", "mark", "caught", "done_check", "idle", "done", "gone"} :
            pc' = [pc EXCEPT ![t] = l]
    BY <2>1 DEF TerminalStep, MarkInactive, StoreOutcome, EmitTerminal, PollDone,
                PollDoneCheck, Goto, Deliver
  <2> QED BY <2>2
<1>2. \A v \in Threads : report'[v] = report[v] \/ report'[v] \in {"ERROR", "CANCELLED"}
  BY DEF TerminalStep, MarkInactive, StoreOutcome, EmitTerminal, PollDone, PollDoneCheck, Goto,
         Deliver
<1>3. UNCHANGED <<started, cancelRequested>> /\ (pollActive' => pollActive)
  BY DEF TerminalStep, MarkInactive, StoreOutcome, EmitTerminal, PollDone, PollDoneCheck, lifecycle
<1>4. complete' => complete \/ (PollDone(t) /\ t = Worker)
  <2>1. CASE PollDone(t)
    <3>1. t \notin Users
      BY <2>1 DEF PollDone, IInv, CancelInv, DoneLabels
    <3>2. t = Controller => complete
      BY <2>1 DEF PollDone, PlaceInv
    <3> QED BY <2>1, <3>1, <3>2 DEF Threads
  <2>2. CASE ~PollDone(t)
    BY <2>2 DEF TerminalStep, MarkInactive, StoreOutcome, EmitTerminal, PollDoneCheck, lifecycle
  <2> QED BY <2>1, <2>2
<1>5. complete' => pc'[Worker] \notin Draining \cup {"drain"}
  <2>1. t = Worker => pc'[Worker] \notin Draining \cup {"drain"}
    BY <1>1 DEF Draining, Delivering
  <2>2. t # Worker => pc'[Worker] = pc[Worker]
    BY <1>1
  <2> QED BY <1>4, <2>1, <2>2 DEF WhereInv
<1> QED BY <1>1, <1>2, <1>3, <1>5 DEF WhereInv

\* The end comes from the worker's report or is no success.
LEMMA DeliveryEnd ==
    ASSUME TypeOK, IInv, PlaceInv, DeliveryInv, NEW t \in Threads,
           TerminalStep(t) \/ PollDone(t) \/ PollDoneCheck(t)
    PROVE  DeliveryInv'
<1> USE Identities
<1>1. WhereInv'
  BY WhereEnd DEF DeliveryInv
<1>2. ASSUME ~active', UNCHANGED <<peer, sent>>,
             Messages(cbs)' = Messages(cbs), Messages(queue)' = Messages(queue),
             verdict' = "OK" => Succeeds \/ verdict = "OK"
      PROVE  DeliveryInv'
  <2>1. AccountInv' /\ PeerInv'
    BY <1>2 DEF AccountInv, PeerInv, Reads
  <2>2. ArrivedInv'
    BY <1>2, ArrivedStill DEF DeliveryInv, Succeeds
  <2> QED BY <1>1, <2>1, <2>2 DEF DeliveryInv
<1>3. CASE MarkInactive(t)
  <2>1. UNCHANGED <<peer, sent, cbs, queue>> /\ ~active'
    BY <1>3 DEF MarkInactive, transport, logs
  <2>2. verdict' = "OK" => Succeeds \/ verdict = "OK"
    <3>1. t # Worker => report[t] # "OK"
      BY DEF DeliveryInv, WhereInv, Threads
    <3> QED BY <1>3, <3>1 DEF MarkInactive, Succeeds
  <2> QED BY <1>2, <2>1, <2>2 DEF Messages
<1>4. CASE StoreOutcome(t)
  <2>1. ~active /\ UNCHANGED <<lifecycle, peer, sent, cbs, queue, verdict>>
    BY <1>4 DEF StoreOutcome, transport, logs, IInv, EndsInv, Ending
  <2> QED BY <1>2, <2>1 DEF Messages, lifecycle
<1>5. CASE EmitTerminal(t)
  <2>1. ~active /\ UNCHANGED <<lifecycle, peer, sent, verdict>>
    BY <1>5 DEF EmitTerminal, transport, ends, IInv, EndsInv, Ending
  <2>2. PICK k \in Terminal : Log(k, <<k, "sentinel">>) \/ Throws(k)
    BY <1>5 DEF EmitTerminal, Terminal
  <2>3. k # "message" /\ cbs' \in {cbs, Append(cbs, k)} /\ queue' \in {queue, queue \o <<k, "sentinel">>}
    BY <2>2 DEF Log, Throws, Terminal
  <2> DEFINE E == {"headers", "message", "sentinel"} \cup Terminal
  <2>4. /\ cbs \in Seq(E) /\ queue \in Seq(E) /\ k \in E /\ "sentinel" \in E
        /\ Append(queue, k) \in Seq(E)
    BY DEF TypeOK, LogsOK
  <2>5. queue \o <<k, "sentinel">> = Append(Append(queue, k), "sentinel")
    BY <2>4
  <2>6. Messages(Append(cbs, k)) = Messages(cbs)
        /\ Messages(Append(Append(queue, k), "sentinel")) = Messages(queue)
    <3> HIDE DEF E
    <3> QED BY <2>3, <2>4, MessagesAppend
  <2>7. Messages(cbs)' = Messages(cbs) /\ Messages(queue)' = Messages(queue)
    BY <2>3, <2>5, <2>6 DEF Messages
  <2> QED BY <1>2, <2>1, <2>7 DEF lifecycle
<1>6. t \in {Worker, Controller} \/ TerminalStep(t)
  BY DEF PollDone, PollDoneCheck, IInv, CancelInv, DoneLabels, Threads
<1>7. CASE PollDone(t)
  <2>1. /\ complete' /\ pc[t] = "done" /\ pc'[t] = "done_check" /\ report' = report
        /\ \A v \in Threads \ {t} : pc'[v] = pc[v]
        /\ UNCHANGED <<active, buf, sent, cbs, queue, inq, peer, readsDone, cancelRequested, verdict>>
    BY <1>7 DEF PollDone, Goto, readSide, transport, logs, ends, TypeOK, ThreadsOK
  <2>2. pc'[Worker] = pc[Worker] \/ pc'[Worker] = "done_check"
    BY <2>1
  <2>3. "done_check" \notin Reading
    BY DEF Reading, Draining, Delivering
  <2>4. ~Reads'
    BY <2>1 DEF Reads
  <2>5. Succeeds' => Succeeds
    BY <2>1, <2>2 DEF Succeeds
  <2> QED BY <1>1, <2>1, <2>2, <2>3, <2>4, <2>5, DeliveryStill
<1>8. CASE PollDoneCheck(t)
  <2>1. /\ pc[t] = "done_check" /\ UNCHANGED <<lifecycle, buf, readsDone, cbs, queue, verdict>>
        /\ (IF active THEN CancelTransport /\ Deliver(t, "CANCELLED", "gone")
                      ELSE Goto(t, "gone") /\ UNCHANGED transport)
    BY <1>8 DEF PollDoneCheck, readSide, logs, ends
  <2>2. CASE ~active
    BY <1>2, <2>1, <2>2 DEF lifecycle, transport, Messages
  <2>3. CASE active
    <3>1. t = Controller
      BY <1>6, <1>8, <2>1, <2>3 DEF IInv, CancelInv, TerminalStep, MarkInactive, StoreOutcome, EmitTerminal
    <3>2. complete
      BY <2>1, <3>1 DEF PlaceInv
    <3>3. pc'[Worker] = pc[Worker] /\ report'[Worker] = report[Worker]
      BY <2>1, <2>3, <3>1 DEF Deliver, TypeOK, ThreadsOK
    <3>4. ~Reads'
      BY <2>1, <3>2 DEF Reads, lifecycle
    <3>5. Succeeds' => Succeeds
      BY <2>1, <3>3 DEF Succeeds, lifecycle
    <3> QED BY <1>1, <2>1, <2>3, <3>3, <3>4, <3>5, DeliveryReset DEF lifecycle
  <2> QED BY <2>2, <2>3
<1> QED BY <1>3, <1>4, <1>5, <1>7, <1>8 DEF TerminalStep

-----------------------------------------------------------------------------
\* The server, the clock and the controller

\* What the server sends goes behind what waits.
LEMMA AccountSent ==
    ASSUME TypeOK, AccountInv, NEW item \in Items, inq' = Append(inq, item),
           UNCHANGED <<active, pc, buf, cbs, queue>>,
           [frames |-> sent'.frames, tail |-> sent'.tail] = Fed([frames |-> sent.frames, tail |-> sent.tail], item)
    PROVE  AccountInv'
<1> SUFFICES ASSUME active, pc[Worker] \in Reading PROVE AccountInv'
  BY DEF AccountInv
<1> DEFINE first(n) == [frames |-> n + buf.frames, tail |-> buf.tail]
           last == [frames |-> sent.frames, tail |-> sent.tail]
<1>1. PICK n \in Nat : Handed(n) /\ Through(inq, first(n), last)
  BY DEF AccountInv
<1>2. Handed(n)'
  BY <1>1 DEF Handed, InHand, Messages
<1>3. Through(Append(inq, item), first(n), Fed(last, item))
  <2>1. inq \in Seq(Items)
    BY DEF TypeOK, StateOK, Items
  <2> HIDE DEF first, last
  <2> QED BY <1>1, <2>1, ThroughAppend
<1> QED BY <1>2, <1>3 DEF AccountInv

\* Nothing follows the end of the stream, which comes once.
LEMMA PeerSent ==
    ASSUME TypeOK, PeerInv, peer = "open", NEW item \in Items, inq' = Append(inq, item),
           UNCHANGED <<lifecycle, pc, readsDone>>,
           peer' = CASE item = "end" -> "ended" [] item = "error" -> "reset" [] OTHER -> "open"
    PROVE  PeerInv'
<1> SUFFICES ASSUME Reads' PROVE PeerInv'
  BY DEF PeerInv
<1>1. Reads
  BY DEF Reads, lifecycle
<1>2. ~readsDone /\ \A i \in 1..Len(inq) : inq[i] \notin {"end", "error"}
  BY <1>1 DEF PeerInv
<1>3. inq \in Seq(Items)
  BY DEF TypeOK, StateOK, Items
<1>4. /\ Len(inq) \in Nat /\ Len(inq') = Len(inq) + 1 /\ inq'[Len(inq')] = item
      /\ \A i \in 1..Len(inq) : inq'[i] = inq[i]
  BY <1>3
<1>5. peer' # "cancelled" /\ ~readsDone'
  BY <1>2
<1>6. peer' # "open" => inq' # <<>> /\ inq'[Len(inq')] = IF peer' = "ended" THEN "end" ELSE "error"
  BY <1>4
<1>7. ASSUME NEW i \in 1..Len(inq'), inq'[i] \in {"end", "error"}
      PROVE  i = Len(inq') /\ peer' # "open"
  <2>1. i \in 1..Len(inq) \/ i = Len(inq')
    BY <1>4
  <2>2. i = Len(inq')
    BY <1>2, <1>4, <1>7, <2>1
  <2> QED BY <1>4, <1>7, <2>2
<1> QED BY <1>5, <1>6, <1>7 DEF PeerInv

LEMMA DeliveryEnvironment ==
    ASSUME TypeOK, PlaceInv, DeliveryInv, Environment, Undisturbed'
    PROVE  DeliveryInv'
<1> USE Identities
<1>1. CASE Abort
  <2>1. /\ complete' /\ \A t \in Threads \ {Controller} : pc'[t] = pc[t]
        /\ pc'[Controller] = "done"
        /\ UNCHANGED <<started, pollActive, active, cancelRequested, buf, readsDone, inq, peer, sent, report,
                       verdict, cbs, queue>>
    BY <1>1 DEF Abort, Goto, readSide, transport, ends, logs, TypeOK, ThreadsOK
  <2>2. pc[Worker] \in {"wait", "poll"}
    BY <1>1, <2>1 DEF Abort, Undisturbed
  <2>3. WhereInv'
    BY <2>1, <2>2 DEF DeliveryInv, WhereInv, Draining, Delivering
  <2>4. ~Reads' /\ (Succeeds' => Succeeds) /\ pc'[Worker] = pc[Worker]
    BY <2>1 DEF Reads, Succeeds
  <2> QED BY <2>1, <2>3, <2>4, DeliveryStill
<1>2. ASSUME NEW d \in Deadlines, Tick(d) PROVE DeliveryInv'
  <2>1. UNCHANGED <<lifecycle, pc, report, buf, readsDone, inq, peer, sent, verdict, cbs, queue>>
    BY <1>2 DEF Tick, readSide, transport, threads, ends, logs
  <2>2. WhereInv'
    BY <2>1 DEF DeliveryInv, WhereInv, lifecycle
  <2>3. (Reads' => Reads) /\ (Succeeds' => Succeeds)
    BY <2>1 DEF Reads, Succeeds, lifecycle
  <2>4. readsDone /\ Reads' => pc'[Worker] \in {"frames", "message"}
    BY <2>1, <2>3 DEF DeliveryInv, PeerInv
  <2> QED BY <2>1, <2>2, <2>3, <2>4, DeliveryStill DEF lifecycle
<1>3. ASSUME NEW item \in Items, ServerSends(item),
             [frames |-> sent'.frames, tail |-> sent'.tail] = Fed([frames |-> sent.frames, tail |-> sent.tail], item),
             peer' = CASE item = "end" -> "ended" [] item = "error" -> "reset" [] OTHER -> "open"
      PROVE  DeliveryInv'
  <2>1. /\ peer = "open" /\ inq' = Append(inq, item)
        /\ UNCHANGED <<lifecycle, pc, report, buf, readsDone, verdict, cbs, queue>>
    BY <1>3 DEF ServerSends, readSide, threads, ends, logs
  <2>2. WhereInv'
    BY <2>1 DEF DeliveryInv, WhereInv, lifecycle
  <2>3. AccountInv'
    BY <1>3, <2>1, AccountSent DEF DeliveryInv, lifecycle
  <2>4. PeerInv'
    BY <1>3, <2>1, PeerSent DEF DeliveryInv
  <2>5. ArrivedInv'
    BY <2>1 DEF DeliveryInv, ArrivedInv, AllArrived, Succeeds, lifecycle
  <2> QED BY <2>2, <2>3, <2>4, <2>5 DEF DeliveryInv
<1>4. ASSUME NEW c \in Chunks, ServerData(c) PROVE DeliveryInv'
  <2>1. c \in Items /\ c \notin {"end", "error"} /\ ServerSends(c) /\ peer' = "open"
    BY <1>4, ChunkTypes DEF ServerData, ServerSends, Items
  <2>2. [frames |-> sent'.frames, tail |-> sent'.tail] = Fed([frames |-> sent.frames, tail |-> sent.tail], c)
    BY <1>4 DEF ServerData, Fed
  <2> QED BY <1>3, <2>1, <2>2
<1>5. ASSUME NEW item \in {"headers", "end", "error"}
      PROVE  item \in Items /\ Fed([frames |-> sent.frames, tail |-> sent.tail], item) = [frames |-> sent.frames, tail |-> sent.tail]
  BY ChunkTypes DEF Items, Fed
<1>6. CASE ServerHeaders
  BY <1>3, <1>5, <1>6 DEF ServerHeaders, ServerSends
<1>7. CASE ServerEnd
  BY <1>3, <1>5, <1>7 DEF ServerEnd
<1>8. CASE ServerReset
  BY <1>3, <1>5, <1>8 DEF ServerReset
<1> QED BY <1>1, <1>2, <1>4, <1>6, <1>7, <1>8 DEF Environment

-----------------------------------------------------------------------------
\* The account, from the first state on

LEMMA InitDelivery == Init => DeliveryInv
<1> SUFFICES ASSUME Init PROVE DeliveryInv
  OBVIOUS
<1> USE Identities
<1>1. /\ ~started /\ ~complete /\ ~readsDone /\ peer = "open" /\ inq = <<>> /\ verdict = "none"
      /\ buf = [frames |-> 0, tail |-> "none"]
      /\ sent = [frames |-> 0, tail |-> "none", chunks |-> 0]
      /\ cbs = <<>> /\ queue = <<>>
      /\ \A t \in Threads : pc[t] = (IF t = Worker THEN "off" ELSE "idle") /\ report[t] = "ERROR"
  BY DEF Init
<1>2. WhereInv
  BY <1>1 DEF WhereInv
<1>3. AccountInv
  <2>1. Messages(cbs) = 0 /\ Messages(queue) = 0 /\ InHand = 0
    BY <1>1, FS_EmptySet DEF Messages, InHand
  <2> DEFINE empty == [frames |-> 0, tail |-> "none"]
             f == [i \in 0..0 |-> empty]
  <2>2. empty \in Held /\ f \in [0..0 -> Held] /\ f[0] = empty
    BY DEF Held
  <2>3. Follows(f, <<>>, empty, empty)
    BY <2>2 DEF Follows
  <2>4. Through(<<>>, empty, empty)
    BY <2>2, <2>3 DEF Through
  <2> QED BY <1>1, <2>1, <2>4 DEF AccountInv, Handed
<1>4. PeerInv /\ ArrivedInv
  BY <1>1 DEF PeerInv, ArrivedInv, Succeeds
<1> QED BY <1>2, <1>3, <1>4 DEF DeliveryInv

LEMMA DeliveryStep ==
    ASSUME TypeOK, IInv, LastInv, LossInv, [Next]_vars
    PROVE  LossInv'
<1> SUFFICES ASSUME Undisturbed' PROVE DeliveryInv'
  BY DEF LossInv
<1>1. PlaceInv /\ DeliveryInv
  BY StaysDisturbed DEF LastInv, LossInv
<1>2. CASE UNCHANGED vars
  <2>1. UNCHANGED <<lifecycle, pc, report, buf, readsDone, inq, peer, sent, verdict, cbs, queue>>
    BY <1>2 DEF vars, readSide, transport, threads, ends, logs
  <2>2. WhereInv'
    BY <1>1, <2>1 DEF DeliveryInv, WhereInv, lifecycle
  <2>3. (Reads' => Reads) /\ (Succeeds' => Succeeds)
    BY <2>1 DEF Reads, Succeeds, lifecycle
  <2>4. readsDone /\ Reads' => pc'[Worker] \in {"frames", "message"}
    BY <1>1, <2>1, <2>3 DEF DeliveryInv, PeerInv
  <2> QED BY <1>1, <2>1, <2>2, <2>3, <2>4, DeliveryStill DEF lifecycle
<1>3. CASE Next
  BY <1>1, <1>3, DeliveryUser, DeliveryWorker, DeliveryEnd, DeliveryEnvironment DEF Next, Step
<1> QED BY <1>2, <1>3

\* What holds in every reachable state
LEMMA Accounted == Spec => [](TypeOK /\ IInv /\ LastInv /\ LossInv)
<1>1. Init => LossInv
  BY InitDelivery DEF LossInv
<1>2. TypeOK /\ IInv /\ LastInv /\ LossInv /\ [Next]_vars => LossInv'
  BY DeliveryStep
<1> QED BY <1>1, <1>2, InitLast, LastStep, Invariance, PTL DEF Spec

\* The server's status ends a call only if the server closed the stream behind a
\* whole message and every sink has every message (deliverStreamClosed(),
\* deliverBufferedMessages(), makeTrailerResult()), unless the controller aborts
\* the operation in the middle of a drain.
THEOREM NoMessageLost == Spec => []NoSilentLoss
<1>1. LossInv => NoSilentLoss
  BY DEF LossInv, DeliveryInv, ArrivedInv, AllArrived, NoSilentLoss
<1> QED BY <1>1, Accounted, PTL

-----------------------------------------------------------------------------
\* The contract

\* A reset by the client's side is not the server's end.
LEMMA ResetIsNoEnd ==
    ASSUME CancelTransport
    PROVE  sent' = sent /\ (peer' = "ended" <=> peer = "ended")
  BY DEF CancelTransport

\* The users do nothing the contract speaks of, but cancel.
LEMMA ContractUser ==
    ASSUME IInv, NEW u \in Users, UserCall(u) \/ UserStep(u)
    PROVE  [Contract!Next]_(Contract!vars)
<1>1. CASE Cancel(u)
  <2>1. Contract!Cancel
    BY <1>1 DEF Cancel, Contract!Cancel, IInv, EndsInv, transport, logs, ends
  <2> QED BY <2>1 DEF Contract!Next
<1>2. CASE SubmitFailed(u) \/ CancelReset(u)
  <2>1. CancelTransport /\ UNCHANGED <<cbs, cancelRequested, verdict>>
    BY <1>2 DEF SubmitFailed, CancelReset, lifecycle, logs, ends
  <2> QED BY <2>1, ResetIsNoEnd DEF Contract!vars, Messages
<1>3. CASE ~Cancel(u) /\ ~SubmitFailed(u) /\ ~CancelReset(u)
  <2>1. UNCHANGED <<sent, peer, cbs, cancelRequested, verdict>>
    BY <1>3 DEF UserCall, Start, ArmTimer, CancelTimer, SetIdleTimeout, Write, WritesDone,
         FinishWrites, UserStep, Submit, Wake, Send, NotWritable, FinishWritesSend,
         FinishWritesArm, lifecycle, transport, ends, logs
  <2> QED BY <2>1 DEF Contract!vars, Messages
<1> QED BY <1>1, <1>2, <1>3

\* A message that is handed over was sent and not handed over before.
LEMMA ContractWorker ==
    ASSUME "callbacks" \in Sinks, TypeOK, IInv, PlaceInv, DeliveryInv, WorkerStep
    PROVE  [Contract!Next]_(Contract!vars)
<1>1. UNCHANGED <<cancelRequested, verdict>>
  BY DEF WorkerStep, WakeUp, ContinuePoll, CheckCancelled, ReadNothing, ReadClosed,
         ReadError, ReadEnd, ReadHeaders, ReadChunk, ReadItem, TakeFrame, FrameTooLarge,
         FramesExhausted, DeliverEvent, FireTimers, TimerCallback, TimersFired, CheckDeadlines,
         Rearm, DrainCaught, lifecycle, ends
<1>2. UNCHANGED <<peer, sent>> \/ CancelTransport
  BY DEF WorkerStep, WakeUp, ContinuePoll, CheckCancelled, ReadNothing, ReadClosed,
         ReadError, ReadEnd, ReadHeaders, ReadChunk, ReadItem, TakeFrame, FrameTooLarge,
         FramesExhausted, DeliverEvent, FireTimers, TimerCallback, TimersFired, CheckDeadlines,
         Rearm, DrainCaught, transport
<1>3. CASE ~DeliverEvent("message", "frames") /\ ~DeliverEvent("headers", "read")
  <2>1. UNCHANGED cbs
    BY <1>3 DEF WorkerStep, WakeUp, ContinuePoll, CheckCancelled, ReadNothing, ReadClosed,
              ReadError, ReadEnd, ReadHeaders, ReadChunk, ReadItem, TakeFrame, FrameTooLarge,
              FramesExhausted, FireTimers, TimerCallback, TimersFired, CheckDeadlines, Rearm,
              DrainCaught, logs
  <2> QED BY <1>1, <1>2, <2>1, ResetIsNoEnd DEF Contract!vars, Messages
<1>4. ASSUME NEW kind \in {"message", "headers"}, NEW next, DeliverEvent(kind, next)
      PROVE  [Contract!Next]_(Contract!vars)
  <2>1. pc[Worker] = kind /\ cbs' = Append(cbs, kind) /\ UNCHANGED <<peer, sent>>
    BY <1>4 DEF DeliverEvent, Log, Throws, transport
  <2>2. Messages(cbs)' = IF kind = "message" THEN Messages(cbs) + 1 ELSE Messages(cbs)
    <3>1. cbs \in Seq({"headers", "message"} \cup Terminal) /\ kind \in {"headers", "message"} \cup Terminal
      BY DEF TypeOK, LogsOK
    <3>2. Messages(cbs)' = Messages(Append(cbs, kind))
      BY <2>1 DEF Messages
    <3> QED BY <3>1, <3>2, MessagesAppend
  <2>3. CASE kind = "headers"
    BY <1>1, <2>1, <2>2, <2>3 DEF Contract!vars
  <2>4. CASE kind = "message"
    <3>1. active /\ verdict = "none" /\ pc[Worker] \in Reading /\ InHand = 1
      BY <2>1, <2>4 DEF PlaceInv, IInv, EndsInv, Delivering, Draining, Reading, InHand
    <3>2. PICK n \in Nat : /\ n = Messages(cbs) + 1
                           /\ Through(inq, [frames |-> n + buf.frames, tail |-> buf.tail],
                                           [frames |-> sent.frames, tail |-> sent.tail])
      BY <3>1 DEF DeliveryInv, AccountInv, Handed
    <3>3. n + buf.frames <= sent.frames
      BY <3>2, ThroughType DEF TypeOK, StateOK
    <3>4. Messages(cbs) \in Nat /\ buf.frames \in Nat /\ sent.frames \in Nat
      BY MessagesType DEF TypeOK, LogsOK, StateOK
    <3>5. Messages(cbs) < sent.frames
      BY <3>2, <3>3, <3>4
    <3>6. Contract!Deliver
      BY <1>1, <2>1, <2>2, <2>4, <3>1, <3>5 DEF Contract!Deliver
    <3> QED BY <3>6 DEF Contract!Next
  <2> QED BY <2>3, <2>4
<1> QED BY <1>3, <1>4

\* The end is decided once, by a cancel that preceded it or by what was found.
LEMMA ContractEnd ==
    ASSUME "callbacks" \in Sinks, TypeOK, IInv, PlaceInv, DeliveryInv, NEW t \in Threads,
           TerminalStep(t) \/ PollDone(t) \/ PollDoneCheck(t)
    PROVE  [Contract!Next]_(Contract!vars)
<1>1. CASE MarkInactive(t) /\ active
  <2>1. verdict = "none" /\ verdict' = IF cancelRequested THEN "CANCELLED" ELSE report[t]
    BY <1>1 DEF MarkInactive, IInv, EndsInv
  <2>2. UNCHANGED <<sent, peer, cbs, cancelRequested>>
    BY <1>1 DEF MarkInactive, transport, logs
  <2>3. verdict' \in Verdicts
    BY <2>1 DEF TypeOK, ThreadsOK, Verdicts
  <2>4. verdict' = "OK" => AllArrived
    <3>1. t # Worker => report[t] # "OK"
      BY DEF DeliveryInv, WhereInv, Threads
    <3> QED BY <1>1, <2>1, <3>1 DEF MarkInactive, DeliveryInv, ArrivedInv, Succeeds
  <2>5. Contract!End(verdict')
    BY <2>1, <2>2, <2>4 DEF Contract!End, AllArrived, Messages
  <2> QED BY <2>3, <2>5 DEF Contract!Next
<1>2. CASE ~(MarkInactive(t) /\ active)
  <2>1. UNCHANGED <<cancelRequested, verdict>>
    BY <1>2 DEF TerminalStep, MarkInactive, StoreOutcome, EmitTerminal, PollDone, PollDoneCheck,
                lifecycle, ends
  <2>2. UNCHANGED <<peer, sent>> \/ CancelTransport
    BY DEF TerminalStep, MarkInactive, StoreOutcome, EmitTerminal, PollDone, PollDoneCheck, transport
  <2>3. Messages(cbs)' = Messages(cbs)
    <3>1. CASE EmitTerminal(t)
      <4>1. PICK k \in Terminal : cbs' \in {cbs, Append(cbs, k)}
        BY <3>1 DEF EmitTerminal, Log, Throws, Terminal
      <4>2. cbs \in Seq({"headers", "message"} \cup Terminal) /\ k # "message"
        BY <4>1 DEF TypeOK, LogsOK, Terminal
      <4>3. Messages(Append(cbs, k)) = Messages(cbs)
        BY <4>2, MessagesAppend
      <4> QED BY <4>1, <4>3 DEF Messages
    <3>2. CASE ~EmitTerminal(t)
      <4>1. UNCHANGED cbs
        BY <3>2 DEF TerminalStep, MarkInactive, StoreOutcome, PollDone, PollDoneCheck, logs
      <4> QED BY <4>1 DEF Messages
    <3> QED BY <3>1, <3>2
  <2> QED BY <2>1, <2>2, <2>3, ResetIsNoEnd DEF Contract!vars
<1> QED BY <1>1, <1>2

\* The server's messages and its end
LEMMA ContractEnvironment ==
    ASSUME TypeOK, Environment
    PROVE  [Contract!Next]_(Contract!vars)
<1>1. UNCHANGED <<cbs, cancelRequested, verdict>>
  BY DEF Environment, ServerHeaders, ServerEnd, ServerReset, ServerData, ServerSends, Tick, Abort,
         lifecycle, ends, logs
<1>2. CASE ServerEnd
  <2>1. Contract!ServerEnds
    BY <1>1, <1>2 DEF ServerEnd, ServerSends, Contract!ServerEnds, Messages
  <2> QED BY <2>1 DEF Contract!Next
<1>3. ASSUME NEW c \in Chunks, ServerData(c) PROVE [Contract!Next]_(Contract!vars)
  <2>1. peer = "open" /\ peer' = "open" /\ sent'.frames = sent.frames + ChunkFrames[c]
    BY <1>3 DEF ServerData, ServerSends
  <2>2. ChunkFrames[c] \in 0..2
    BY ChunksAssumption DEF ChunkFrames
  <2>3. CASE ChunkFrames[c] = 0
    <3>1. sent'.frames = sent.frames
      BY <2>1, <2>3 DEF TypeOK, StateOK
    <3> QED BY <1>1, <2>1, <3>1 DEF Contract!vars, Messages
  <2>4. CASE ChunkFrames[c] \in 1..2
    <3>1. Contract!ServerSends
      BY <1>1, <2>1, <2>4 DEF Contract!ServerSends, Messages
    <3> QED BY <3>1 DEF Contract!Next
  <2> QED BY <2>2, <2>3, <2>4
<1>4. CASE ServerHeaders \/ ServerReset \/ Abort \/ \E d \in Deadlines : Tick(d)
  <2>1. sent' = sent /\ (peer' = "ended" <=> peer = "ended")
    BY <1>4 DEF ServerHeaders, ServerReset, ServerSends, Abort, Tick, transport
  <2> QED BY <1>1, <2>1 DEF Contract!vars, Messages
<1> QED BY <1>2, <1>3, <1>4 DEF Environment

\* The callbacks of an asynchronous call see one that keeps the contract of
\* CallContract: every step is one of the contract's, or one it does not see.  An
\* abort in the middle of a drain is left out, because a message can then follow
\* the end, as NothingFollows says.
THEOREM AsyncKeepsContract ==
    ASSUME "callbacks" \in Sinks, ~ConcurrentAbort
    PROVE  Spec => KeepsContract
<1>1. Init => Contract!Init
  BY FS_EmptySet DEF Init, Contract!Init, Messages
<1>2. ASSUME TypeOK, IInv, LastInv, LossInv, [Next]_vars
      PROVE  [Contract!Next]_(Contract!vars)
  <2>1. PlaceInv /\ DeliveryInv
    BY <1>2 DEF LastInv, LossInv, Undisturbed
  <2>2. CASE UNCHANGED vars
    BY <2>2 DEF vars, lifecycle, transport, ends, logs, Contract!vars, Messages
  <2>3. CASE Next
    BY <1>2, <2>1, <2>3, ContractUser, ContractWorker, ContractEnd, ContractEnvironment
       DEF Next, Step
  <2> QED BY <1>2, <2>2, <2>3
<1> QED BY <1>1, <1>2, Accounted, PTL DEF Spec, KeepsContract, Contract!Safety

=============================================================================
