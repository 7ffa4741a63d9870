------------------------ MODULE AsyncClientStreamProofs ------------------------
(***************************************************************************)
(* Theorems about AsyncClientStream, for any number of users, any bounds,  *)
(* any sinks and options: whether or not the controller may abort the      *)
(* operation during a drain; and, unless it does, that nothing follows the *)
(* terminal event of a call.                                               *)
(***************************************************************************)
EXTENDS AsyncClientStream, TLAPS

Labels == UserLabels \cup WorkerLabels \cup EndLabels \cup DoneLabels
Items == Chunks \cup {"headers", "end", "error"}

\* What a chunk does to the deframer is a number of messages and a tail.
LEMMA ChunkTypes ==
    ASSUME NEW c \in Chunks
    PROVE  /\ ChunkFrames[c] \in Nat
           /\ ChunkTail[c] \in {"none", "part", "big"}
           /\ c \notin {"headers", "end", "error"}
<1>1. c \in {"whole", "pair", "part", "split", "big"}
  BY ChunksAssumption DEF ChunkFrames
<1> QED
  BY <1>1 DEF ChunkFrames, ChunkTail

-----------------------------------------------------------------------------
\* Types

\* The types hold initially.
LEMMA InitType == Init => TypeOK
<1> SUFFICES ASSUME Init PROVE TypeOK
  OBVIOUS
<1>1. StateOK
  <2>1. dl \in [Deadlines -> {"off", "armed", "due"}]
    BY DEF Init
  <2>2. /\ buf \in [frames : Nat, tail : {"none", "part", "big"}]
        /\ sent \in [frames : Nat, tail : {"none", "part", "big"}, chunks : Nat]
    BY DEF Init
  <2>3. inq \in Seq(Chunks \cup {"headers", "end", "error"})
    BY DEF Init
  <2>4. idleOn \in BOOLEAN /\ writesDone \in BOOLEAN
    BY DEF Init
  <2> QED
    BY <2>1, <2>2, <2>3, <2>4 DEF Init, StateOK
<1>2. ThreadsOK
  <2>1. \A t \in Threads : pc[t] \in Labels
    BY DEF Init, Labels, WorkerLabels, UserLabels
  <2>2. pc \in [Threads -> Labels]
    BY <2>1 DEF Init
  <2> QED
    BY <2>2 DEF Init, ThreadsOK, Labels, Verdicts
<1>3. LogsOK
  BY DEF Init, LogsOK
<1> QED BY <1>1, <1>2, <1>3 DEF TypeOK

\* A step of one thread to a label of the program keeps the threads' types.
LEMMA GotoType ==
    ASSUME ThreadsOK, NEW t \in Threads, NEW l \in Labels, Goto(t, l)
    PROVE  ThreadsOK'
  BY DEF ThreadsOK, Goto, Labels

\* Reporting an end keeps the types of a thread's locals.
LEMMA DeliverType ==
    ASSUME ThreadsOK, NEW t \in Threads, NEW s \in Verdicts,
           NEW b \in {"idle", "done", "gone"}, Deliver(t, s, b)
    PROVE  ThreadsOK'
  BY DEF ThreadsOK, Deliver, EndLabels

\* Resetting the transport keeps the types of what it holds.
LEMMA CancelTransportType ==
    ASSUME StateOK, CancelTransport
    PROVE  /\ inq' \in Seq(Items)
           /\ peer' \in {"open", "ended", "reset", "cancelled"}
           /\ notified' \in BOOLEAN
           /\ sent' = sent
<1>1. "error" \in Items /\ inq \in Seq(Items)
  BY DEF Items, StateOK
<1>2. Append(inq, "error") \in Seq(Items)
  BY <1>1
<1> QED
  BY <1>1, <1>2 DEF StateOK, CancelTransport, Notify

\* What the users' own steps do to the types.
LEMMA UserThreads ==
    ASSUME ThreadsOK, NEW u \in Users, UserCall(u) \/ UserStep(u)
    PROVE  ThreadsOK'
<1>0. u \in Threads /\ Worker \in Threads
  BY DEF Threads
<1>1. CASE \E l \in UserLabels : Goto(u, l)
  BY <1>0, <1>1, GotoType DEF Labels
<1>2. CASE \E s \in Verdicts : Deliver(u, s, "idle")
  BY <1>0, <1>2, DeliverType
<1>3. CASE UNCHANGED threads
  BY <1>3 DEF threads, ThreadsOK
<1>4. CASE Submit(u) /\ pc' = [pc EXCEPT ![u] = "wake", ![Worker] = "poll"]
                     /\ UNCHANGED <<report, ret>>
  BY <1>0, <1>4 DEF ThreadsOK, UserLabels, WorkerLabels
<1>5. UserCall(u) => \/ \E l \in UserLabels : Goto(u, l)
                     \/ UNCHANGED threads
  BY DEF UserCall, Start, Cancel, ArmTimer, CancelTimer, SetIdleTimeout, Write, WritesDone,
         FinishWrites, UserLabels
<1>6. SubmitFailed(u) \/ CancelReset(u) =>
          \/ \E l \in UserLabels : Goto(u, l)
          \/ \E s \in Verdicts : Deliver(u, s, "idle")
  BY DEF SubmitFailed, CancelReset, UserLabels, Verdicts
<1>7. Wake(u) \/ Send(u) \/ NotWritable(u) \/ FinishWritesSend(u) \/ FinishWritesArm(u) =>
          \E l \in UserLabels : Goto(u, l)
  BY DEF Wake, Send, NotWritable, FinishWritesSend, FinishWritesArm, UserLabels
<1>8. CASE Submit(u)
  BY <1>8, <1>1, <1>4 DEF Submit, UserLabels
<1> QED
  BY <1>1, <1>2, <1>3, <1>5, <1>6, <1>7, <1>8 DEF UserStep

\* The public methods (start() to setIdleTimeout()) keep the types of the state.
LEMMA UserState ==
    ASSUME StateOK, NEW u \in Users, UserCall(u) \/ UserStep(u)
    PROVE  StateOK'
<1> USE DEF StateOK, lifecycle, readSide, clocks, transport, ends
<1>1. CASE Start(u) BY <1>1 DEF Start
<1>2. CASE Submit(u)
  <2>1. pollActive' \in BOOLEAN
    BY <1>2 DEF Submit
  <2>2. UNCHANGED <<started, complete, active, cancelRequested, readSide, writesDone, clocks,
                    notified, transport, ends>>
    BY <1>2 DEF Submit
  <2> QED BY <2>1, <2>2
<1>3. CASE SubmitFailed(u) BY <1>3, CancelTransportType DEF SubmitFailed, Items
<1>4. CASE Wake(u) BY <1>4 DEF Wake, Notify
<1>5. CASE Cancel(u) BY <1>5 DEF Cancel
<1>6. CASE CancelReset(u)
  <2>1. CancelTransport /\ UNCHANGED <<lifecycle, readSide, writesDone, clocks, ends>>
    BY <1>6 DEF CancelReset
  <2> QED BY <2>1, CancelTransportType DEF Items
<1>7. ASSUME NEW name \in Timers, ArmTimer(u, name) PROVE StateOK'
  BY <1>7 DEF ArmTimer, Deadlines
<1>8. ASSUME NEW name \in Timers, CancelTimer(u, name) PROVE StateOK'
  BY <1>8 DEF CancelTimer, Deadlines
<1>9. ASSUME NEW on \in BOOLEAN, SetIdleTimeout(u, on) PROVE StateOK'
  BY <1>9 DEF SetIdleTimeout, Deadlines, Limits
<1>10. CASE Write(u) BY <1>10 DEF Write
<1>11. CASE WritesDone(u) BY <1>11 DEF WritesDone
<1>12. CASE Send(u) BY <1>12 DEF Send
<1>13. CASE NotWritable(u) BY <1>13 DEF NotWritable
<1>14. CASE FinishWrites(u) BY <1>14 DEF FinishWrites
<1>15. CASE FinishWritesSend(u) BY <1>15 DEF FinishWritesSend
<1>16. CASE FinishWritesArm(u)
  <2>1. dl' \in [Deadlines -> {"off", "armed", "due"}]
    BY <1>16 DEF FinishWritesArm, Deadlines, Limits
  <2>2. UNCHANGED <<lifecycle, readSide, writesDone, idleOn, watched, firing, notified, transport, ends>>
    BY <1>16 DEF FinishWritesArm
  <2> QED BY <2>1, <2>2
<1> QED BY <1>1, <1>2, <1>3, <1>4, <1>5, <1>6, <1>7, <1>8, <1>9, <1>10, <1>11, <1>12,
           <1>13, <1>14, <1>15, <1>16 DEF UserCall, UserStep

\* What the steps every thread can take do to the types.
LEMMA EndType ==
    ASSUME TypeOK, NEW t \in Threads, TerminalStep(t) \/ PollDone(t) \/ PollDoneCheck(t)
    PROVE  TypeOK'
<1> USE DEF TypeOK, lifecycle, readSide, clocks, transport, ends, logs
<1>1. CASE MarkInactive(t)
  <2>1. StateOK'
    <3>1. verdict' \in Verdicts \cup {"none"} /\ active' \in BOOLEAN
      BY <1>1 DEF MarkInactive, StateOK, ThreadsOK, Verdicts
    <3> QED BY <1>1, <3>1 DEF MarkInactive, StateOK
  <2>2. ThreadsOK'
    BY <1>1 DEF MarkInactive, ThreadsOK, EndLabels, UserLabels, DoneLabels, Verdicts
  <2> QED BY <1>1, <2>1, <2>2 DEF MarkInactive, LogsOK
<1>2. CASE StoreOutcome(t)
  <2>1. StateOK'
    BY <1>2 DEF StoreOutcome, StateOK
  <2>2. ThreadsOK'
    BY <1>2, GotoType DEF StoreOutcome, Labels, EndLabels
  <2> QED BY <1>2, <2>1, <2>2 DEF StoreOutcome, LogsOK
<1>3. CASE EmitTerminal(t)
  <2>1. ret[t] \in Labels /\ "caught" \in Labels
    BY DEF ThreadsOK, Labels, UserLabels, DoneLabels, WorkerLabels
  <2>2. ThreadsOK'
    BY <1>3, <2>1, GotoType DEF EmitTerminal
  <2>3. PICK k \in Terminal : Log(k, <<k, "sentinel">>) \/ Throws(k)
    BY <1>3 DEF EmitTerminal, Terminal
  <2>4. LogsOK'
    <3>1. queue \o <<k, "sentinel">> \in Seq({"headers", "message", "sentinel"} \cup Terminal)
      BY DEF LogsOK
    <3>2. Append(cbs, k) \in Seq({"headers", "message"} \cup Terminal)
      BY DEF LogsOK
    <3> QED BY <2>3, <3>1, <3>2 DEF LogsOK, Log, Throws
  <2>5. StateOK'
    BY <1>3 DEF EmitTerminal, StateOK
  <2> QED BY <2>2, <2>4, <2>5
<1>4. CASE PollDone(t)
  <2>1. ThreadsOK'
    BY <1>4, GotoType DEF PollDone, Labels, DoneLabels
  <2>2. dl' \in [Deadlines -> {"off", "armed", "due"}]
    BY <1>4 DEF PollDone, StateOK
  <2>3. StateOK'
    <3>1. complete' \in BOOLEAN /\ pollActive' \in BOOLEAN
      BY <1>4 DEF PollDone
    <3>2. UNCHANGED <<started, active, cancelRequested, readSide, writesDone, idleOn, watched,
                      firing, notified, transport, ends>>
      BY <1>4 DEF PollDone
    <3> QED BY <2>2, <3>1, <3>2 DEF StateOK
  <2> QED BY <1>4, <2>1, <2>3 DEF PollDone, LogsOK
<1>5. CASE PollDoneCheck(t)
  <2>1. ThreadsOK'
    BY <1>5, GotoType, DeliverType DEF PollDoneCheck, Labels, DoneLabels, Verdicts
  <2>2. CancelTransport \/ UNCHANGED <<notified, transport>>
    BY <1>5 DEF PollDoneCheck
  <2>3. StateOK'
    BY <1>5, <2>2, CancelTransportType DEF PollDoneCheck, StateOK, Items
  <2> QED BY <1>5, <2>1, <2>3 DEF PollDoneCheck, LogsOK
<1> QED BY <1>1, <1>2, <1>3, <1>4, <1>5 DEF TerminalStep

\* What the worker's own steps do to the types.
LEMMA WorkerThreads ==
    ASSUME ThreadsOK, WorkerStep
    PROVE  ThreadsOK'
<1>0. Worker \in Threads
  BY DEF Threads
<1>1. CASE \E l \in WorkerLabels \cup DoneLabels : Goto(Worker, l)
  BY <1>0, <1>1, GotoType DEF Labels
<1>2. CASE \E s \in Verdicts : Deliver(Worker, s, "done")
  BY <1>0, <1>2, DeliverType
<1>3. WakeUp \/ ContinuePoll \/ ReadNothing \/ ReadHeaders \/ ReadChunk \/ FireTimers \/ Rearm =>
          \E l \in WorkerLabels \cup DoneLabels : Goto(Worker, l)
  BY DEF WakeUp, ContinuePoll, ReadNothing, ReadHeaders, ReadChunk, FireTimers, Rearm,
         WorkerLabels, DoneLabels
<1>4. ReadError \/ FrameTooLarge \/ DrainCaught => \E s \in Verdicts : Deliver(Worker, s, "done")
  BY DEF ReadError, FrameTooLarge, DrainCaught, Verdicts
<1>5. ASSUME NEW here, NEW next \in {"read", "deadlines"}, CheckCancelled(here, next)
      PROVE  \/ \E l \in WorkerLabels \cup DoneLabels : Goto(Worker, l)
             \/ \E s \in Verdicts : Deliver(Worker, s, "done")
  BY <1>5 DEF CheckCancelled, WorkerLabels, Verdicts
<1>6. ReadClosed \/ ReadEnd \/ TakeFrame \/ FramesExhausted \/ CheckDeadlines =>
          \/ \E l \in WorkerLabels \cup DoneLabels : Goto(Worker, l)
          \/ \E s \in Verdicts : Deliver(Worker, s, "done")
  BY DEF ReadClosed, ReadEnd, TakeFrame, FramesExhausted, CheckDeadlines, WorkerLabels, Verdicts
<1>7. ASSUME NEW kind, NEW next \in {"frames", "read"}, DeliverEvent(kind, next)
      PROVE  \E l \in WorkerLabels \cup DoneLabels : Goto(Worker, l)
  BY <1>7 DEF DeliverEvent, WorkerLabels
<1>8. ASSUME NEW name, TimerCallback(name)
      PROVE  \E l \in WorkerLabels \cup DoneLabels : Goto(Worker, l)
  BY <1>8 DEF TimerCallback, WorkerLabels, DoneLabels
<1> QED
  BY <1>1, <1>2, <1>3, <1>4, <1>5, <1>6, <1>7, <1>8 DEF WorkerStep, TimersFired

\* What the drain delivers to the sinks keeps the types of the logs.
LEMMA WorkerLogs ==
    ASSUME LogsOK, WorkerStep
    PROVE  LogsOK'
<1>1. CASE UNCHANGED logs
  BY <1>1 DEF logs, LogsOK
<1>2. ASSUME NEW kind \in {"message", "headers"}, NEW next, DeliverEvent(kind, next)
      PROVE  LogsOK'
  <2>1. queue \o <<kind>> \in Seq({"headers", "message", "sentinel"} \cup Terminal)
    BY DEF LogsOK
  <2>2. Append(cbs, kind) \in Seq({"headers", "message"} \cup Terminal)
    BY DEF LogsOK
  <2> QED BY <1>2, <2>1, <2>2 DEF DeliverEvent, LogsOK, Log, Throws
<1>3. ASSUME NEW here, NEW next, CheckCancelled(here, next) PROVE UNCHANGED logs
  BY <1>3 DEF CheckCancelled
<1>4. ASSUME NEW name, TimerCallback(name) PROVE UNCHANGED logs
  BY <1>4 DEF TimerCallback
<1>5. WakeUp \/ ContinuePoll \/ ReadNothing \/ ReadClosed \/ ReadItem => UNCHANGED logs
  BY DEF WakeUp, ContinuePoll, ReadNothing, ReadClosed, ReadItem
<1>6. TakeFrame \/ FrameTooLarge \/ FramesExhausted \/ FireTimers \/ CheckDeadlines \/ Rearm
      \/ DrainCaught => UNCHANGED logs
  BY DEF TakeFrame, FrameTooLarge, FramesExhausted, FireTimers, CheckDeadlines, Rearm, DrainCaught
<1> QED
  BY <1>1, <1>2, <1>3, <1>4, <1>5, <1>6
     DEF WorkerStep, TimersFired, ReadError, ReadEnd, ReadHeaders, ReadChunk

\* The poll operation and the drain keep the types of the state.
LEMMA WorkerState ==
    ASSUME StateOK, WorkerStep
    PROVE  StateOK'
<1> USE DEF StateOK, lifecycle, readSide, clocks, transport, ends
<1>1. CASE WakeUp BY <1>1 DEF WakeUp
<1>2. CASE ContinuePoll
  <2>1. notified' \in BOOLEAN
    BY <1>2 DEF ContinuePoll
  <2> QED BY <1>2, <2>1 DEF ContinuePoll
<1>3. ASSUME NEW here, NEW next, CheckCancelled(here, next) PROVE StateOK'
  BY <1>3 DEF CheckCancelled
<1>4. CASE ReadNothing BY <1>4 DEF ReadNothing
<1>5. CASE ReadClosed BY <1>5 DEF ReadClosed
<1>6. ASSUME ReadItem
      PROVE  /\ inq' \in Seq(Chunks \cup {"headers", "end", "error"})
             /\ dl' \in [Deadlines -> {"off", "armed", "due"}]
             /\ Head(inq) \in Chunks \cup {"headers", "end", "error"}
             /\ UNCHANGED <<lifecycle, writesDone, idleOn, watched, firing, notified, peer, sent, ends>>
  BY <1>6 DEF ReadItem, TouchIdleDeadline, Deadlines, Limits
<1>7. CASE ReadError BY <1>6, <1>7 DEF ReadError
<1>8. CASE ReadEnd BY <1>6, <1>8 DEF ReadEnd
<1>9. CASE ReadHeaders
  <2>1. headersDelivered' \in BOOLEAN
    BY <1>9 DEF ReadHeaders
  <2> QED BY <1>6, <1>9, <2>1 DEF ReadHeaders
<1>10. CASE ReadChunk
  <2>1. ChunkFrames[Head(inq)] \in Nat /\ ChunkTail[Head(inq)] \in {"none", "part", "big"}
    BY <1>10, ChunkTypes DEF ReadChunk
  <2>2. buf' \in [frames : Nat, tail : {"none", "part", "big"}]
    BY <1>10, <2>1 DEF ReadChunk
  <2> QED BY <1>6, <1>10, <2>2 DEF ReadChunk
<1>11. CASE TakeFrame
  <2>1. buf' \in [frames : Nat, tail : {"none", "part", "big"}]
    BY <1>11 DEF TakeFrame
  <2> QED BY <1>11, <2>1 DEF TakeFrame
<1>12. CASE FrameTooLarge
  <2>1. buf' \in [frames : Nat, tail : {"none", "part", "big"}]
    BY <1>12 DEF FrameTooLarge
  <2> QED BY <1>12, <2>1, CancelTransportType DEF FrameTooLarge, Items
<1>13. CASE FramesExhausted
  <2>1. buf' \in [frames : Nat, tail : {"none", "part", "big"}]
    BY <1>13 DEF FramesExhausted
  <2> QED BY <1>13, <2>1 DEF FramesExhausted
<1>14. ASSUME NEW kind, NEW next, DeliverEvent(kind, next) PROVE StateOK'
  BY <1>14 DEF DeliverEvent
<1>15. CASE FireTimers
  <2>1. dl' \in [Deadlines -> {"off", "armed", "due"}] /\ firing' \in SUBSET Timers
    BY <1>15 DEF FireTimers
  <2> QED BY <1>15, <2>1 DEF FireTimers
<1>16. ASSUME NEW name \in Timers, TimerCallback(name) PROVE StateOK'
  BY <1>16 DEF TimerCallback
<1>17. CASE CheckDeadlines
  <2>1. CancelTransport \/ UNCHANGED <<notified, transport>>
    BY <1>17 DEF CheckDeadlines
  <2> QED BY <1>17, <2>1, CancelTransportType DEF CheckDeadlines, Items
<1>18. CASE Rearm BY <1>18 DEF Rearm
<1>19. CASE DrainCaught BY <1>19, CancelTransportType DEF DrainCaught, Items
<1> QED
  BY <1>1, <1>2, <1>3, <1>4, <1>5, <1>7, <1>8, <1>9, <1>10, <1>11, <1>12, <1>13, <1>14,
     <1>15, <1>16, <1>17, <1>18, <1>19 DEF WorkerStep, TimersFired

\* What the server, the clock and the controller do to the types.
LEMMA EnvironmentType ==
    ASSUME TypeOK, Environment
    PROVE  TypeOK'
<1> USE DEF TypeOK, lifecycle, readSide, clocks, transport, threads, ends, logs
<1>0. ASSUME NEW item \in Chunks \cup {"headers", "end", "error"}, ServerSends(item)
      PROVE  /\ inq' \in Seq(Chunks \cup {"headers", "end", "error"})
             /\ notified' \in BOOLEAN
             /\ UNCHANGED <<lifecycle, readSide, writesDone, clocks, ends>>
             /\ ThreadsOK' /\ LogsOK'
  <2>1. inq' \in Seq(Chunks \cup {"headers", "end", "error"})
    BY <1>0 DEF ServerSends, StateOK
  <2>2. ThreadsOK' /\ LogsOK'
    BY <1>0 DEF ServerSends, ThreadsOK, LogsOK
  <2> QED BY <1>0, <2>1, <2>2 DEF ServerSends, Notify
<1>1. CASE ServerHeaders BY <1>0, <1>1 DEF ServerHeaders, StateOK
<1>2. CASE ServerEnd BY <1>0, <1>2 DEF ServerEnd, StateOK
<1>3. CASE ServerReset BY <1>0, <1>3 DEF ServerReset, StateOK
<1>4. ASSUME NEW c \in Chunks, ServerData(c) PROVE TypeOK'
  <2>1. sent' \in [frames : Nat, tail : {"none", "part", "big"}, chunks : Nat]
    BY <1>4, ChunkTypes DEF ServerData, StateOK
  <2> QED BY <1>0, <1>4, <2>1 DEF ServerData, StateOK
<1>5. ASSUME NEW d \in Deadlines, Tick(d) PROVE TypeOK'
  <2>1. StateOK'
    BY <1>5 DEF Tick, StateOK
  <2> QED BY <1>5, <2>1 DEF Tick, ThreadsOK, LogsOK
<1>6. CASE Abort
  <2>1. ThreadsOK'
    BY <1>6, GotoType DEF Abort, Threads, Labels, DoneLabels
  <2>2. StateOK'
    BY <1>6 DEF Abort, StateOK
  <2> QED BY <1>6, <2>1, <2>2 DEF Abort, LogsOK
<1> QED BY <1>1, <1>2, <1>3, <1>4, <1>5, <1>6 DEF Environment

\* The users' steps touch no log.
LEMMA UserLogs ==
    ASSUME NEW u \in Users, UserCall(u) \/ UserStep(u)
    PROVE  UNCHANGED logs
  BY DEF UserCall, UserStep, Start, Cancel, ArmTimer, CancelTimer, SetIdleTimeout, Write,
         WritesDone, FinishWrites, Submit, SubmitFailed, Wake, CancelReset, Send, NotWritable,
         FinishWritesSend, FinishWritesArm

\* TypeOK is inductive.
LEMMA NextType == TypeOK /\ [Next]_vars => TypeOK'
<1> SUFFICES ASSUME TypeOK, [Next]_vars PROVE TypeOK'
  OBVIOUS
<1>1. CASE UNCHANGED vars
  BY <1>1 DEF vars, TypeOK, StateOK, ThreadsOK, LogsOK, lifecycle, readSide, clocks, transport,
              threads, ends, logs
<1>2. ASSUME NEW u \in Users, UserCall(u) \/ UserStep(u) PROVE TypeOK'
  BY <1>2, UserState, UserThreads, UserLogs DEF TypeOK, LogsOK, logs
<1>3. CASE WorkerStep
  BY <1>3, WorkerState, WorkerThreads, WorkerLogs DEF TypeOK
<1>4. CASE Environment
  BY <1>4, EnvironmentType
<1> QED
  BY <1>1, <1>2, <1>3, <1>4, EndType DEF Next, Step

\* Every variable always has its type.
THEOREM TypeCorrect == Spec => []TypeOK
  BY InitType, NextType, PTL DEF Spec

-----------------------------------------------------------------------------
\* The end of the call

Ending == {"store", "emit"}
NoTerminal(log) == \A i \in 1..Len(log) : log[i] \notin Terminal
MayCancel == cancelRequested \/ pc[Controller] # "idle"

\* One thread at most carries the end of the call to the sinks, and no sink has
\* seen an end before that thread is done.
EndsInv ==
    /\ active => verdict = "none"
    /\ \A t \in Threads : pc[t] \in Ending => ~active
    /\ \A t, u \in Threads : pc[t] \in Ending /\ pc[u] \in Ending => t = u
    /\ active \/ (\E t \in Threads : pc[t] \in Ending) => NoTerminal(cbs) /\ NoTerminal(queue)

\* Whoever is about to report a cancel has a reason to, and each thread returns
\* from the report to where it came from.
CancelInv ==
    /\ \A t \in Threads : report[t] = "CANCELLED" => MayCancel
    /\ \A u \in Users : pc[u] \notin DoneLabels /\ (pc[u] \in EndLabels => ret[u] = "idle")
    /\ pc[Controller] \in EndLabels => ret[Controller] = "gone"
    /\ pc[Worker] \in {"done", "done_check"} => ~active
    /\ \A u \in Users : pc[u] = "rst_inline" => cancelRequested

IInv == EndsInv /\ TerminalOnce /\ CancelInv /\ CancelDecides

\* What most steps leave alone.
Aside == UNCHANGED <<active, cancelRequested, verdict, logs>>

Ordinary == (UserLabels \cup WorkerLabels) \ {"rst_inline"}

\* The constructor establishes the invariant of the ends.
LEMMA InitInv == Init => IInv
  BY ThreadsAssumption
     DEF Init, IInv, EndsInv, CancelInv, CancelDecides, TerminalOnce, OneTerminal, NoTerminal,
         Threads, Ending, EndLabels, DoneLabels, MayCancel

\* A thread that moves between ordinary labels disturbs nothing.
LEMMA MoveInv ==
    ASSUME TypeOK, IInv, Aside, NEW t \in Users \cup {Worker}, NEW l \in Ordinary, Goto(t, l),
           pc[t] \notin Ending
    PROVE  IInv'
<1> USE DEF IInv, Aside, Goto, Ordinary, TypeOK, ThreadsOK, Threads
<1>0. /\ t \in Threads /\ Controller \in Threads /\ Worker \in Threads
      /\ l \notin EndLabels \cup DoneLabels
      /\ t # Controller
  BY ThreadsAssumption DEF UserLabels, WorkerLabels, EndLabels, DoneLabels, Worker, Controller
<1>1. \A u \in Threads : pc'[u] = IF u = t THEN l ELSE pc[u]
  BY <1>0
<1>2. EndsInv' /\ TerminalOnce'
  BY <1>0, <1>1 DEF EndsInv, TerminalOnce, Ending, EndLabels, logs
<1>3. CancelInv'
  BY <1>0, <1>1 DEF CancelInv, MayCancel, EndLabels, DoneLabels
<1>4. CancelDecides'
  BY <1>0, <1>1 DEF CancelDecides
<1> QED BY <1>2, <1>3, <1>4

\* Nor does a thread that sets out to report an end it may report.
LEMMA DeliverInv ==
    ASSUME TypeOK, IInv, Aside, NEW t \in Threads, NEW s \in Verdicts, NEW b, Deliver(t, s, b),
           pc[t] \notin Ending,
           s = "CANCELLED" => MayCancel,
           t \in Users => b = "idle",
           t = Controller => b = "gone" /\ pc[t] # "idle"
    PROVE  IInv'
<1> USE DEF IInv, Aside, Deliver, TypeOK, ThreadsOK
<1>0. Controller \in Threads /\ Worker \in Threads /\ Controller # Worker
      /\ Worker \notin Users /\ Controller \notin Users
  BY ThreadsAssumption DEF Threads, Worker, Controller
<1>1. \A u \in Threads : /\ pc'[u] = IF u = t THEN "mark" ELSE pc[u]
                         /\ report'[u] = IF u = t THEN s ELSE report[u]
                         /\ u # t => ret'[u] = ret[u]
  OBVIOUS
<1>2. EndsInv' /\ TerminalOnce'
  BY <1>0, <1>1 DEF EndsInv, TerminalOnce, Ending, logs
<1>3. MayCancel => MayCancel'
  BY <1>0, <1>1 DEF MayCancel
<1>4. CancelInv'
  <2>1. \A u \in Threads : report'[u] = "CANCELLED" => MayCancel'
    BY <1>1, <1>3 DEF CancelInv
  <2>2. \A u \in Users : pc'[u] \notin DoneLabels /\ (pc'[u] \in EndLabels => ret'[u] = "idle")
    BY <1>0, <1>1 DEF CancelInv, EndLabels, DoneLabels, Threads
  <2>3. pc'[Controller] \in EndLabels => ret'[Controller] = "gone"
    BY <1>0, <1>1 DEF CancelInv
  <2>4. pc'[Worker] \in {"done", "done_check"} => ~active'
    BY <1>0, <1>1 DEF CancelInv
  <2>5. \A u \in Users : pc'[u] = "rst_inline" => cancelRequested'
    BY <1>0, <1>1 DEF CancelInv, Threads
  <2> QED BY <2>1, <2>2, <2>3, <2>4, <2>5 DEF CancelInv
<1>5. CancelDecides'
  BY <1>0, <1>1, <1>3 DEF CancelDecides, MayCancel
<1> QED BY <1>2, <1>4, <1>5

\* Nor does a step that moves no thread.
LEMMA StillInv ==
    ASSUME IInv, Aside, UNCHANGED threads
    PROVE  IInv'
  BY DEF IInv, Aside, EndsInv, TerminalOnce, CancelInv, CancelDecides, MayCancel, threads, logs

\* The worker may leave the drain when the stream has ended, or be told that the
\* operation is complete.
LEMMA LeaveInv ==
    ASSUME TypeOK, IInv, Aside, NEW l \in DoneLabels, Goto(Worker, l), pc[Worker] \notin Ending,
           l = "gone" \/ ~active
    PROVE  IInv'
<1> USE DEF IInv, Aside, Goto, TypeOK, ThreadsOK, DoneLabels
<1>0. /\ Controller \in Threads /\ Worker \in Threads /\ Worker # Controller
      /\ Worker \notin Users
      /\ \A u \in Users : u \in Threads
  BY ThreadsAssumption DEF Threads, Worker, Controller
<1>1. \A u \in Threads : pc'[u] = IF u = Worker THEN l ELSE pc[u]
  BY <1>0
<1>2. EndsInv' /\ TerminalOnce'
  BY <1>0, <1>1 DEF EndsInv, TerminalOnce, Ending, logs
<1>3. CancelInv'
  BY <1>0, <1>1 DEF CancelInv, MayCancel, EndLabels
<1>4. CancelDecides'
  BY <1>0, <1>1 DEF CancelDecides
<1> QED BY <1>2, <1>3, <1>4

\* A message or metadata event adds nothing that ends a log.
LEMMA EventInv ==
    ASSUME TypeOK, IInv, NEW kind \in {"message", "headers"}, NEW next \in {"frames", "read"},
           DeliverEvent(kind, next)
    PROVE  IInv'
<1>0. /\ Controller \in Threads /\ Worker \in Threads /\ Worker # Controller
      /\ Worker \notin Users
      /\ \A u \in Users : u \in Threads
      /\ kind \notin Terminal
  BY ThreadsAssumption DEF Threads, Worker, Controller, Terminal
<1>1. /\ pc[Worker] = kind
      /\ UNCHANGED <<active, cancelRequested, verdict, report, ret>>
      /\ \E l \in {"frames", "read", "caught"} : Goto(Worker, l)
  BY <1>0 DEF DeliverEvent, lifecycle, ends, Goto
<1>2. \E l \in {"frames", "read", "caught"} :
          \A u \in Threads : pc'[u] = IF u = Worker THEN l ELSE pc[u]
  BY <1>0, <1>1 DEF Goto, TypeOK, ThreadsOK
<1>3. /\ cbs' \in {cbs, Append(cbs, kind)}
      /\ queue' \in {queue, Append(queue, kind)}
  <2>1. queue \o <<kind>> = Append(queue, kind)
    BY DEF TypeOK, LogsOK
  <2> QED BY <2>1 DEF DeliverEvent, Log, Throws
<1>4. ASSUME NEW log \in {cbs, queue}
      PROVE  /\ NoTerminal(log) => NoTerminal(Append(log, kind))
             /\ OneTerminal(log) => OneTerminal(Append(log, kind))
  BY <1>0 DEF TypeOK, LogsOK, NoTerminal, OneTerminal
<1>5. TerminalOnce'
  BY <1>3, <1>4 DEF IInv, TerminalOnce
<1>6. /\ NoTerminal(cbs) => NoTerminal(cbs')
      /\ NoTerminal(queue) => NoTerminal(queue')
  BY <1>3, <1>4
<1>7. /\ active' => verdict' = "none"
      /\ \A t \in Threads : pc'[t] \in Ending => pc[t] \in Ending /\ ~active'
      /\ \A t, u \in Threads : pc'[t] \in Ending /\ pc'[u] \in Ending => t = u
  BY <1>1, <1>2 DEF IInv, EndsInv, Ending
<1>8. EndsInv'
  BY <1>1, <1>6, <1>7 DEF IInv, EndsInv
<1>9. CancelInv'
  BY <1>0, <1>1, <1>2 DEF IInv, CancelInv, MayCancel, EndLabels, DoneLabels
<1>10. CancelDecides'
  BY <1>0, <1>1, <1>2 DEF IInv, CancelDecides
<1> QED BY <1>5, <1>8, <1>9, <1>10 DEF IInv

\* The public methods keep the invariant: only a cancel and a failed start() report
\* an end.
LEMMA UserInv ==
    ASSUME TypeOK, IInv, NEW u \in Users, UserCall(u) \/ UserStep(u)
    PROVE  IInv'
<1>0. u \in Threads /\ Worker \in Threads /\ Controller \in Threads /\ u # Worker /\ u # Controller
  BY ThreadsAssumption DEF Threads
<1>1. CASE Cancel(u)
  <2>1. PICK l \in UserLabels : Goto(u, l)
    BY <1>1 DEF Cancel, UserLabels
  <2>2. /\ active /\ cancelRequested' /\ UNCHANGED <<active, verdict, cbs, queue>>
        /\ pc[u] = "idle"
        /\ l \notin EndLabels \cup DoneLabels
    BY <1>1 DEF Cancel, logs, ends, UserLabels, EndLabels, DoneLabels
  <2>3. \A t \in Threads : pc'[t] = IF t = u THEN l ELSE pc[t]
    BY <1>0, <2>1 DEF Goto, TypeOK, ThreadsOK
  <2>4. EndsInv' /\ TerminalOnce'
    BY <1>0, <2>2, <2>3 DEF IInv, EndsInv, TerminalOnce, Ending, EndLabels
  <2>5. CancelInv'
    BY <1>0, <2>1, <2>2, <2>3 DEF IInv, CancelInv, MayCancel, Goto, EndLabels, DoneLabels, Threads
  <2>6. CancelDecides'
    BY <2>2 DEF IInv, EndsInv, CancelDecides
  <2> QED BY <2>4, <2>5, <2>6 DEF IInv
<1>2. CASE Submit(u) /\ pc' = [pc EXCEPT ![u] = "wake", ![Worker] = "poll"]
                     /\ UNCHANGED <<report, ret>>
  <2>1. \A t \in Threads : pc'[t] = IF t = Worker THEN "poll" ELSE IF t = u THEN "wake" ELSE pc[t]
    BY <1>0, <1>2 DEF TypeOK, ThreadsOK
  <2>2. Aside /\ pc[u] = "submit"
    BY <1>2 DEF Submit, Aside, ends
  <2>3. EndsInv' /\ TerminalOnce'
    BY <1>0, <2>1, <2>2 DEF IInv, EndsInv, TerminalOnce, Ending, Aside, logs
  <2>4. CancelInv'
    <3>1. /\ pc'[Controller] = pc[Controller] /\ pc'[Worker] = "poll"
          /\ \A v \in Users : pc'[v] = IF v = u THEN "wake" ELSE pc[v]
          /\ UNCHANGED <<active, cancelRequested, report, ret>>
      BY <1>0, <1>2, <2>1, <2>2, ThreadsAssumption DEF Aside, Threads, Worker, Controller
    <3> QED BY <3>1 DEF IInv, CancelInv, MayCancel, EndLabels, DoneLabels
  <2>5. CancelDecides'
    BY <1>0, <2>1, <2>2 DEF IInv, CancelDecides, Aside
  <2> QED BY <2>3, <2>4, <2>5 DEF IInv
<1>3. ASSUME \/ UserCall(u) /\ ~Cancel(u)
             \/ Wake(u) \/ Send(u) \/ NotWritable(u) \/ FinishWritesSend(u) \/ FinishWritesArm(u)
      PROVE  /\ Aside
             /\ \/ UNCHANGED threads
                \/ pc[u] \notin Ending /\ \E l \in UserLabels \ {"rst_inline"} : Goto(u, l)
  BY <1>3 DEF UserCall, Start, ArmTimer, CancelTimer, SetIdleTimeout, Write, WritesDone,
       FinishWrites, Wake, Send, NotWritable, FinishWritesSend, FinishWritesArm,
       Aside, lifecycle, ends, Ending, UserLabels
<1>4. CASE Submit(u)
  <2>1. pc[u] \notin Ending /\ Aside
    BY <1>4 DEF Submit, Ending, Aside, ends
  <2>2. CASE Goto(u, "unsubmitted")
    BY <2>1, <2>2, MoveInv DEF UserLabels, Ordinary
  <2> QED BY <1>2, <1>4, <2>2 DEF Submit
<1>5. CASE SubmitFailed(u)
  <2>1. pc[u] \notin Ending /\ Aside /\ Deliver(u, "ERROR", "idle")
    BY <1>5 DEF SubmitFailed, Ending, Aside, lifecycle, ends
  <2> QED BY <1>0, <2>1, DeliverInv DEF Verdicts
<1>6. CASE CancelReset(u)
  <2>1. pc[u] \notin Ending /\ Aside
    BY <1>6 DEF CancelReset, Ending, Aside, lifecycle, ends
  <2>2. CASE Goto(u, "wake")
    BY <2>1, <2>2, MoveInv DEF UserLabels, Ordinary
  <2>3. CASE pc[u] = "rst_inline" /\ Deliver(u, "CANCELLED", "idle")
    <3>1. MayCancel
      BY <2>3 DEF IInv, CancelInv, MayCancel
    <3> QED BY <1>0, <2>1, <2>3, <3>1, DeliverInv DEF Verdicts
  <2> QED BY <1>6, <2>2, <2>3 DEF CancelReset
<1> QED
  BY <1>1, <1>3, <1>4, <1>5, <1>6, StillInv, MoveInv DEF UserStep, Ordinary

\* The drain keeps the invariant: a message is no terminal event, and it reports a
\* cancel only when it saw one.
LEMMA WorkerInv ==
    ASSUME TypeOK, IInv, WorkerStep
    PROVE  IInv'
<1> DEFINE Move == Aside /\ \E l \in WorkerLabels : Goto(Worker, l)
           End == Aside /\ \E s \in Verdicts \ {"CANCELLED"} : Deliver(Worker, s, "done")
<1>0. Worker \in Threads /\ Worker # Controller /\ Worker \notin Users
  BY ThreadsAssumption DEF Threads, Worker, Controller
<1>1. ASSUME pc[Worker] \notin Ending, Move PROVE IInv'
  BY <1>1, MoveInv DEF Ordinary, WorkerLabels, UserLabels
<1>2. ASSUME pc[Worker] \notin Ending, End PROVE IInv'
  BY <1>0, <1>2, DeliverInv
<1>3. ASSUME WakeUp \/ ReadNothing \/ FireTimers \/ Rearm
      PROVE  pc[Worker] \notin Ending /\ Move
  BY <1>3 DEF WakeUp, ReadNothing, FireTimers, Rearm, Ending, Aside, lifecycle, ends, WorkerLabels
<1>4. ASSUME ReadHeaders \/ ReadChunk
      PROVE  pc[Worker] \notin Ending /\ Move
  BY <1>4 DEF ReadHeaders, ReadChunk, ReadItem, Ending, Aside, lifecycle, ends, WorkerLabels
<1>5. ASSUME ReadError \/ FrameTooLarge \/ DrainCaught
      PROVE  pc[Worker] \notin Ending /\ End
  BY <1>5 DEF ReadError, ReadItem, FrameTooLarge, DrainCaught, Ending, Aside, lifecycle, ends, Verdicts
<1>6. ASSUME ReadClosed \/ ReadEnd \/ TakeFrame \/ FramesExhausted \/ CheckDeadlines
      PROVE  pc[Worker] \notin Ending /\ (Move \/ End)
  BY <1>6 DEF ReadClosed, ReadEnd, ReadItem, TakeFrame, FramesExhausted, CheckDeadlines, Ending,
       Aside, lifecycle, ends, WorkerLabels, Verdicts
<1>7. ASSUME NEW here \in {"drain", "check", "timer"}, NEW next \in {"read", "deadlines"},
             CheckCancelled(here, next)
      PROVE  IInv'
  <2>1. pc[Worker] \notin Ending /\ Aside
    BY <1>7 DEF CheckCancelled, Ending, Aside, lifecycle, ends
  <2>2. CASE cancelRequested
    <3>1. Deliver(Worker, "CANCELLED", "done")
      BY <1>7, <2>2 DEF CheckCancelled
    <3> QED BY <1>0, <2>1, <2>2, <3>1, DeliverInv DEF MayCancel, Verdicts
  <2>3. CASE ~cancelRequested
    BY <1>1, <1>7, <2>1, <2>3 DEF CheckCancelled, WorkerLabels
  <2> QED BY <2>2, <2>3
<1>8. CASE ContinuePoll
  <2>1. pc[Worker] \notin Ending /\ Aside
    BY <1>8 DEF ContinuePoll, Ending, Aside, lifecycle, ends
  <2>2. CASE Goto(Worker, "drain")
    BY <1>1, <2>1, <2>2 DEF WorkerLabels
  <2>3. CASE Goto(Worker, "gone")
    BY <2>1, <2>3, LeaveInv DEF DoneLabels
  <2> QED BY <1>8, <2>2, <2>3 DEF ContinuePoll
<1>9. ASSUME NEW name \in Timers, TimerCallback(name) PROVE IInv'
  <2>1. pc[Worker] \notin Ending /\ Aside
    BY <1>9 DEF TimerCallback, Ending, Aside, lifecycle, ends
  <2>2. CASE ~active /\ Goto(Worker, "done")
    BY <2>1, <2>2, LeaveInv DEF DoneLabels
  <2>3. CASE \E l \in WorkerLabels : Goto(Worker, l)
    BY <1>1, <2>1, <2>3
  <2> QED BY <1>9, <2>2, <2>3 DEF TimerCallback, WorkerLabels
<1>10. ASSUME NEW kind \in {"message", "headers"}, NEW next \in {"frames", "read"},
              DeliverEvent(kind, next)
       PROVE  IInv'
  BY <1>10, EventInv
<1> QED
  BY <1>1, <1>2, <1>3, <1>4, <1>5, <1>6, <1>7, <1>8, <1>9, <1>10 DEF WorkerStep, TimersFired

\* The steps that carry the end: deciding it, recording it, telling the sinks.
LEMMA EndInv ==
    ASSUME TypeOK, IInv, NEW t \in Threads, TerminalStep(t)
    PROVE  IInv'
<1> USE DEF TypeOK, ThreadsOK
<1>0. /\ Controller \in Threads /\ Worker \in Threads /\ Worker # Controller
      /\ Worker \notin Users /\ Controller \notin Users
      /\ \A u \in Users : u \in Threads
  BY ThreadsAssumption DEF Threads, Worker, Controller
<1>1. CASE MarkInactive(t) /\ active
  <2>1. /\ pc[t] = "mark" /\ active' = FALSE
        /\ verdict' = IF cancelRequested THEN "CANCELLED" ELSE report[t]
        /\ UNCHANGED <<cancelRequested, cbs, queue, ret>>
        /\ \A u \in Threads : pc'[u] = IF u = t THEN "store" ELSE pc[u]
        /\ \A u \in Threads : report'[u] = IF u = t THEN "ERROR" ELSE report[u]
    BY <1>1 DEF MarkInactive, logs
  <2>2. EndsInv' /\ TerminalOnce'
    BY <1>1, <2>1 DEF IInv, EndsInv, TerminalOnce, Ending
  <2>3. MayCancel => MayCancel'
    BY <1>0, <2>1 DEF MayCancel
  <2>4. CancelInv'
    BY <1>0, <2>1, <2>3 DEF IInv, CancelInv, EndLabels, DoneLabels
  <2>5. CancelDecides'
    BY <1>0, <2>1, <2>3 DEF IInv, CancelInv, CancelDecides, MayCancel
  <2> QED BY <2>2, <2>4, <2>5 DEF IInv
<1>2. CASE MarkInactive(t) /\ ~active
  <2>1. /\ pc[t] = "mark"
        /\ UNCHANGED <<active, verdict, cancelRequested, cbs, queue, ret>>
        /\ \A u \in Threads : pc'[u] = IF u = t THEN ret[t] ELSE pc[u]
        /\ \A u \in Threads : report'[u] = IF u = t THEN "ERROR" ELSE report[u]
        /\ ret[t] \in {"idle", "done", "gone"}
    BY <1>2 DEF MarkInactive, logs
  <2>2. EndsInv' /\ TerminalOnce'
    BY <1>2, <2>1 DEF IInv, EndsInv, TerminalOnce, Ending
  <2>3. t = Controller => ret[t] = "gone"
    BY <2>1 DEF IInv, CancelInv, EndLabels
  <2>4. MayCancel => MayCancel'
    BY <1>0, <2>1, <2>3 DEF MayCancel
  <2>5. CancelInv'
    BY <1>0, <1>2, <2>1, <2>3, <2>4 DEF IInv, CancelInv, EndLabels, DoneLabels
  <2>6. CancelDecides'
    BY <1>0, <2>1, <2>4 DEF IInv, CancelDecides, MayCancel
  <2> QED BY <2>2, <2>5, <2>6 DEF IInv
<1>3. CASE StoreOutcome(t)
  <2>1. /\ pc[t] = "store"
        /\ UNCHANGED <<active, verdict, cancelRequested, cbs, queue, ret, report>>
        /\ \A u \in Threads : pc'[u] = IF u = t THEN "emit" ELSE pc[u]
    BY <1>3 DEF StoreOutcome, lifecycle, logs, Goto
  <2>2. EndsInv' /\ TerminalOnce'
    BY <2>1 DEF IInv, EndsInv, TerminalOnce, Ending
  <2>3. MayCancel => MayCancel'
    BY <1>0, <2>1 DEF MayCancel
  <2>4. CancelInv'
    BY <1>0, <2>1, <2>3 DEF IInv, CancelInv, EndLabels, DoneLabels
  <2>5. CancelDecides'
    BY <1>0, <2>1, <2>3 DEF IInv, CancelDecides, MayCancel
  <2> QED BY <2>2, <2>4, <2>5 DEF IInv
<1>4. CASE EmitTerminal(t)
  <2>1. /\ pc[t] = "emit" /\ ~active
        /\ UNCHANGED <<active, verdict, cancelRequested, ret, report>>
        /\ \E l \in {ret[t], "caught"} :
              /\ l = "caught" => ret[t] = "done"
              /\ \A u \in Threads : pc'[u] = IF u = t THEN l ELSE pc[u]
        /\ ret[t] \in {"idle", "done", "gone"}
    BY <1>4 DEF EmitTerminal, lifecycle, ends, Goto, IInv, EndsInv, Ending
  <2>2. PICK k \in Terminal : Log(k, <<k, "sentinel">>) \/ Throws(k)
    BY <1>4 DEF EmitTerminal, Terminal
  <2>3. NoTerminal(cbs) /\ NoTerminal(queue)
    BY <2>1 DEF IInv, EndsInv, Ending
  <2>4. TerminalOnce'
    <3>1. OneTerminal(cbs) /\ OneTerminal(Append(cbs, k))
      BY <2>3 DEF LogsOK, NoTerminal, OneTerminal
    <3>2. OneTerminal(queue) /\ OneTerminal(queue \o <<k, "sentinel">>)
      BY <2>2, <2>3 DEF LogsOK, NoTerminal, OneTerminal, Terminal
    <3> QED BY <2>2, <3>1, <3>2 DEF TerminalOnce, Log, Throws
  <2>5. EndsInv'
    BY <2>1 DEF IInv, EndsInv, Ending
  <2>6. t = Controller => ret[t] = "gone"
    BY <2>1 DEF IInv, CancelInv, EndLabels
  <2>7. MayCancel => MayCancel'
    BY <1>0, <2>1, <2>6 DEF MayCancel
  <2>8. CancelInv'
    BY <1>0, <2>1, <2>6, <2>7 DEF IInv, CancelInv, EndLabels, DoneLabels
  <2>9. CancelDecides'
    BY <1>0, <2>1, <2>7 DEF IInv, CancelDecides, MayCancel
  <2> QED BY <2>4, <2>5, <2>8, <2>9 DEF IInv
<1> QED BY <1>1, <1>2, <1>3, <1>4 DEF TerminalStep

\* The end of the poll operation
LEMMA PollDoneInv ==
    ASSUME TypeOK, IInv, NEW t \in Threads, PollDone(t) \/ PollDoneCheck(t)
    PROVE  IInv'
<1> USE DEF TypeOK, ThreadsOK
<1>0. /\ Controller \in Threads /\ Worker \in Threads /\ Worker # Controller
      /\ Worker \notin Users /\ Controller \notin Users
      /\ \A u \in Users : u \in Threads
  BY ThreadsAssumption DEF Threads, Worker, Controller
<1>1. t \in {Worker, Controller} /\ pc[t] \notin Ending /\ Aside
  BY DEF PollDone, PollDoneCheck, IInv, CancelInv, DoneLabels, Threads, Ending, Aside, ends, lifecycle
<1>2. t = Worker => ~active
  BY <1>1 DEF PollDone, PollDoneCheck, IInv, CancelInv
<1>3. CASE PollDoneCheck(t) /\ active
  <2>1. Deliver(t, "CANCELLED", "gone") /\ t = Controller /\ pc[t] = "done_check"
    BY <1>1, <1>2, <1>3 DEF PollDoneCheck
  <2> QED BY <1>0, <1>1, <2>1, DeliverInv DEF Verdicts, MayCancel
<1>4. CASE PollDone(t) \/ (PollDoneCheck(t) /\ ~active)
  <2>1. \E l \in {"done_check", "gone"} : Goto(t, l) /\ (l = "done_check" /\ t = Worker => ~active)
    BY <1>2, <1>4 DEF PollDone, PollDoneCheck
  <2>2. CASE t = Worker
    BY <1>1, <2>1, <2>2, LeaveInv DEF DoneLabels
  <2>3. CASE t = Controller
    <3>1. /\ pc'[Controller] \in {"done_check", "gone"}
          /\ \A u \in Threads : u # Controller => pc'[u] = pc[u]
          /\ UNCHANGED <<report, ret, active, cancelRequested, verdict, cbs, queue>>
      BY <1>0, <1>1, <2>1, <2>3 DEF Goto, Aside, logs
    <3>2. EndsInv' /\ TerminalOnce'
      BY <1>0, <3>1 DEF IInv, EndsInv, TerminalOnce, Ending
    <3>3. CancelInv'
      BY <1>0, <3>1 DEF IInv, CancelInv, MayCancel, EndLabels, DoneLabels
    <3>4. CancelDecides'
      BY <3>1 DEF IInv, CancelDecides
    <3> QED BY <3>2, <3>3, <3>4 DEF IInv
  <2> QED BY <1>1, <2>2, <2>3
<1> QED BY <1>3, <1>4

\* The server, the clock and an abort keep the invariant.
LEMMA EnvironmentInv ==
    ASSUME TypeOK, IInv, Environment
    PROVE  IInv'
<1>1. CASE Abort
  <2>0. /\ Controller \in Threads /\ Worker \in Threads /\ Worker # Controller
        /\ Controller \notin Users
        /\ \A u \in Users : u \in Threads
    BY ThreadsAssumption DEF Threads, Worker, Controller
  <2>1. /\ pc'[Controller] = "done"
        /\ \A u \in Threads : u # Controller => pc'[u] = pc[u]
        /\ UNCHANGED <<report, ret, active, cancelRequested, verdict, cbs, queue>>
    BY <1>1, <2>0 DEF Abort, Goto, ends, logs, TypeOK, ThreadsOK
  <2>2. EndsInv' /\ TerminalOnce'
    BY <2>0, <2>1 DEF IInv, EndsInv, TerminalOnce, Ending
  <2>3. CancelInv'
    BY <2>0, <2>1 DEF IInv, CancelInv, MayCancel, EndLabels, DoneLabels
  <2>4. CancelDecides'
    BY <2>1 DEF IInv, CancelDecides
  <2> QED BY <2>2, <2>3, <2>4 DEF IInv
<1>2. CASE ~Abort
  <2>1. Aside /\ UNCHANGED threads
    BY <1>2 DEF Environment, ServerHeaders, ServerEnd, ServerReset, ServerData, ServerSends, Tick,
                Aside, lifecycle, ends
  <2> QED BY <2>1, StillInv
<1> QED BY <1>1, <1>2

\* IInv is inductive, relative to the types.
LEMMA NextInv == TypeOK /\ IInv /\ [Next]_vars => IInv'
<1> SUFFICES ASSUME TypeOK, IInv, [Next]_vars PROVE IInv'
  OBVIOUS
<1>1. CASE UNCHANGED vars
  BY <1>1, StillInv DEF vars, Aside, lifecycle, ends, threads
<1>2. CASE Next
  BY <1>2, UserInv, WorkerInv, EndInv, PollDoneInv, EnvironmentInv DEF Next, Step
<1> QED BY <1>1, <1>2

\* The types and the invariant of the ends hold in every reachable state.
LEMMA Invariance == Spec => [](TypeOK /\ IInv)
<1>1. Init => TypeOK /\ IInv
  BY InitType, InitInv
<1>2. TypeOK /\ IInv /\ [Next]_vars => (TypeOK /\ IInv)'
  BY NextType, NextInv
<1> QED BY <1>1, <1>2, PTL DEF Spec

\* No sink ever sees two terminal events, whoever reports the end of the call and
\* whenever the controller aborts the operation.
THEOREM OneEnd == Spec => []TerminalOnce
<1>1. IInv => TerminalOnce
  BY DEF IInv
<1> QED BY <1>1, Invariance, PTL

\* A cancel that took effect is how the call ends, and a call that ends cancelled
\* was cancelled.
THEOREM CancelIsTheEnd == Spec => []CancelDecides
<1>1. IInv => CancelDecides
  BY DEF IInv
<1> QED BY <1>1, Invariance, PTL

-----------------------------------------------------------------------------
\* Nothing follows the terminal event.

Delivering == {"message", "headers"}
Draining == Delivering \cup {"read", "frames", "check", "timers", "timer", "deadlines", "rearm"}

\* A user that is about to report an end, or on its way to.
Reporting == {"unsubmitted", "rst_inline"} \cup EndLabels

\* Where the threads can be at the same time: nobody but the worker reports an end
\* while the worker drains.
PlaceInv ==
    /\ pc[Worker] \in Delivering => active
    /\ ~pollActive => /\ pc[Worker] \notin Draining \cup {"drain"}
                      /\ pc[Worker] \in {"wait", "poll"} => complete
    /\ \A u \in Users : pc[u] \in Reporting =>
          pc[Worker] \notin Draining /\ (cancelRequested \/ pc[Worker] = "off")
    /\ \A u \in Users : pc[u] = "submit" =>
          /\ pc[Worker] = "off" /\ pollActive
          /\ \A v \in Users \ {u} :
                pc[v] # "submit" /\ (pc[v] \in Reporting => cancelRequested)
    /\ ~started => /\ pc[Worker] = "off"
                   /\ \A u \in Users :
                         pc[u] # "submit" /\ (pc[u] \in Reporting => cancelRequested)
    /\ pc[Controller] # "idle" => complete /\ pc[Worker] \in {"wait", "poll", "gone"}

\* The sentinel comes with the terminal event.
SentinelInv ==
    \A i \in 1..Len(queue) :
        queue[i] = "sentinel" => \E j \in 1..Len(queue) : queue[j] \in Terminal

\* What TerminalIsLast says of the sinks
EndIsLast ==
    /\ \A i \in 1..Len(cbs) : cbs[i] \in Terminal => i = Len(cbs)
    /\ \A i \in 1..Len(queue) : /\ queue[i] \in Terminal => i = Len(queue) - 1
                                /\ queue[i] = "sentinel" => i = Len(queue)

LastInv == Undisturbed => PlaceInv /\ SentinelInv /\ EndIsLast

LEMMA Identities ==
    /\ Worker \in Threads /\ Controller \in Threads /\ Worker # Controller
    /\ Worker \notin Users /\ Controller \notin Users
    /\ \A u \in Users : u \in Threads
  BY ThreadsAssumption DEF Threads, Worker, Controller

LEMMA InitLast == Init => LastInv
<1> SUFFICES ASSUME Init PROVE LastInv
  OBVIOUS
<1>1. cbs = <<>> /\ queue = <<>> /\ ~started /\ active
      /\ \A t \in Threads : pc[t] = IF t = Worker THEN "off" ELSE "idle"
  BY DEF Init
<1>2. PlaceInv
  BY <1>1, Identities DEF PlaceInv, Delivering, Draining, Reporting, EndLabels
<1> QED BY <1>1, <1>2 DEF LastInv, SentinelInv, EndIsLast

-----------------------------------------------------------------------------
\* Where the threads are

\* The worker drains only from where it looked for a cancel, and polls only while the
\* operation is not complete.
LEMMA PlaceWorker ==
    ASSUME TypeOK, PlaceInv, NEW l, pc' = [pc EXCEPT ![Worker] = l],
           UNCHANGED <<started, pollActive, complete, cancelRequested>>,
           pc[Worker] # "off", l # "off",
           l \in Delivering => active',
           l \in Draining => \/ pc[Worker] \in Draining
                             \/ pc[Worker] = "drain" /\ ~cancelRequested,
           l = "drain" => pc[Worker] = "poll" /\ ~complete,
           l \in {"wait", "poll"} => pc[Worker] \in Draining \cup {"wait"},
           pc[Worker] \in {"wait", "poll", "gone"} => ~complete \/ l = "gone"
    PROVE  PlaceInv'
<1>1. \A t \in Threads : pc'[t] = IF t = Worker THEN l ELSE pc[t]
  BY Identities DEF TypeOK, ThreadsOK
<1> QED BY <1>1, Identities DEF PlaceInv

\* A user's step that neither starts the operation nor sets out to report an end
LEMMA PlaceUser ==
    ASSUME TypeOK, PlaceInv, NEW u \in Users, NEW l, pc' = [pc EXCEPT ![u] = l],
           UNCHANGED <<started, pollActive, complete, cancelRequested>>,
           l # "submit",
           l \in Reporting => pc[u] \in Reporting,
           active' = active \/ pc[u] \in Reporting
    PROVE  PlaceInv'
<1>1. \A t \in Threads : pc'[t] = IF t = u THEN l ELSE pc[t]
  BY Identities DEF TypeOK, ThreadsOK
<1>2. pc'[Worker] = pc[Worker] /\ pc'[Controller] = pc[Controller]
  BY <1>1, Identities
<1>3. pc'[Worker] \in Delivering => active'
  BY <1>2 DEF PlaceInv, Draining
<1>4. \A v \in Users : /\ pc'[v] \in Reporting => pc[v] \in Reporting
                       /\ pc'[v] = "submit" => pc[v] = "submit"
  BY <1>1, Identities
<1> QED BY <1>2, <1>3, <1>4 DEF PlaceInv

\* The controller's steps, which come when the worker does not drain
LEMMA PlaceController ==
    ASSUME TypeOK, PlaceInv, NEW l, pc' = [pc EXCEPT ![Controller] = l],
           UNCHANGED <<started, cancelRequested>>, complete', pollActive' => pollActive,
           pc[Controller] # "idle" \/ pollActive' = pollActive,
           pc[Worker] \in {"wait", "poll", "gone"}
    PROVE  PlaceInv'
<1>1. \A t \in Threads : pc'[t] = IF t = Controller THEN l ELSE pc[t]
  BY Identities DEF TypeOK, ThreadsOK
<1>2. pc'[Worker] = pc[Worker] /\ \A u \in Users : pc'[u] = pc[u]
  BY <1>1, Identities
<1>3. pc[Worker] \notin Draining \cup Delivering \cup {"drain", "off"}
  BY DEF Draining, Delivering
<1> QED BY <1>2, <1>3 DEF PlaceInv, Draining

LEMMA PlaceStill ==
    ASSUME PlaceInv, UNCHANGED <<pc, started, pollActive, complete, cancelRequested, active>>
    PROVE  PlaceInv'
  BY DEF PlaceInv

LEMMA PlaceCalls ==
    ASSUME TypeOK, IInv, PlaceInv, NEW u \in Users, UserCall(u) \/ UserStep(u)
    PROVE  PlaceInv'
<1> USE Identities
<1>1. CASE Start(u)
  <2>1. /\ \A t \in Threads : pc'[t] = IF t = u THEN "submit" ELSE pc[t]
        /\ ~started /\ started' /\ pollActive' /\ UNCHANGED <<complete, active, cancelRequested>>
    BY <1>1 DEF Start, Goto, TypeOK, ThreadsOK
  <2> QED BY <2>1 DEF PlaceInv, Reporting, EndLabels, Draining, Delivering
<1>2. CASE Submit(u)
  <2>1. pc[u] = "submit" /\ UNCHANGED <<started, complete, active, cancelRequested>>
    BY <1>2 DEF Submit
  <2>2. /\ pc[Worker] = "off" /\ started /\ pollActive
        /\ \A v \in Users \ {u} : pc[v] # "submit" /\ (pc[v] \in Reporting => cancelRequested)
        /\ pc[Controller] = "idle"
    BY <2>1 DEF PlaceInv
  <2>3. CASE pc' = [pc EXCEPT ![u] = "wake", ![Worker] = "poll"] /\ UNCHANGED pollActive
    <3>1. \A t \in Threads : pc'[t] = IF t = Worker THEN "poll" ELSE IF t = u THEN "wake" ELSE pc[t]
      BY <2>3 DEF TypeOK, ThreadsOK
    <3>2. /\ pc'[Worker] = "poll" /\ pc'[u] = "wake" /\ pc'[Controller] = "idle"
          /\ \A v \in Users \ {u} : pc'[v] = pc[v]
      BY <2>2, <3>1
    <3> QED BY <2>1, <2>2, <2>3, <3>2 DEF PlaceInv, Reporting, EndLabels, Draining, Delivering
  <2>4. CASE pollActive' = FALSE /\ Goto(u, "unsubmitted")
    <3>1. \A t \in Threads : pc'[t] = IF t = u THEN "unsubmitted" ELSE pc[t]
      BY <2>4 DEF Goto, TypeOK, ThreadsOK
    <3> QED BY <2>1, <2>2, <2>4, <3>1 DEF PlaceInv, Reporting, EndLabels, Draining, Delivering
  <2> QED BY <1>2, <2>3, <2>4 DEF Submit
<1>3. CASE Cancel(u)
  <2>1. PICK l \in {"rst_notify", "rst_inline"} :
           /\ \A t \in Threads : pc'[t] = IF t = u THEN l ELSE pc[t]
           /\ l = "rst_inline" => ~pollActive
    BY <1>3 DEF Cancel, Goto, TypeOK, ThreadsOK
  <2>2. cancelRequested' /\ UNCHANGED <<started, pollActive, complete, active>>
    BY <1>3 DEF Cancel
  <2> QED BY <2>1, <2>2 DEF PlaceInv, Reporting, EndLabels
<1>4. CASE SubmitFailed(u) \/ CancelReset(u)
  <2>1. PICK l \in {"mark", "wake"} : pc' = [pc EXCEPT ![u] = l]
    BY <1>4 DEF SubmitFailed, CancelReset, Deliver, Goto
  <2>2. l = "mark" => pc[u] \in Reporting
    BY <1>4, <2>1 DEF SubmitFailed, CancelReset, Deliver, Goto, Reporting, TypeOK, ThreadsOK
  <2>3. UNCHANGED <<started, pollActive, complete, cancelRequested, active>>
    BY <1>4 DEF SubmitFailed, CancelReset, lifecycle
  <2> QED BY <2>1, <2>2, <2>3, PlaceUser DEF Reporting, EndLabels
<1>5. CASE \/ UserCall(u) /\ ~Start(u) /\ ~Cancel(u)
           \/ Wake(u) \/ Send(u) \/ NotWritable(u) \/ FinishWritesSend(u) \/ FinishWritesArm(u)
  <2>1. UNCHANGED <<started, pollActive, complete, cancelRequested, active>>
    BY <1>5 DEF UserCall, ArmTimer, CancelTimer, SetIdleTimeout, Write, WritesDone,
         FinishWrites, Wake, Send, NotWritable, FinishWritesSend, FinishWritesArm, lifecycle
  <2>2. \/ UNCHANGED pc
        \/ \E l \in {"idle", "send", "not_writable", "send_end", "arm_drain", "wake"} :
              pc' = [pc EXCEPT ![u] = l]
    BY <1>5 DEF UserCall, ArmTimer, CancelTimer, SetIdleTimeout, Write, WritesDone,
         FinishWrites, Wake, Send, NotWritable, FinishWritesSend, FinishWritesArm, Goto, threads
  <2> QED BY <2>1, <2>2, PlaceUser, PlaceStill DEF Reporting, EndLabels
<1> QED BY <1>1, <1>2, <1>3, <1>4, <1>5 DEF UserStep

LEMMA PlaceDrain ==
    ASSUME TypeOK, IInv, PlaceInv, WorkerStep
    PROVE  PlaceInv'
<1> DEFINE Still == UNCHANGED <<started, pollActive, complete, cancelRequested, active>>
           To(l) == pc' = [pc EXCEPT ![Worker] = l]
<1> USE DEF Goto, Deliver, lifecycle
<1>1. CASE WakeUp
  <2>1. Still /\ To("poll") /\ pc[Worker] = "wait" /\ ~complete
    BY <1>1 DEF WakeUp
  <2> QED BY <2>1, PlaceWorker DEF Draining, Delivering
<1>2. CASE ContinuePoll
  <2>1. Still /\ pc[Worker] = "poll" /\ ((To("gone") /\ complete) \/ (To("drain") /\ ~complete))
    BY <1>2 DEF ContinuePoll
  <2> QED BY <2>1, PlaceWorker DEF Draining, Delivering
<1>3. CASE CheckCancelled("drain", "read")
  <2>1. Still /\ pc[Worker] = "drain" /\ (To("mark") \/ (To("read") /\ ~cancelRequested))
    BY <1>3 DEF CheckCancelled
  <2> QED BY <2>1, PlaceWorker DEF Draining, Delivering
<1>4. CASE ReadHeaders \/ TakeFrame
  <2>1. /\ Still /\ pc[Worker] \in {"read", "frames"}
        /\ \/ \E l \in {"read", "mark", "check"} : To(l)
           \/ active /\ \E l \in Delivering : To(l)
    BY <1>4 DEF ReadHeaders, ReadItem, TakeFrame, Delivering
  <2> QED BY <2>1, PlaceWorker DEF Draining, Delivering
<1>5. ASSUME Still, pc[Worker] \in Draining,
             \E l \in (Draining \ Delivering) \cup {"wait", "mark", "caught", "done"} : To(l)
      PROVE  PlaceInv'
  BY <1>5, PlaceWorker DEF Draining, Delivering
<1>6. CASE CheckCancelled("check", "read") \/ TimersFired \/ CheckDeadlines \/ Rearm \/ FireTimers
  <2>1. /\ Still /\ pc[Worker] \in Draining
        /\ \E l \in (Draining \ Delivering) \cup {"wait", "mark", "caught", "done"} : To(l)
    BY <1>6 DEF CheckCancelled, TimersFired, CheckDeadlines, Rearm, FireTimers, Draining, Delivering
  <2> QED BY <1>5, <2>1
<1>7. CASE ReadNothing \/ ReadClosed \/ ReadError \/ ReadEnd \/ ReadChunk
  <2>1. /\ Still /\ pc[Worker] \in Draining
        /\ \E l \in (Draining \ Delivering) \cup {"wait", "mark", "caught", "done"} : To(l)
    BY <1>7 DEF ReadNothing, ReadClosed, ReadError, ReadEnd, ReadChunk, ReadItem, Draining, Delivering
  <2> QED BY <1>5, <2>1
<1>8. CASE FrameTooLarge \/ FramesExhausted \/ DeliverEvent("message", "frames")
           \/ DeliverEvent("headers", "read") \/ \E name \in Timers : TimerCallback(name)
  <2>1. /\ Still /\ pc[Worker] \in Draining
        /\ \E l \in (Draining \ Delivering) \cup {"wait", "mark", "caught", "done"} : To(l)
    BY <1>8 DEF FrameTooLarge, FramesExhausted, DeliverEvent, TimerCallback, Draining, Delivering
  <2> QED BY <1>5, <2>1
<1>9. CASE DrainCaught
  <2>1. Still /\ pc[Worker] = "caught" /\ To("mark")
    BY <1>9 DEF DrainCaught
  <2> QED BY <2>1, PlaceWorker DEF Draining, Delivering
<1> QED
  BY <1>1, <1>2, <1>3, <1>4, <1>6, <1>7, <1>8, <1>9 DEF WorkerStep

\* Where the end of the call comes from and goes to
LEMMA PlaceEnd ==
    ASSUME TypeOK, IInv, PlaceInv, NEW t \in Threads,
           TerminalStep(t) \/ PollDone(t) \/ PollDoneCheck(t)
    PROVE  PlaceInv'
<1> DEFINE Ends == {"store", "emit", "mark", "caught", "done_check"} \cup {"idle", "done", "gone"}
<1>1. pc[t] \in EndLabels \cup DoneLabels
  BY DEF TerminalStep, MarkInactive, StoreOutcome, EmitTerminal, PollDone, PollDoneCheck,
         EndLabels, DoneLabels
<1>2. PICK l \in Ends : pc' = [pc EXCEPT ![t] = l]
  <2>1. ret[t] \in {"idle", "done", "gone"}
    BY DEF TypeOK, ThreadsOK
  <2> QED BY <2>1 DEF TerminalStep, MarkInactive, StoreOutcome, EmitTerminal, PollDone,
                      PollDoneCheck, Goto, Deliver
<1>3. UNCHANGED <<started, cancelRequested>>
  BY DEF TerminalStep, MarkInactive, StoreOutcome, EmitTerminal, PollDone, PollDoneCheck, lifecycle
<1>4. PollDone(t) => complete' /\ ~pollActive' /\ active' = active /\ pc[t] = "done" /\ l = "done_check"
  <2> SUFFICES ASSUME PollDone(t) PROVE complete' /\ ~pollActive' /\ active' = active /\ pc[t] = "done" /\ l = "done_check"
    OBVIOUS
  <2>1. pc' = [pc EXCEPT ![t] = "done_check"]
    BY DEF PollDone, Goto
  <2>2. l = pc'[t] /\ pc'[t] = "done_check"
    BY <1>2, <2>1 DEF TypeOK, ThreadsOK
  <2> QED BY <2>2 DEF PollDone
<1>5. ~PollDone(t) => UNCHANGED <<pollActive, complete>>
  BY DEF TerminalStep, MarkInactive, StoreOutcome, EmitTerminal, PollDoneCheck, lifecycle
<1>6. CASE t \in Users
  <2>1. pc[t] \in EndLabels
    BY <1>1, <1>6 DEF IInv, CancelInv
  <2>2. active' = active \/ pc[t] \in Reporting
    BY <2>1 DEF Reporting
  <2>3. pc[t] # "done"
    BY <2>1 DEF EndLabels
  <2> QED BY <1>2, <1>3, <1>4, <1>5, <1>6, <2>1, <2>2, <2>3, PlaceUser DEF Reporting
<1>7. CASE t = Controller
  <2>1. pc[Controller] # "idle"
    BY <1>1, <1>7 DEF EndLabels, DoneLabels
  <2>2. complete /\ pc[Worker] \in {"wait", "poll", "gone"}
    BY <2>1 DEF PlaceInv
  <2>3. complete' /\ (pollActive' => pollActive)
    <3>1. CASE PollDone(t)
      BY <1>4, <3>1
    <3>2. CASE ~PollDone(t)
      BY <1>5, <2>2, <3>2
    <3> QED BY <3>1, <3>2
  <2> QED BY <1>2, <1>3, <1>7, <2>1, <2>2, <2>3, PlaceController
<1>8. CASE t = Worker
  <2>1. pc[Worker] \in EndLabels \cup {"done", "done_check"}
    BY <1>1, <1>8 DEF TerminalStep, MarkInactive, StoreOutcome, EmitTerminal, PollDone,
                      PollDoneCheck, EndLabels
  <2>2. CASE ~PollDone(t)
    BY <1>2, <1>3, <1>5, <1>8, <2>1, <2>2, PlaceWorker DEF EndLabels, Draining, Delivering
  <2>3. CASE PollDone(t)
    <3>1. /\ pc'[Worker] = "done_check" /\ pc'[Controller] = pc[Controller]
          /\ \A u \in Users : pc'[u] = pc[u]
      BY <1>2, <1>4, <1>8, <2>3, Identities DEF TypeOK, ThreadsOK
    <3>2. pc[Worker] = "done" /\ complete' /\ ~pollActive' /\ active' = active
      BY <1>4, <1>8, <2>3
    <3> QED BY <1>3, <3>1, <3>2 DEF PlaceInv, Draining, Delivering
  <2> QED BY <2>2, <2>3
<1> QED BY <1>6, <1>7, <1>8 DEF Threads

LEMMA PlaceEnvironment ==
    ASSUME TypeOK, PlaceInv, Environment, Undisturbed'
    PROVE  PlaceInv'
<1>1. CASE Abort
  <2>1. pc' = [pc EXCEPT ![Controller] = "done"] /\ complete'
        /\ UNCHANGED <<started, pollActive, active, cancelRequested>>
    BY <1>1 DEF Abort, Goto
  <2>2. pc'[Controller] = "done"
    BY <2>1, Identities DEF TypeOK, ThreadsOK
  <2>3. ~ConcurrentAbort
    BY <2>2 DEF Undisturbed
  <2>4. pc[Worker] \in {"wait", "poll", "gone"}
    BY <1>1, <2>3 DEF Abort
  <2> QED BY <2>1, <2>4, PlaceController
<1>2. CASE ~Abort
  <2>1. UNCHANGED <<pc, started, pollActive, complete, cancelRequested, active>>
    BY <1>2 DEF Environment, ServerHeaders, ServerEnd, ServerReset, ServerData, ServerSends, Tick,
                lifecycle, threads
  <2> QED BY <2>1, PlaceStill
<1> QED BY <1>1, <1>2

-----------------------------------------------------------------------------
\* What the sinks have seen

\* What the queue gets for a callback
Events(k) == IF k \in Terminal THEN <<k, "sentinel">> ELSE <<k>>

\* A sink that has seen no end gets a message, or the end.
LEMMA LogGrows ==
    ASSUME TypeOK, NoTerminal(cbs), NoTerminal(queue), SentinelInv,
           NEW k \in Delivering \cup Terminal,
           cbs' \in {cbs, Append(cbs, k)}, queue' \in {queue, queue \o Events(k)}
    PROVE  SentinelInv' /\ EndIsLast'
<1>1. cbs \in Seq({"headers", "message"} \cup Terminal)
      /\ queue \in Seq({"headers", "message", "sentinel"} \cup Terminal)
  BY DEF TypeOK, LogsOK
<1>2. \A i \in 1..Len(queue) : queue[i] # "sentinel" /\ queue[i] \notin Terminal
  BY DEF SentinelInv, NoTerminal
<1>3. \A i \in 1..Len(cbs) : cbs[i] \notin Terminal
  BY DEF NoTerminal
<1>4. \A i \in 1..Len(cbs') : cbs'[i] \in Terminal => i = Len(cbs')
  <2>1. CASE cbs' = cbs
    BY <1>3, <2>1
  <2>2. CASE cbs' = Append(cbs, k)
    <3>1. Len(cbs) \in Nat /\ Len(cbs') = Len(cbs) + 1
      BY <1>1, <2>2
    <3>2. \A i \in 1..Len(cbs) : cbs'[i] = cbs[i]
      BY <1>1, <2>2
    <3> QED BY <1>3, <3>1, <3>2
  <2> QED BY <2>1, <2>2
<1>5. CASE k \in Delivering
  <2>1. k \notin Terminal /\ k # "sentinel" /\ Events(k) = <<k>>
    BY <1>5 DEF Delivering, Terminal, Events
  <2>2. \A i \in 1..Len(queue') : queue'[i] # "sentinel" /\ queue'[i] \notin Terminal
    BY <1>1, <1>2, <2>1
  <2> QED BY <1>4, <2>2 DEF SentinelInv, EndIsLast
<1>6. CASE k \in Terminal
  <2>0. Events(k) = <<k, "sentinel">>
    BY <1>6 DEF Events
  <2>1. CASE queue' = queue
    BY <1>2, <1>4, <2>1 DEF SentinelInv, EndIsLast
  <2>2. CASE queue' = queue \o Events(k)
    <3>1. /\ Len(queue') = Len(queue) + 2 /\ Len(queue) \in Nat
          /\ queue'[Len(queue) + 1] = k /\ queue'[Len(queue) + 2] = "sentinel"
          /\ \A i \in 1..Len(queue) : queue'[i] = queue[i]
      BY <1>1, <2>0, <2>2
    <3>2. "sentinel" \notin Terminal /\ k # "sentinel"
      BY <1>6 DEF Terminal
    <3>3. ASSUME NEW i \in 1..Len(queue')
          PROVE  /\ queue'[i] \in Terminal => i = Len(queue') - 1
                 /\ queue'[i] = "sentinel" => i = Len(queue')
      <4>1. i \in 1..Len(queue) \/ i = Len(queue) + 1 \/ i = Len(queue) + 2
        BY <3>1
      <4> QED BY <1>2, <3>1, <3>2, <4>1
    <3>4. Len(queue) + 1 \in 1..Len(queue') /\ queue'[Len(queue) + 1] \in Terminal
      BY <1>6, <3>1
    <3> QED BY <1>4, <3>3, <3>4 DEF SentinelInv, EndIsLast
  <2> QED BY <2>1, <2>2
<1> QED BY <1>5, <1>6

LEMMA LogStep ==
    ASSUME TypeOK, IInv, PlaceInv, SentinelInv, EndIsLast, [Next]_vars
    PROVE  SentinelInv' /\ EndIsLast'
<1>1. CASE DeliverEvent("message", "frames") \/ DeliverEvent("headers", "read")
  <2>1. active
    BY <1>1 DEF DeliverEvent, PlaceInv, Delivering
  <2>2. NoTerminal(cbs) /\ NoTerminal(queue)
    BY <2>1 DEF IInv, EndsInv
  <2>3. PICK k \in Delivering : cbs' \in {cbs, Append(cbs, k)} /\ queue' \in {queue, queue \o Events(k)}
    BY <1>1 DEF DeliverEvent, Log, Throws, Delivering, Events, Terminal
  <2> QED BY <2>2, <2>3, LogGrows
<1>2. ASSUME NEW t \in Threads, EmitTerminal(t) PROVE SentinelInv' /\ EndIsLast'
  <2>1. pc[t] \in Ending
    BY <1>2 DEF EmitTerminal, Ending
  <2>2. NoTerminal(cbs) /\ NoTerminal(queue)
    BY <2>1 DEF IInv, EndsInv
  <2>3. PICK k \in Terminal :
           cbs' \in {cbs, Append(cbs, k)} /\ queue' \in {queue, queue \o Events(k)}
    BY <1>2 DEF EmitTerminal, Log, Throws, Terminal, Events
  <2> QED BY <2>2, <2>3, LogGrows
<1>3. CASE UNCHANGED logs
  BY <1>3 DEF logs, SentinelInv, EndIsLast
<1>4. ASSUME NEW u \in Users, UserCall(u) \/ UserStep(u) PROVE UNCHANGED logs
  BY <1>4 DEF UserCall, Start, Cancel, ArmTimer, CancelTimer, SetIdleTimeout, Write, WritesDone,
              FinishWrites, UserStep, Submit, SubmitFailed, Wake, CancelReset, Send, NotWritable,
              FinishWritesSend, FinishWritesArm
<1>5. ASSUME WorkerStep, ~DeliverEvent("message", "frames"), ~DeliverEvent("headers", "read")
      PROVE  UNCHANGED logs
  BY <1>5 DEF WorkerStep, WakeUp, ContinuePoll, CheckCancelled, ReadNothing, ReadClosed,
              ReadError, ReadEnd, ReadHeaders, ReadChunk, ReadItem, TakeFrame, FrameTooLarge,
              FramesExhausted, FireTimers, TimerCallback, TimersFired, CheckDeadlines, Rearm,
              DrainCaught
<1>6. ASSUME NEW t \in Threads,
             MarkInactive(t) \/ StoreOutcome(t) \/ PollDone(t) \/ PollDoneCheck(t)
      PROVE  UNCHANGED logs
  BY <1>6 DEF MarkInactive, StoreOutcome, PollDone, PollDoneCheck
<1>7. Environment => UNCHANGED logs
  BY DEF Environment, ServerHeaders, ServerEnd, ServerReset, ServerData, ServerSends, Tick, Abort
<1>8. CASE UNCHANGED vars
  BY <1>3, <1>8 DEF vars
<1> QED
  BY <1>1, <1>2, <1>3, <1>4, <1>5, <1>6, <1>7, <1>8 DEF Next, Step, TerminalStep

-----------------------------------------------------------------------------
\* The controller that has aborted the operation does not become idle again.
LEMMA StaysDisturbed ==
    ASSUME TypeOK, IInv, [Next]_vars, Undisturbed'
    PROVE  Undisturbed
<1>1. SUFFICES ASSUME ConcurrentAbort, pc[Controller] # "idle" PROVE pc'[Controller] # "idle"
  BY DEF Undisturbed
<1> USE Identities DEF TypeOK, ThreadsOK
<1>2. ASSUME NEW t \in Threads, t # Controller, NEW l, pc' = [pc EXCEPT ![t] = l]
      PROVE  pc'[Controller] = pc[Controller]
  BY <1>2
<1>3. ASSUME NEW u \in Users, UserCall(u) \/ UserStep(u) PROVE pc'[Controller] = pc[Controller]
  BY <1>3 DEF UserCall, Start, Cancel, ArmTimer, CancelTimer, SetIdleTimeout, Write, WritesDone,
              FinishWrites, UserStep, Submit, SubmitFailed, Wake, CancelReset, Send, NotWritable,
              FinishWritesSend, FinishWritesArm, Goto, Deliver, threads
<1>4. WorkerStep => pc'[Controller] = pc[Controller]
  BY DEF WorkerStep, WakeUp, ContinuePoll, CheckCancelled, ReadNothing, ReadClosed,
         ReadError, ReadEnd, ReadHeaders, ReadChunk, ReadItem, TakeFrame, FrameTooLarge,
         FramesExhausted, DeliverEvent, FireTimers, TimerCallback, TimersFired, CheckDeadlines,
         Rearm, DrainCaught, Goto, Deliver
<1>5. ASSUME NEW t \in Threads, TerminalStep(t) \/ PollDone(t) \/ PollDoneCheck(t)
      PROVE  pc'[Controller] # "idle"
  <2>1. PICK l : pc' = [pc EXCEPT ![t] = l] /\ l \in {"store", "emit", "mark", "caught", "done_check", "gone", ret[t]}
                 /\ (l = ret[t] => pc[t] \in EndLabels \/ l # "idle")
    BY <1>5 DEF TerminalStep, MarkInactive, StoreOutcome, EmitTerminal, PollDone,
                PollDoneCheck, Goto, Deliver, EndLabels
  <2>2. CASE t # Controller
    BY <1>1, <1>2, <2>1, <2>2
  <2>3. CASE t = Controller
    BY <2>1, <2>3 DEF IInv, CancelInv
  <2> QED BY <2>2, <2>3
<1>6. Environment => pc'[Controller] # "idle"
  BY <1>1 DEF Environment, ServerHeaders, ServerEnd, ServerReset, ServerData, ServerSends, Tick,
              Abort, Goto, threads
<1>7. CASE UNCHANGED vars
  BY <1>1, <1>7 DEF vars, threads
<1> QED BY <1>1, <1>3, <1>4, <1>5, <1>6, <1>7 DEF Next, Step

\* The places and the sinks keep their order with every step.
LEMMA LastStep == TypeOK /\ IInv /\ LastInv /\ [Next]_vars => LastInv'
<1> SUFFICES ASSUME TypeOK, IInv, LastInv, [Next]_vars, Undisturbed'
             PROVE  PlaceInv' /\ SentinelInv' /\ EndIsLast'
  BY DEF LastInv
<1>1. PlaceInv /\ SentinelInv /\ EndIsLast
  BY StaysDisturbed DEF LastInv
<1>2. PlaceInv'
  <2>1. CASE UNCHANGED vars
    BY <1>1, <2>1, PlaceStill DEF vars, lifecycle, threads
  <2>2. CASE Next
    BY <1>1, <2>2, PlaceCalls, PlaceDrain, PlaceEnd, PlaceEnvironment DEF Next, Step
  <2> QED BY <2>1, <2>2
<1>3. SentinelInv' /\ EndIsLast'
  BY <1>1, LogStep
<1> QED BY <1>2, <1>3

\* No callback and no event follows the terminal event, and the sentinel is the last
\* item of the queue, unless the controller aborts the operation in the middle of a
\* drain (markInactive(), the m_active checks of deliverHeaders() and
\* deliverBufferedMessages(), clearSinks()).
THEOREM NothingFollows == Spec => []TerminalIsLast
<1>1. LastInv => TerminalIsLast
  BY DEF LastInv, EndIsLast, TerminalIsLast
<1> QED BY InitLast, Invariance, LastStep, <1>1, PTL DEF Spec

=============================================================================
