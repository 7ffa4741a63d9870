--------------------------- MODULE GrpcFrameBuffer ---------------------------
(***************************************************************************)
(* The gRPC length-prefixed framing and its incremental deframer           *)
(* (qlib/GrpcUtil/GrpcFrameBuffer.qc, GrpcHelper.qc).                      *)
(*                                                                         *)
(* The bytes on the wire are known by their offset: a direction of a call  *)
(* is the sequence `msgs` of the offsets just behind each frame sent, and  *)
(* a buffer holds the bytes from offset `at` (the first not consumed) up   *)
(* to offset `to`.  A buffer that is out of step with the frames reads a   *)
(* length from bytes that are none, and finds a message nobody sent.       *)
(***************************************************************************)
EXTENDS Integers, Sequences

HeaderSize == 5

\* The offset just behind the first n frames, and behind all.
Offset(msgs, n) == IF n = 0 THEN 0 ELSE msgs[n]
AllOf(msgs) == Offset(msgs, Len(msgs))

\* The payload size of the i-th message
Length(msgs, i) == msgs[i] - Offset(msgs, i - 1) - HeaderSize

\* frameMessage(): a message of `len` bytes follows, behind its header.
Framed(msgs, len) == Append(msgs, AllOf(msgs) + HeaderSize + len)

NoBytes == [at |-> 0, to |-> 0]

Size(b) == b.to - b.at

\* The message whose frame begins where the buffer does, 0 when none does.
MessageAt(msgs, b) ==
    LET here == {i \in 1..Len(msgs) : Offset(msgs, i - 1) = b.at}
    IN  IF here = {} THEN 0 ELSE CHOOSE i \in here : TRUE

\* frameLength(): what the four length bytes say
FrameLength(msgs, b) == IF MessageAt(msgs, b) = 0 THEN 1 ELSE Length(msgs, MessageAt(msgs, b))

\* checkFrameLength(), as soon as the header is there; no limit when max is 0
TooLong(msgs, b, max) ==
    Size(b) >= HeaderSize /\ max > 0 /\ FrameLength(msgs, b) > max

\* Mutant of HasFrame: only the header is waited for.
HasFrameHeader(msgs, b, max) == Size(b) >= HeaderSize /\ ~TooLong(msgs, b, max)

\* hasFrame(), and whether takeFrame() and tryParseFrame() return a payload
HasFrame(msgs, b, max) ==
    /\ Size(b) >= HeaderSize /\ ~TooLong(msgs, b, max)
    /\ Size(b) >= HeaderSize + FrameLength(msgs, b)

\* Mutant of Add: what a partial frame left behind is dropped with the prefix.
AddFresh(b, to) == [at |-> b.to, to |-> to]

\* add(): the bytes up to offset `to` arrive
Add(b, to) == [b EXCEPT !.to = to]

\* Mutant of TakeFrame: the header is not consumed with the payload.
TakeFramePayload(msgs, b) == [b EXCEPT !.at = @ + FrameLength(msgs, b)]

\* takeFrame() of a complete frame
TakeFrame(msgs, b) == [b EXCEPT !.at = @ + HeaderSize + FrameLength(msgs, b)]

Clear(b) == [b EXCEPT !.at = b.to]

=============================================================================
