---------------------------- MODULE GrpcCallProofs ----------------------------
(***************************************************************************)
(* Theorems about GrpcCall, for any sizes, bounds, limits, faults and cuts *)
(* of the byte stream: the server's answer is one well-formed response,    *)
(* the messages of either direction arrive in order and whole, and a call  *)
(* keeps the contract of CallContract.                                     *)
(*                                                                         *)
(* A buffer that is still read begins where a frame does, behind as many   *)
(* messages as its reader was given, however far it reaches.  What waits   *)
(* between the I/O thread and the handler carries the request on from      *)
(* there, and END_STREAM's sentinel comes behind all of it.                *)
(***************************************************************************)
EXTENDS GrpcCall, SequenceTheorems, TLAPS

-----------------------------------------------------------------------------
\* The server's answer

Frames == {"headers", "data", "trailers"}

\* What the server submits no longer reaches the client.
Lost == peer = "reset" \/ upEnd = "reset"

\* The frames of an answer that goes on, and of any answer
Started(w) == \A i \in 1..Len(w) : (w[i] = "headers" <=> i = 1) /\ w[i] # "trailers"
WellFormed(w) ==
    \A i \in 1..Len(w) : /\ w[i] = "headers" <=> i = 1
                         /\ w[i] = "trailers" => i = Len(w)

WireInv ==
    /\ wire \in Seq(Frames)
    /\ spc # "gone" => Started(wire)
    /\ WellFormed(wire)

\* headersSent tells whether the wire is empty, unless what is sent is lost.
HeadersInv ==
    /\ headersSent \in BOOLEAN
    /\ ~headersSent /\ spc # "gone" => wire = <<>>
    /\ headersSent /\ wire = <<>> => Lost
    /\ spc \in {"arrive", "body", "refuse"} => ~headersSent
    /\ shape \in SingleResponse /\ spc \notin {"trailers", "gone"} => ~headersSent

\* A single response that is followed by OK has its message.
SingleInv ==
    /\ spc = "trailers" => shape \in SingleResponse /\ headersSent
    /\ spc = "trailers" => Lost \/ Len(resp) = 1
    /\ spc = "refuse" => status # "OK"
    /\ trailers # "none" => spc = "gone"
    /\ trailers = "OK" /\ shape \in SingleResponse => Len(resp) = 1

AnswerInv == WireInv /\ HeadersInv /\ SingleInv

LEMMA AnswerInit == Init => AnswerInv
<1> SUFFICES ASSUME Init PROVE AnswerInv
  OBVIOUS
<1>1. wire = <<>> /\ spc = "arrive" /\ headersSent = FALSE /\ trailers = "none"
  BY DEF Init
<1>2. <<>> \in Seq(Frames) /\ Len(<<>>) = 0
  OBVIOUS
<1>3. WireInv
  BY <1>1, <1>2 DEF WireInv, Started, WellFormed
<1> QED BY <1>1, <1>3 DEF AnswerInv, HeadersInv, SingleInv

\* An answer grows by frames in the right order.
LEMMA Grows ==
  ASSUME NEW w \in Seq(Frames), Started(w), w # <<>>
  PROVE  /\ w \o <<"data">> \in Seq(Frames) /\ w \o <<"trailers">> \in Seq(Frames)
         /\ Started(w \o <<"data">>)
         /\ WellFormed(w \o <<"trailers">>)
         /\ w \o <<"data">> # <<>> /\ w \o <<"trailers">> # w
<1>1. Len(w) \in Nat \ {0}
  OBVIOUS
<1>2. ASSUME NEW f \in Frames
      PROVE  /\ w \o <<f>> \in Seq(Frames) /\ Len(w \o <<f>>) = Len(w) + 1
             /\ (w \o <<f>>)[Len(w) + 1] = f
             /\ \A i \in 1..Len(w) : (w \o <<f>>)[i] = w[i]
  BY <1>1
<1>3. "data" \in Frames /\ "trailers" \in Frames
  BY DEF Frames
<1>4. Started(w \o <<"data">>)
  BY <1>1, <1>2, <1>3 DEF Started
<1>5. WellFormed(w \o <<"trailers">>)
  BY <1>1, <1>2, <1>3 DEF Started, WellFormed
<1> QED BY <1>1, <1>2, <1>3, <1>4, <1>5

LEMMA StartedWellFormed == ASSUME NEW w, Started(w) PROVE WellFormed(w)
  BY DEF Started, WellFormed

LEMMA Headed ==
  ASSUME NEW f \in Frames
  PROVE  <<>> \o (<<"headers">> \o <<f>>) = <<"headers", f>>
<1>1. <<"headers">> \in Seq(Frames) /\ <<f>> \in Seq(Frames) /\ <<"headers", f>> \in Seq(Frames)
  BY DEF Frames
<1>2. <<"headers">> \o <<f>> \in Seq(Frames)
  BY <1>1
<1>3. Len(<<"headers">> \o <<f>>) = 2 /\ Len(<<"headers", f>>) = 2
  BY <1>1
<1>4. (<<"headers">> \o <<f>>)[1] = "headers" /\ (<<"headers">> \o <<f>>)[2] = f
  BY <1>1
<1>5. <<"headers", f>>[1] = "headers" /\ <<"headers", f>>[2] = f
  OBVIOUS
<1>6. \A i \in 1..Len(<<"headers">> \o <<f>>) :
         (<<"headers">> \o <<f>>)[i] = <<"headers", f>>[i]
  <2> SUFFICES ASSUME NEW i \in 1..2 PROVE (<<"headers">> \o <<f>>)[i] = <<"headers", f>>[i]
    BY <1>3
  <2>1. i = 1 \/ i = 2
    OBVIOUS
  <2> QED BY <1>4, <1>5, <2>1
<1>7. <<"headers">> \o <<f>> = <<"headers", f>>
  <2>1. Len(<<"headers">> \o <<f>>) = Len(<<"headers", f>>)
    BY <1>3
  <2> QED BY <1>1, <1>2, <1>6, <2>1, SeqEqual
<1> QED BY <1>1, <1>7

\* ... and begins with headers.
LEMMA Begins ==
  /\ <<"headers">> \in Seq(Frames) /\ Started(<<"headers">>)
  /\ <<"headers", "data">> \in Seq(Frames) /\ Started(<<"headers", "data">>)
  /\ <<"headers", "trailers">> \in Seq(Frames) /\ WellFormed(<<"headers", "trailers">>)
  BY DEF Frames, Started, WellFormed

\* What leaves the handler and its answer alone
LEMMA AnswerQuiet ==
  ASSUME AnswerInv, UNCHANGED <<shape, response, spc, status>>, Lost => Lost'
  PROVE  AnswerInv'
  BY DEF AnswerInv, WireInv, HeadersInv, SingleInv, response, Started, WellFormed

\* What the handler's thread does before it answers
LEMMA AnswerAhead ==
  ASSUME AnswerInv, UNCHANGED <<shape, response, request, peer>>,
         spc \notin {"trailers", "gone"}, spc' \notin {"trailers", "gone"},
         spc' \in {"arrive", "body", "refuse"} => spc \in {"arrive", "body"},
         spc' = "refuse" => status' # "OK"
  PROVE  AnswerInv'
  BY DEF AnswerInv, WireInv, HeadersInv, SingleInv, response, request, Lost, Started, WellFormed

LEMMA AnswerElsewhere ==
  ASSUME AnswerInv, Application \/ ClientStep \/ IoData \/ IoEnd \/ IoTooLarge \/ Reset
  PROVE  AnswerInv'
<1>1. UNCHANGED <<shape, response, spc, status>>
  <2>1. CASE Application
    BY <2>1 DEF Application, Write, WritesDone, Read, Finish, Cancel, handler
  <2>2. CASE ClientStep
    BY <2>2 DEF ClientStep, ReadMessage, ReadTooLarge, ReadData, ReadEndStream, ReadTimeout,
                ReadError, FinishStatus, UnaryFails, UnaryResponse, UnaryReturns, handler
  <2>3. CASE IoData \/ IoEnd \/ IoTooLarge \/ Reset
    BY <2>3 DEF IoData, IoEnd, IoTooLarge, Reset, handler
  <2> QED BY <2>1, <2>2, <2>3
<1>2. Lost => Lost'
  <2>1. CASE Application
    BY <2>1 DEF Application, Write, WritesDone, Read, Finish, Cancel, HalfClose, request, Lost
  <2>2. CASE ClientStep
    BY <2>2 DEF ClientStep, ReadMessage, ReadTooLarge, ReadData, ReadEndStream, ReadTimeout,
                ReadError, FinishStatus, UnaryFails, UnaryResponse, UnaryReturns, request, Lost
  <2>3. CASE IoData \/ IoEnd \/ IoTooLarge \/ Reset
    BY <2>3 DEF IoData, IoEnd, IoTooLarge, Reset, request, Lost
  <2> QED BY <2>1, <2>2, <2>3
<1> QED BY <1>1, <1>2, AnswerQuiet

LEMMA AnswerDispatch ==
  ASSUME AnswerInv, Dispatch \/ BodyChunk \/ BodyTooLarge \/ BodyTimeout \/ BodyEnd
  PROVE  AnswerInv'
<1>1. CASE Dispatch
  BY <1>1, AnswerAhead DEF Dispatch
<1>2. CASE BodyChunk
  BY <1>2, AnswerAhead DEF BodyChunk, Refuse
<1>3. CASE BodyTooLarge \/ BodyTimeout
  BY <1>3, AnswerAhead DEF BodyTooLarge, BodyTimeout, Refuse
<1>4. CASE BodyEnd
  BY <1>4, AnswerAhead DEF BodyEnd
<1> QED BY <1>1, <1>2, <1>3, <1>4

LEMMA AnswerReads ==
  ASSUME AnswerInv,
         \/ HandlerReads \/ HandlerEnds
         \/ ServerReadMessage \/ ServerReadTooLarge \/ ServerReadNothing \/ ServerReadChunk
         \/ ServerReadEnd \/ ServerReadBodyError \/ ServerReadTimeout
  PROVE  AnswerInv'
<1>1. CASE HandlerReads \/ HandlerEnds
  BY <1>1, AnswerAhead DEF HandlerReads, HandlerEnds
<1>2. CASE ServerReadMessage
  BY <1>2, AnswerAhead DEF ServerReadMessage, ServerReading
<1>3. CASE ServerReadTooLarge
  BY <1>3, AnswerAhead DEF ServerReadTooLarge, ReadThrows
<1>4. CASE ServerReadNothing \/ ServerReadTimeout
  BY <1>4, AnswerAhead DEF ServerReadNothing, ServerReadTimeout, ServerNeedsData, ServerReading
<1>5. CASE ServerReadChunk
  BY <1>5, AnswerAhead DEF ServerReadChunk, ServerTakeItem, ServerNeedsData, ServerReading
<1>6. CASE ServerReadEnd
  BY <1>6, AnswerAhead DEF ServerReadEnd, ServerTakeItem, ServerNeedsData, ServerReading
<1>7. CASE ServerReadBodyError
  BY <1>7, AnswerAhead DEF ServerReadBodyError, ServerTakeItem, ServerNeedsData, ServerReading,
                           ReadThrows
<1> QED BY <1>1, <1>2, <1>3, <1>4, <1>5, <1>6, <1>7

\* A message of the handler's: behind the headers, which it sends if they are not.
LEMMA AnswerWrites ==
  ASSUME AnswerInv, NEW n \in Sizes, HandlerWrites(n)
  PROVE  AnswerInv'
<1>1. /\ spc = "handler" /\ UNCHANGED <<shape, spc, status, trailers>>
      /\ shape \notin SingleResponse /\ headersSent' = TRUE /\ Lost = Lost'
  BY DEF HandlerWrites, SingleResponse, Lost, request
<1>2. WireInv' /\ (wire' = <<>> => Lost')
  <2>1. CASE Lost
    BY <1>1, <2>1 DEF HandlerWrites, Submit, Lost, AnswerInv, WireInv, HeadersInv
  <2>2. CASE ~Lost /\ headersSent
    <3>1. wire' = wire \o (<<>> \o <<"data">>) /\ wire # <<>> /\ Started(wire) /\ wire \in Seq(Frames)
      BY <1>1, <2>2 DEF HandlerWrites, Submit, EnsureHeaders, Lost, AnswerInv, WireInv, HeadersInv
    <3>2. wire' = wire \o <<"data">>
      BY <3>1
    <3> QED BY <1>1, <3>1, <3>2, Grows, StartedWellFormed DEF WireInv
  <2>3. CASE ~Lost /\ ~headersSent
    <3>1. wire' = <<>> \o (<<"headers">> \o <<"data">>)
      BY <1>1, <2>3 DEF HandlerWrites, Submit, EnsureHeaders, Lost, AnswerInv, HeadersInv
    <3>2. wire' = <<"headers", "data">>
      BY <3>1, Headed DEF Frames
    <3> QED BY <1>1, <3>2, Begins, StartedWellFormed DEF WireInv
  <2> QED BY <2>1, <2>2, <2>3
<1> QED BY <1>1, <1>2 DEF AnswerInv, HeadersInv, SingleInv

\* Initial metadata, in a shape that does not send a single response
LEMMA AnswerMetadata ==
  ASSUME MetadataShapes \cap SingleResponse = {}, AnswerInv, HandlerSendsMetadata
  PROVE  AnswerInv'
<1>1. /\ spc = "handler" /\ UNCHANGED <<shape, spc, status, trailers, resp>>
      /\ shape \notin SingleResponse /\ headersSent' = TRUE /\ Lost = Lost' /\ wire = <<>>
  BY DEF HandlerSendsMetadata, SingleResponse, Lost, request, AnswerInv, HeadersInv
<1>2. WireInv' /\ (wire' = <<>> => Lost')
  <2>1. CASE Lost
    BY <1>1, <2>1 DEF HandlerSendsMetadata, Submit, Lost, AnswerInv, WireInv
  <2>2. CASE ~Lost
    <3>1. wire' = <<>> \o <<"headers">>
      BY <1>1, <2>2 DEF HandlerSendsMetadata, Submit, Lost
    <3>2. wire' = <<"headers">>
      BY <3>1
    <3> QED BY <1>1, <3>2, Begins, StartedWellFormed DEF WireInv
  <2> QED BY <2>1, <2>2
<1> QED BY <1>1, <1>2 DEF AnswerInv, HeadersInv, SingleInv

\* The single response is the first that is sent.
LEMMA AnswerSingle ==
  ASSUME AnswerInv, SendResponse, spc' = "trailers"
  PROVE  AnswerInv'
<1>1. /\ spc = "reply" /\ spc' = "trailers" /\ UNCHANGED <<shape, status, trailers>>
      /\ shape \in SingleResponse /\ headersSent' = TRUE /\ Lost = Lost'
      /\ wire = <<>> /\ trailers = "none"
  BY DEF SendResponse, Lost, request, AnswerInv, HeadersInv, SingleInv
<1>2. WireInv' /\ (Lost' \/ (wire' # <<>> /\ Len(resp') = 1))
  <2>1. CASE Lost
    BY <1>1, <2>1 DEF SendResponse, Submit, Lost, AnswerInv, WireInv
  <2>2. CASE ~Lost
    <3>1. wire' = <<>> \o <<"headers", "data">>
      BY <1>1, <2>2 DEF SendResponse, Submit, Lost
    <3>2. wire' = <<"headers", "data">> /\ wire' # wire
      BY <1>1, <3>1
    <3>3. PICK n \in Sizes : resp' = Append(<<>>, AllOf(<<>>) + HeaderSize + n)
      BY <3>2 DEF SendResponse, Framed
    <3>4. Len(resp') = 1
      BY <3>3
    <3> QED BY <1>1, <3>2, <3>4, Begins, StartedWellFormed DEF WireInv
  <2> QED BY <2>1, <2>2
<1> QED BY <1>1, <1>2 DEF AnswerInv, HeadersInv, SingleInv

\* Trailers follow what has been sent, or headers where nothing has.
LEMMA AnswerTrailers ==
  ASSUME AnswerInv, NEW before, SubmitTrailers(before), spc # "gone",
         \/ before = <<>> /\ headersSent
         \/ before = <<"headers">> /\ ~headersSent,
         status = "OK" /\ shape \in SingleResponse => spc = "trailers"
  PROVE  AnswerInv'
<1>1. /\ spc' = "gone" /\ UNCHANGED <<shape, status, headersSent, resp>> /\ Lost = Lost'
      /\ headersSent \in BOOLEAN
  BY DEF SubmitTrailers, Lost, request, AnswerInv, HeadersInv
<1>2. CASE Lost
  <2>1. wire' = wire /\ trailers' = "none"
    BY <1>2 DEF SubmitTrailers, Submit, Lost
  <2> QED BY <1>1, <1>2, <2>1 DEF AnswerInv, WireInv, HeadersInv, SingleInv
<1>3. CASE ~Lost
  <2>1. wire' \in Seq(Frames) /\ WellFormed(wire') /\ wire' # <<>>
    <3>1. CASE headersSent
      <4>1. wire' = wire \o (<<>> \o <<"trailers">>) /\ wire # <<>> /\ Started(wire) /\ wire \in Seq(Frames)
        BY <1>3, <3>1 DEF SubmitTrailers, Submit, Lost, AnswerInv, WireInv, HeadersInv
      <4>2. wire' = wire \o <<"trailers">>
        BY <4>1
      <4>3. wire' # <<>>
        BY <4>1, <4>2
      <4> QED BY <4>1, <4>2, <4>3, Grows
    <3>2. CASE ~headersSent
      <4>1. wire' = <<>> \o (<<"headers">> \o <<"trailers">>)
        BY <1>3, <3>2 DEF SubmitTrailers, Submit, Lost, AnswerInv, HeadersInv
      <4>2. wire' = <<"headers", "trailers">>
        BY <4>1, Headed DEF Frames
      <4> QED BY <4>2, Begins
    <3> QED BY <3>1, <3>2
  <2>2. trailers' \in {"none", status}
    BY DEF SubmitTrailers
  <2>3. status = "OK" /\ shape \in SingleResponse => Len(resp) = 1
    BY <1>3 DEF AnswerInv, SingleInv
  <2> QED BY <1>1, <2>1, <2>2, <2>3 DEF AnswerInv, WireInv, HeadersInv, SingleInv
<1> QED BY <1>2, <1>3

LEMMA AnswerEnds ==
  ASSUME AnswerInv, SendTrailers \/ SendGrpcError
  PROVE  AnswerInv'
<1>1. CASE spc = "trailers" /\ SubmitTrailers(<<>>)
  BY <1>1, AnswerTrailers DEF AnswerInv, SingleInv
<1>2. CASE spc = "reply" /\ shape \notin SingleResponse /\ SubmitTrailers(EnsureHeaders)
  BY <1>2, AnswerTrailers DEF EnsureHeaders, AnswerInv, HeadersInv
<1>3. CASE SendGrpcError
  <2>1. SubmitTrailers(<<"headers">>) /\ spc # "gone" /\ ~headersSent /\ status # "OK"
    BY <1>3 DEF SendGrpcError, AnswerInv, HeadersInv, SingleInv
  <2> QED BY <2>1, AnswerTrailers
<1> QED BY <1>1, <1>2, <1>3 DEF SendTrailers

\* Whatever handlers do and however calls fail, and as long as only handlers that
\* stream their responses send initial metadata, the server's answer is one HTTP/2
\* response with one status (ensureHeadersSent(), the four handle...() methods,
\* sendGrpcError()).
THEOREM OneResponse ==
  ASSUME MetadataShapes \cap SingleResponse = {}
  PROVE  Spec => []ResponseWellFormed
<1>1. AnswerInv /\ [Next]_vars => AnswerInv'
  <2> SUFFICES ASSUME AnswerInv, [Next]_vars PROVE AnswerInv'
    OBVIOUS
  <2>1. CASE Application \/ ClientStep \/ IoData \/ IoEnd \/ IoTooLarge \/ Reset
    BY <2>1, AnswerElsewhere
  <2>2. CASE ServerStep
    <3>1. CASE Dispatch \/ BodyChunk \/ BodyTooLarge \/ BodyTimeout \/ BodyEnd
      BY <3>1, AnswerDispatch
    <3>2. CASE \/ HandlerReads \/ HandlerEnds
               \/ ServerReadMessage \/ ServerReadTooLarge \/ ServerReadNothing
               \/ ServerReadChunk \/ ServerReadEnd \/ ServerReadBodyError \/ ServerReadTimeout
      BY <3>2, AnswerReads
    <3>3. CASE HandlerSendsMetadata
      BY <3>3, AnswerMetadata
    <3>4. CASE \E n \in Sizes : HandlerWrites(n)
      BY <3>4, AnswerWrites
    <3>5. CASE SendResponse
      <4>1. CASE spc' = "trailers"
        BY <3>5, <4>1, AnswerSingle
      <4>2. CASE spc' = "escaped"
        BY <3>5, <4>2, AnswerAhead DEF SendResponse, response
      <4> QED BY <3>5, <4>1, <4>2 DEF SendResponse
    <3>6. CASE SendTrailers \/ SendGrpcError
      BY <3>6, AnswerEnds
    <3> QED BY <2>2, <3>1, <3>2, <3>3, <3>4, <3>5, <3>6 DEF ServerStep, Handler
  <2>3. CASE UNCHANGED vars
    BY <2>3, AnswerQuiet DEF vars, handler, request, Lost
  <2> QED BY <2>1, <2>2, <2>3 DEF Next
<1>2. AnswerInv => ResponseWellFormed
  BY DEF AnswerInv, WireInv, SingleInv, WellFormed, ResponseWellFormed
<1> QED BY AnswerInit, <1>1, <1>2, PTL DEF Spec

-----------------------------------------------------------------------------
\* Delivery

\* An empty payload decodes to an empty hash, which read() does not tell from no
\* message (RequestsArrive fails where one is sent: run call_empty).
NoEmptyMessage == 0 \notin Sizes

-----------------------------------------------------------------------------
\* The frames of a direction

\* Messages of sizes sent, each behind those before it
Laid(msgs) ==
    /\ msgs \in Seq(Nat)
    /\ \A i \in 1..Len(msgs) : Length(msgs, i) \in Sizes
    /\ \A i \in 1..Len(msgs) : \A j \in 0..(i - 1) : Offset(msgs, j) + HeaderSize <= msgs[i]

Buffer == [at : Nat, to : Nat]

LEMMA LaidEmpty == Laid(<<>>) /\ AllOf(<<>>) = 0
  BY DEF Laid, AllOf, Offset

LEMMA LaidOffsets ==
  ASSUME NEW msgs, Laid(msgs)
  PROVE  /\ Len(msgs) \in Nat /\ AllOf(msgs) \in Nat
         /\ \A i \in 0..Len(msgs) : Offset(msgs, i) \in Nat /\ Offset(msgs, i) <= AllOf(msgs)
         /\ \A i \in 0..Len(msgs) : i # Len(msgs) => Offset(msgs, i) + HeaderSize <= AllOf(msgs)
         /\ Offset(msgs, 0) = 0
<1>1. Len(msgs) \in Nat /\ msgs \in Seq(Nat)
  BY DEF Laid
<1>2. \A i \in 0..Len(msgs) : Offset(msgs, i) \in Nat
  BY <1>1 DEF Offset
<1>3. ASSUME NEW i \in 0..Len(msgs), i # Len(msgs)
      PROVE  Offset(msgs, i) + HeaderSize <= AllOf(msgs)
  <2>1. Len(msgs) \in 1..Len(msgs) /\ i \in 0..(Len(msgs) - 1) /\ Len(msgs) # 0
    BY <1>1, <1>3
  <2> QED BY <2>1 DEF Laid, AllOf, Offset
<1>4. ASSUME NEW i \in 0..Len(msgs) PROVE Offset(msgs, i) <= AllOf(msgs)
  <2>1. CASE i = Len(msgs)
    BY <1>1, <1>2, <2>1 DEF AllOf
  <2>2. CASE i # Len(msgs)
    BY <1>1, <1>2, <1>3, <2>2 DEF AllOf, HeaderSize
  <2> QED BY <2>1, <2>2
<1> QED BY <1>1, <1>2, <1>3, <1>4 DEF AllOf, Offset

\* What is sent next comes behind all that was, and moves none of it.
LEMMA FramedLaid ==
  ASSUME NEW msgs, Laid(msgs), NEW n \in Sizes
  PROVE  /\ Laid(Framed(msgs, n)) /\ Len(Framed(msgs, n)) = Len(msgs) + 1
         /\ \A i \in 0..Len(msgs) : Offset(Framed(msgs, n), i) = Offset(msgs, i)
         /\ AllOf(msgs) <= AllOf(Framed(msgs, n))
<1> DEFINE all == AllOf(msgs)
           more == Framed(msgs, n)
<1>1. /\ Len(msgs) \in Nat /\ all \in Nat /\ n \in Nat /\ msgs \in Seq(Nat)
      /\ \A i \in 0..Len(msgs) : Offset(msgs, i) \in Nat /\ Offset(msgs, i) <= all
  BY LaidOffsets, BoundsAssumption DEF Laid
<1>2. all + HeaderSize + n \in Nat
  BY <1>1 DEF HeaderSize
<1>3. /\ more \in Seq(Nat) /\ Len(more) = Len(msgs) + 1
      /\ more[Len(msgs) + 1] = all + HeaderSize + n
      /\ \A i \in 1..Len(msgs) : more[i] = msgs[i]
  BY <1>1, <1>2, AppendProperties DEF Framed
<1> HIDE DEF all, more
<1>4. \A i \in 0..Len(msgs) : Offset(more, i) = Offset(msgs, i)
  BY <1>1, <1>3 DEF Offset
<1>5. Offset(more, Len(msgs)) = all
  BY <1>1, <1>4 DEF all, AllOf
<1>6. ASSUME NEW i \in 1..Len(more)
      PROVE  /\ Length(more, i) \in Sizes
             /\ \A j \in 0..(i - 1) : Offset(more, j) + HeaderSize <= more[i]
  <2>1. CASE i = Len(msgs) + 1
    <3>1. Length(more, i) = n
      BY <1>1, <1>3, <1>5, <2>1 DEF Length, HeaderSize
    <3>2. ASSUME NEW j \in 0..(i - 1) PROVE Offset(more, j) + HeaderSize <= more[i]
      <4>1. j \in 0..Len(msgs)
        BY <1>1, <2>1
      <4> QED BY <1>1, <1>3, <1>4, <2>1, <4>1 DEF HeaderSize
    <3> QED BY <3>1, <3>2
  <2>2. CASE i # Len(msgs) + 1
    <3>1. i \in 1..Len(msgs) /\ i - 1 \in 0..Len(msgs) /\ more[i] = msgs[i]
      BY <1>1, <1>3, <2>2
    <3>2. Length(more, i) = Length(msgs, i)
      BY <1>4, <3>1 DEF Length
    <3>3. ASSUME NEW j \in 0..(i - 1) PROVE Offset(more, j) + HeaderSize <= more[i]
      <4>1. j \in 0..Len(msgs)
        BY <1>1, <3>1
      <4> QED BY <1>4, <3>1, <4>1 DEF Laid
    <3> QED BY <3>1, <3>2, <3>3 DEF Laid
  <2> QED BY <2>1, <2>2
<1>7. Laid(more)
  BY <1>3, <1>6 DEF Laid
<1>8. AllOf(more) = all + HeaderSize + n
  BY <1>1, <1>3 DEF AllOf, Offset
<1> QED BY <1>1, <1>3, <1>4, <1>7, <1>8 DEF all, more, HeaderSize

\* At the boundary behind the first k frames begins the next message, if there is one.
LEMMA BoundaryMessage ==
  ASSUME NEW msgs, Laid(msgs), NEW k \in 0..Len(msgs), NEW b, b.at = Offset(msgs, k)
  PROVE  MessageAt(msgs, b) = IF k = Len(msgs) THEN 0 ELSE k + 1
<1> DEFINE here == {i \in 1..Len(msgs) : Offset(msgs, i - 1) = b.at}
<1>1. Len(msgs) \in Nat /\ msgs \in Seq(Nat)
  BY DEF Laid
<1>2. ASSUME NEW i \in 0..Len(msgs), NEW j \in 0..Len(msgs), i < j
      PROVE  Offset(msgs, i) # Offset(msgs, j)
  <2>1. j \in 1..Len(msgs) /\ i \in 0..(j - 1) /\ j # 0
    BY <1>1, <1>2
  <2>2. Offset(msgs, i) + HeaderSize <= Offset(msgs, j)
    BY <2>1 DEF Laid, Offset
  <2>3. Offset(msgs, i) \in Nat /\ Offset(msgs, j) \in Nat
    BY LaidOffsets
  <2> QED BY <2>2, <2>3 DEF HeaderSize
<1>3. ASSUME NEW i \in 1..Len(msgs), Offset(msgs, i - 1) = b.at PROVE i = k + 1
  <2>1. i - 1 \in 0..Len(msgs) /\ ~(i - 1 < k) /\ ~(k < i - 1)
    BY <1>1, <1>2, <1>3
  <2> QED BY <1>1, <2>1
<1>4. CASE k = Len(msgs)
  <2>1. here = {}
    BY <1>1, <1>3, <1>4
  <2> QED BY <1>4, <2>1 DEF MessageAt
<1>5. CASE k # Len(msgs)
  <2>1. k + 1 \in 1..Len(msgs) /\ Offset(msgs, (k + 1) - 1) = b.at
    BY <1>1, <1>5
  <2>2. here = {k + 1}
    BY <1>3, <2>1
  <2> QED BY <1>5, <2>2 DEF MessageAt
<1> QED BY <1>4, <1>5

\* A frame that is complete is that of the next message, and is taken whole.
LEMMA FrameTaken ==
  ASSUME NEW msgs, Laid(msgs), NEW k \in 0..Len(msgs), NEW max \in Nat,
         NEW b \in Buffer, b.at = Offset(msgs, k), b.to <= AllOf(msgs),
         HasFrame(msgs, b, max)
  PROVE  /\ k < Len(msgs) /\ MessageAt(msgs, b) = k + 1
         /\ FrameLength(msgs, b) \in Sizes
         /\ TakeFrame(msgs, b).at = Offset(msgs, k + 1)
<1>1. Len(msgs) \in Nat /\ msgs \in Seq(Nat)
  BY DEF Laid
<1>2. k # Len(msgs)
  BY <1>1 DEF HasFrame, Size, HeaderSize, AllOf, Buffer
<1>3. MessageAt(msgs, b) = k + 1
  BY <1>2, BoundaryMessage
<1>4. k + 1 \in 1..Len(msgs)
  BY <1>1, <1>2
<1>5. FrameLength(msgs, b) = Length(msgs, k + 1)
  BY <1>3, <1>4 DEF FrameLength
<1>6. Length(msgs, k + 1) = msgs[k + 1] - Offset(msgs, k) - HeaderSize
  BY <1>1, <1>4 DEF Length
<1>7. TakeFrame(msgs, b).at = b.at + HeaderSize + FrameLength(msgs, b)
  BY DEF TakeFrame, Buffer
<1>8. msgs[k + 1] \in Nat /\ Offset(msgs, k) \in Nat
  BY <1>1, <1>4, LaidOffsets
<1>9. TakeFrame(msgs, b).at = msgs[k + 1]
  BY <1>5, <1>6, <1>7, <1>8 DEF HeaderSize
<1> QED BY <1>1, <1>2, <1>3, <1>4, <1>5, <1>9 DEF Laid, Offset

\* Where everything has arrived and no frame is complete, every message was taken.
LEMMA AllTaken ==
  ASSUME NEW msgs, Laid(msgs), NEW k \in 0..Len(msgs), NEW max \in Nat,
         NEW b \in Buffer, b.at = Offset(msgs, k), b.to = AllOf(msgs),
         ~HasFrame(msgs, b, max), ~TooLong(msgs, b, max)
  PROVE  k = Len(msgs)
<1> SUFFICES ASSUME k # Len(msgs) PROVE FALSE
  OBVIOUS
<1>1. Len(msgs) \in Nat /\ msgs \in Seq(Nat) /\ k + 1 \in 1..Len(msgs)
  BY DEF Laid
<1>2. MessageAt(msgs, b) = k + 1
  BY BoundaryMessage
<1>3. FrameLength(msgs, b) = msgs[k + 1] - Offset(msgs, k) - HeaderSize
  BY <1>1, <1>2 DEF FrameLength, Length
<1>4. msgs[k + 1] = Offset(msgs, k + 1) /\ Offset(msgs, k + 1) <= AllOf(msgs)
  BY <1>1, LaidOffsets DEF Offset
<1>5. Offset(msgs, k) + HeaderSize <= AllOf(msgs)
  BY LaidOffsets
<1>6. Offset(msgs, k) \in Nat /\ Offset(msgs, k + 1) \in Nat /\ AllOf(msgs) \in Nat
  BY <1>1, LaidOffsets
<1>7. Size(b) >= HeaderSize /\ Size(b) >= HeaderSize + FrameLength(msgs, b)
  BY <1>3, <1>4, <1>5, <1>6 DEF Size, HeaderSize, Buffer
<1> QED BY <1>7 DEF HasFrame

-----------------------------------------------------------------------------
\* The body queue

Items == [is : {"data", "end", "too_large"}, to : Nat]

\* The offset reached with the first j items of q, from offset p, and with all.
After(q, p, j) == IF j = 0 THEN p ELSE q[j].to
Reached(q, p) == After(q, p, Len(q))

\* The items lead on from p, and what is no data comes last and at once.
Onward(q, p) ==
    \A i \in 1..Len(q) :
        /\ \A j \in 0..(i - 1) : After(q, p, j) <= q[i].to
        /\ q[i].is # "data" => i = Len(q) /\ q[i].to = After(q, p, i - 1)

LEMMA OnwardEmpty == \A p : Onward(<<>>, p) /\ Reached(<<>>, p) = p
  BY DEF Onward, Reached, After

LEMMA OnwardBounds ==
  ASSUME NEW q \in Seq(Items), NEW p \in Nat, Onward(q, p)
  PROVE  /\ Reached(q, p) \in Nat /\ p <= Reached(q, p)
         /\ \A i \in 1..Len(q) : q[i].to \in Nat /\ q[i].to <= Reached(q, p)
<1>1. Len(q) \in Nat /\ \A i \in 1..Len(q) : q[i].to \in Nat
  <2>1. Len(q) \in Nat /\ \A i \in 1..Len(q) : q[i] \in Items
    OBVIOUS
  <2> QED BY <2>1 DEF Items
<1>2. Reached(q, p) = IF Len(q) = 0 THEN p ELSE q[Len(q)].to
  BY DEF Reached, After
<1>3. p <= Reached(q, p)
  <2>1. CASE Len(q) = 0
    BY <1>2, <2>1
  <2>2. CASE Len(q) # 0
    <3>1. Len(q) \in 1..Len(q) /\ 0 \in 0..(Len(q) - 1)
      BY <1>1, <2>2
    <3>2. After(q, p, 0) <= q[Len(q)].to /\ After(q, p, 0) = p
      BY <3>1 DEF Onward, After
    <3> QED BY <1>2, <2>2, <3>2
  <2> QED BY <2>1, <2>2
<1>4. ASSUME NEW i \in 1..Len(q) PROVE q[i].to <= Reached(q, p)
  <2>1. CASE i = Len(q)
    BY <1>1, <1>2, <2>1
  <2>2. CASE i # Len(q)
    <3>1. Len(q) \in 1..Len(q) /\ i \in 0..(Len(q) - 1) /\ i # 0
      BY <1>1, <2>2
    <3>2. After(q, p, i) <= q[Len(q)].to /\ After(q, p, i) = q[i].to
      BY <3>1 DEF Onward, After
    <3> QED BY <1>1, <1>2, <3>2
  <2> QED BY <2>1, <2>2
<1> QED BY <1>1, <1>2, <1>3, <1>4

\* What arrives comes at the end of what waits, none of which is the last.
LEMMA OnwardAppend ==
  ASSUME NEW q \in Seq(Items), NEW p \in Nat, Onward(q, p),
         \A i \in 1..Len(q) : q[i].is = "data",
         NEW item \in Items, Reached(q, p) <= item.to,
         item.is # "data" => item.to = Reached(q, p)
  PROVE  /\ Append(q, item) \in Seq(Items)
         /\ Onward(Append(q, item), p) /\ Reached(Append(q, item), p) = item.to
<1> DEFINE more == Append(q, item)
<1>1. /\ Len(q) \in Nat /\ more \in Seq(Items) /\ Len(more) = Len(q) + 1
      /\ more[Len(q) + 1] = item /\ \A i \in 1..Len(q) : more[i] = q[i]
  BY AppendProperties
<1>2. /\ Reached(q, p) \in Nat /\ p <= Reached(q, p) /\ item.to \in Nat
      /\ \A i \in 1..Len(q) : q[i].to \in Nat /\ q[i].to <= Reached(q, p)
  BY OnwardBounds DEF Items
<1> HIDE DEF more
<1>3. \A j \in 0..Len(q) : After(more, p, j) = After(q, p, j)
  BY <1>1 DEF After
<1>4. ASSUME NEW i \in 1..Len(more)
      PROVE  /\ \A j \in 0..(i - 1) : After(more, p, j) <= more[i].to
             /\ more[i].is # "data" => i = Len(more) /\ more[i].to = After(more, p, i - 1)
  <2>1. CASE i = Len(q) + 1
    <3>1. more[i] = item /\ i = Len(more) /\ After(more, p, i - 1) = Reached(q, p)
      BY <1>1, <1>3, <2>1 DEF Reached
    <3>2. ASSUME NEW j \in 0..(i - 1) PROVE After(more, p, j) <= more[i].to
      <4>1. j \in 0..Len(q)
        BY <1>1, <2>1
      <4>2. After(q, p, j) \in Nat /\ After(q, p, j) <= Reached(q, p)
        BY <1>1, <1>2, <4>1 DEF After
      <4> QED BY <1>2, <1>3, <3>1, <4>1, <4>2
    <3> QED BY <3>1, <3>2
  <2>2. CASE i # Len(q) + 1
    <3>1. i \in 1..Len(q) /\ more[i] = q[i] /\ \A j \in 0..(i - 1) : j \in 0..Len(q)
      BY <1>1, <2>2
    <3> QED BY <1>3, <3>1 DEF Onward
  <2> QED BY <2>1, <2>2
<1>5. Reached(more, p) = item.to
  BY <1>1 DEF Reached, After
<1> QED BY <1>1, <1>4, <1>5 DEF Onward, more

\* What is taken from the front leads on to the rest.
LEMMA OnwardTake ==
  ASSUME NEW q \in Seq(Items), NEW p \in Nat, Onward(q, p), q # <<>>
  PROVE  /\ Tail(q) \in Seq(Items) /\ Head(q) \in Items
         /\ p <= Head(q).to /\ Onward(Tail(q), Head(q).to)
         /\ Reached(Tail(q), Head(q).to) = Reached(q, p)
         /\ Head(q).is # "data" => Head(q).to = p /\ Tail(q) = <<>>
         /\ Head(q) = q[1] /\ 1 \in 1..Len(q)
         /\ \A i \in 1..Len(Tail(q)) : i + 1 \in 1..Len(q) /\ Tail(q)[i] = q[i + 1]
<1> DEFINE r == Tail(q)
           h == Head(q)
<1>1. /\ Len(q) \in Nat /\ Len(q) > 0 /\ h = q[1] /\ h \in Items
      /\ r \in Seq(Items) /\ Len(r) = Len(q) - 1
      /\ \A i \in 1..Len(r) : r[i] = q[i + 1]
  BY HeadTailProperties, EmptySeq
<1> HIDE DEF r, h
<1>2. 1 \in 1..Len(q) /\ 0 \in 0..(1 - 1) /\ 1 - 1 = 0
  BY <1>1
<1>3. p <= h.to
  <2>1. After(q, p, 0) <= q[1].to
    BY <1>2 DEF Onward
  <2> QED BY <1>1, <2>1 DEF After
<1>4. h.is # "data" => h.to = p /\ Len(r) = 0
  BY <1>1, <1>2 DEF Onward, After
<1>5. \A j \in 0..Len(r) : After(r, h.to, j) = After(q, p, j + 1)
  BY <1>1 DEF After
<1>6. ASSUME NEW i \in 1..Len(r)
      PROVE  /\ \A j \in 0..(i - 1) : After(r, h.to, j) <= r[i].to
             /\ r[i].is # "data" => i = Len(r) /\ r[i].to = After(r, h.to, i - 1)
  <2>1. i + 1 \in 1..Len(q) /\ r[i] = q[i + 1] /\ i - 1 \in 0..Len(r) /\ (i - 1) + 1 = (i + 1) - 1
    BY <1>1
  <2>2. ASSUME NEW j \in 0..(i - 1) PROVE After(r, h.to, j) <= r[i].to
    <3>1. j \in 0..Len(r) /\ j + 1 \in 0..((i + 1) - 1)
      BY <1>1
    <3> QED BY <1>5, <2>1, <3>1 DEF Onward
  <2>3. r[i].is # "data" => i + 1 = Len(q) /\ r[i].to = After(q, p, (i + 1) - 1)
    BY <2>1 DEF Onward
  <2> QED BY <1>1, <1>5, <2>1, <2>2, <2>3
<1>7. Reached(r, h.to) = Reached(q, p)
  <2>1. Len(r) \in 0..Len(r) /\ Len(r) + 1 = Len(q)
    BY <1>1
  <2> QED BY <1>5, <2>1 DEF Reached
<1>8. Len(r) = 0 => r = <<>>
  BY <1>1, EmptySeq
<1>9. \A i \in 1..Len(r) : i + 1 \in 1..Len(q) /\ r[i] = q[i + 1]
  BY <1>1
<1> QED BY <1>1, <1>2, <1>3, <1>4, <1>6, <1>7, <1>8, <1>9 DEF Onward, r, h

-----------------------------------------------------------------------------
\* The invariant

ClientRange ==
    /\ shape \in Shapes
    /\ cWritesDone \in BOOLEAN /\ cReadsDone \in BOOLEAN /\ gaveUp \in BOOLEAN /\ ended \in BOOLEAN
    /\ upEnd \in {"open", "closed", "reset"}
    /\ cpc \in {"idle", "read", "drain", "unary", "decoded", "over"}
    /\ cErrors \subseteq {"limit", "read", "close"}
    /\ result \in Statuses \cup {"none", "GRPC-ERROR"} /\ seen \in Statuses \cup {"none"}
    /\ got \in Seq(Nat)

ServerRange ==
    /\ queueOpen \in BOOLEAN /\ sReadsDone \in BOOLEAN /\ headersSent \in BOOLEAN /\ sEnded \in BOOLEAN
    /\ peer \in {"open", "reset"}
    /\ status \in Statuses /\ trailers \in Statuses \cup {"none"}
    /\ spc \in {"arrive", "body", "handler", "read", "reply", "trailers", "refuse", "gone", "escaped"}
    /\ handled \in Seq(Nat) /\ wire \in Seq(Frames)

\* A single response is the first that is sent, and is there once trailers say OK.
ReplyInv ==
    /\ spc = "trailers" => shape \in SingleResponse /\ (Lost \/ Len(resp) = 1)
    /\ spc = "refuse" => status # "OK"
    /\ trailers # "none" => spc = "gone"
    /\ shape \in SingleResponse /\ spc \notin {"trailers", "gone"} => resp = <<>>
    /\ trailers = "OK" /\ shape \in SingleResponse => Len(resp) = 1

BufferInv ==
    /\ Laid(written) /\ Laid(resp)
    /\ cbuf \in Buffer /\ cbuf.at <= cbuf.to /\ cbuf.to <= AllOf(resp)
    /\ sbuf \in Buffer /\ sbuf.at <= sbuf.to

\* What waits leads on from what the handler's buffer reached to what the I/O thread
\* took, as long as that queues, and then has not ended.
FeedInv ==
    /\ fed \in Nat /\ fed <= AllOf(written)
    /\ inq \in Seq(Items) /\ Onward(inq, sbuf.to) /\ Reached(inq, sbuf.to) <= fed
    /\ queueOpen => Reached(inq, sbuf.to) = fed /\ \A i \in 1..Len(inq) : inq[i].is = "data"

TypeInv == ClientRange /\ ServerRange /\ ReplyInv /\ BufferInv /\ FeedInv

\* The handler's buffer begins behind the messages that the handler was given.
ServedInv ==
    /\ handled = FirstOf(Len(handled)) /\ Len(handled) <= Len(written)
    /\ IF sReadsDone THEN Size(sbuf) = 0 ELSE sbuf.at = Offset(written, Len(handled))
    /\ spc \in {"arrive", "body"} => handled = <<>> /\ ~sEnded
    /\ spc = "body" => shape \notin Streams
    /\ spc = "read" => shape \in Streams
    /\ sReadsDone => shape \in Streams
    /\ sEnded /\ shape \in Streams => sReadsDone

\* The sentinel tells of an end, and of a half-close behind everything sent.
EndInv ==
    /\ shape \notin Streams => cWritesDone /\ Len(written) = 1
    /\ upEnd = "closed" => cWritesDone
    /\ sEnded => upEnd # "open" /\ (upEnd = "closed" => Len(handled) = Len(written))
    /\ \A i \in 1..Len(inq) : inq[i].is = "end" =>
          upEnd # "open" /\ (upEnd = "closed" => inq[i].to = AllOf(written))

\* The application's buffer begins behind the messages that read() returned.
ReadInv ==
    /\ got = FirstOf(Len(got)) /\ Len(got) <= Len(resp)
    /\ cpc \in {"idle", "read", "drain"} /\ ~cReadsDone => cbuf.at = Offset(resp, Len(got))
    /\ ended => /\ cReadsDone /\ cpc \notin {"unary", "decoded"}
                /\ trailers # "none" /\ Len(got) = Len(resp)
    /\ cpc \in {"unary", "decoded"} => shape = "unary"
    /\ cpc = "unary" => got = <<>> /\ cbuf.at = 0

\* A stream is read no more only for a reason, and a call that is over has a result.
OutcomeInv ==
    /\ cpc # "over" => result = "none"
    /\ cpc \in {"idle", "read", "drain"} /\ cReadsDone => gaveUp \/ ended \/ cErrors # {}
    /\ cpc = "decoded" => trailers = "OK" /\ seen = "OK" /\ Len(got) = 1

-----------------------------------------------------------------------------
\* Who moves what

LEMMA ApplicationMoves ==
  ASSUME Application \/ ClientStep
  PROVE  UNCHANGED <<shape, feed, handler, response, peer>>
<1>1. CASE Application
  BY <1>1 DEF Application, Write, WritesDone, Read, Finish, Cancel
<1>2. CASE ClientStep
  BY <1>2 DEF ClientStep, ReadMessage, ReadTooLarge, ReadData, ReadEndStream, ReadTimeout,
              ReadError, FinishStatus, UnaryFails, UnaryResponse, UnaryReturns
<1> QED BY <1>1, <1>2

LEMMA WireMoves ==
  ASSUME IoData \/ IoEnd \/ IoTooLarge \/ Reset
  PROVE  UNCHANGED <<shape, request, client, handler, response>>
  BY DEF IoData, IoEnd, IoTooLarge, Reset

LEMMA ServerMoves ==
  ASSUME ServerStep
  PROVE  UNCHANGED <<shape, request, client, peer, fed>>
<1>1. CASE Dispatch \/ BodyChunk \/ BodyTooLarge \/ BodyTimeout \/ BodyEnd
  BY <1>1 DEF Dispatch, BodyChunk, BodyTooLarge, BodyTimeout, BodyEnd, feed
<1>2. CASE Handler
  BY <1>2 DEF Handler, HandlerReads, HandlerWrites, HandlerSendsMetadata, HandlerEnds, feed
<1>3. CASE ServerReadMessage \/ ServerReadTooLarge \/ ServerReadNothing \/ ServerReadChunk
           \/ ServerReadEnd \/ ServerReadBodyError \/ ServerReadTimeout
  BY <1>3 DEF ServerReadMessage, ServerReadTooLarge, ServerReadNothing, ServerReadChunk,
              ServerReadEnd, ServerReadBodyError, ServerReadTimeout, feed
<1>4. CASE SendResponse \/ SendTrailers \/ SendGrpcError
  BY <1>4 DEF SendResponse, SendTrailers, SendGrpcError, SubmitTrailers, feed
<1> QED BY <1>1, <1>2, <1>3, <1>4 DEF ServerStep

\* Frames that are not lost make the response longer.
LEMMA SubmitGrows ==
  ASSUME wire \in Seq(Frames), NEW frames \in Seq(Frames), frames # <<>>, Submit(frames)
  PROVE  wire' \in Seq(Frames) /\ (wire' = wire <=> Lost)
<1>1. CASE Lost
  BY <1>1 DEF Submit, Lost
<1>2. CASE ~Lost
  <2>1. wire' = wire \o frames /\ Len(frames) # 0 /\ Len(frames) \in Nat /\ Len(wire) \in Nat
    BY <1>2, EmptySeq DEF Submit, Lost
  <2>2. wire' \in Seq(Frames) /\ Len(wire') = Len(wire) + Len(frames)
    BY <2>1
  <2> QED BY <1>2, <2>1, <2>2
<1> QED BY <1>1, <1>2

LEMMA Submitted ==
  /\ <<"headers", "data">> \in Seq(Frames) /\ <<"headers", "data">> # <<>>
  /\ <<"headers">> \in Seq(Frames) /\ <<"headers">> # <<>>
  /\ EnsureHeaders \o <<"data">> \in Seq(Frames) /\ EnsureHeaders \o <<"data">> # <<>>
  /\ <<>> \o <<"trailers">> \in Seq(Frames) /\ <<>> \o <<"trailers">> # <<>>
  /\ <<"headers">> \o <<"trailers">> \in Seq(Frames) /\ <<"headers">> \o <<"trailers">> # <<>>
  /\ EnsureHeaders \o <<"trailers">> \in Seq(Frames) /\ EnsureHeaders \o <<"trailers">> # <<>>
<1>1. ASSUME NEW w \in {<<>>, <<"headers">>} PROVE w \in Seq(Frames) /\ Len(w) \in Nat
  <2>1. "headers" \in Frames
    BY DEF Frames
  <2>2. <<>> \in Seq(Frames) /\ <<"headers">> \in Seq(Frames)
    BY <2>1
  <2> QED BY <2>2
<1>2. ASSUME NEW w \in {<<>>, <<"headers">>}, NEW f \in Frames
      PROVE  w \o <<f>> \in Seq(Frames) /\ w \o <<f>> # <<>>
  <2>1. w \in Seq(Frames) /\ Len(w) \in Nat
    BY <1>1
  <2>2. w \o <<f>> \in Seq(Frames) /\ Len(w \o <<f>>) = Len(w) + 1
    BY <2>1, Z3
  <2>3. Len(w \o <<f>>) # 0
    BY <2>1, <2>2
  <2>4. w \o <<f>> # <<>>
    BY <2>2, <2>3, EmptySeq
  <2> QED BY <2>2, <2>4
<1>3. EnsureHeaders \in {<<>>, <<"headers">>} /\ "data" \in Frames /\ "trailers" \in Frames
  BY DEF EnsureHeaders, Frames
<1>4. <<"headers", "data">> \in Seq(Frames) /\ <<"headers">> \in Seq(Frames)
  BY DEF Frames
<1>5. Len(<<"headers", "data">>) = 2 /\ Len(<<"headers">>) = 1 /\ Len(<<>>) = 0
  OBVIOUS
<1> QED BY <1>2, <1>3, <1>4, <1>5

\* The number of the message that begins where a buffer does
LEMMA MessageNumber ==
  ASSUME NEW msgs \in Seq(Nat), NEW b
  PROVE  MessageAt(msgs, b) \in 0..Len(msgs)
<1> DEFINE here == {i \in 1..Len(msgs) : Offset(msgs, i - 1) = b.at}
<1>1. MessageAt(msgs, b) = IF here = {} THEN 0 ELSE CHOOSE i \in here : TRUE
  BY DEF MessageAt
<1>2. here # {} => (CHOOSE i \in here : TRUE) \in here
  OBVIOUS
<1>3. here \subseteq 1..Len(msgs) /\ Len(msgs) \in Nat
  OBVIOUS
<1> QED BY <1>1, <1>2, <1>3

\* A DATA frame ends within what was sent.
LEMMA CutsWithin ==
  ASSUME NEW msgs, Laid(msgs), NEW to \in Cuts(msgs)
  PROVE  to \in Nat /\ to <= AllOf(msgs)
<1>1. Len(msgs) \in Nat /\ msgs \in Seq(Nat) /\ AllOf(msgs) \in Nat
  BY LaidOffsets DEF Laid
<1>2. CASE to \in {Offset(msgs, n) : n \in 0..Len(msgs)}
  BY <1>2, LaidOffsets
<1>3. CASE to \in {Offset(msgs, n - 1) + Inside(n) : n \in {m \in 1..Len(msgs) : Length(msgs, m) > 1}}
  <2>1. PICK n \in 1..Len(msgs) : Length(msgs, n) > 1 /\ to = Offset(msgs, n - 1) + Inside(n)
    BY <1>3
  <2>2. n - 1 \in 0..Len(msgs) /\ n \in 0..Len(msgs) /\ n # 0
    BY <1>1
  <2>3. Offset(msgs, n - 1) \in Nat /\ Offset(msgs, n) \in Nat /\ Offset(msgs, n) <= AllOf(msgs)
    BY <2>2, LaidOffsets
  <2>4. Offset(msgs, n) = msgs[n]
    BY <2>2 DEF Offset
  <2>5. Inside(n) \in {4, 6}
    BY DEF Inside, HeaderSize
  <2>6. Offset(msgs, n) - Offset(msgs, n - 1) - 5 > 1
    BY <2>1, <2>4 DEF Length, HeaderSize
  <2>7. to = Offset(msgs, n - 1) + 4 \/ to = Offset(msgs, n - 1) + 6
    BY <2>1, <2>5
  <2>8. to \in Nat /\ to <= Offset(msgs, n)
    BY <2>3, <2>6, <2>7
  <2> QED BY <1>1, <2>3, <2>8
<1> QED BY <1>2, <1>3 DEF Cuts

\* Wherever a buffer begins, a frame is taken from what it holds.
LEMMA FrameHeld ==
  ASSUME NEW msgs, Laid(msgs), NEW b \in Buffer, NEW max, HasFrame(msgs, b, max)
  PROVE  /\ TakeFrame(msgs, b) \in Buffer
         /\ TakeFrame(msgs, b).at <= TakeFrame(msgs, b).to /\ TakeFrame(msgs, b).to = b.to
<1>1. FrameLength(msgs, b) \in Nat
  <2>1. MessageAt(msgs, b) \in 0..Len(msgs) /\ Len(msgs) \in Nat
    BY MessageNumber DEF Laid
  <2>2. ASSUME MessageAt(msgs, b) # 0 PROVE Length(msgs, MessageAt(msgs, b)) \in Nat
    <3>1. MessageAt(msgs, b) \in 1..Len(msgs)
      BY <2>1, <2>2
    <3> QED BY <3>1, BoundsAssumption DEF Laid
  <2> QED BY <2>2 DEF FrameLength
<1> QED BY <1>1 DEF TakeFrame, HasFrame, Size, HeaderSize, Buffer

LEMMA InitInv == Init => TypeInv
<1> SUFFICES ASSUME Init PROVE TypeInv
  OBVIOUS
<1>1. resp = <<>> /\ cbuf = NoBytes /\ sbuf = NoBytes /\ inq = <<>> /\ fed = 0 /\ spc = "arrive"
  BY DEF Init
<1>2. Laid(written) /\ AllOf(written) \in Nat
  <2>1. written = <<>> \/ \E n \in Sizes : written = Framed(<<>>, n)
    BY DEF Init
  <2> QED BY <2>1, LaidEmpty, FramedLaid, LaidOffsets
<1>3. BufferInv
  BY <1>1, <1>2, LaidEmpty DEF BufferInv, NoBytes, Buffer
<1>4. FeedInv
  BY <1>1, <1>2, OnwardEmpty DEF FeedInv, NoBytes
<1>5. ClientRange
  <2>1. /\ shape \in Shapes /\ cWritesDone \in BOOLEAN /\ upEnd \in {"open", "closed"}
        /\ cpc \in {"unary", "idle"}
    BY DEF Init
  <2>2. /\ cReadsDone = FALSE /\ gaveUp = FALSE /\ ended = FALSE /\ cErrors = {}
        /\ result = "none" /\ seen = "none" /\ got = <<>>
    BY DEF Init
  <2>3. got \in Seq(Nat)
    BY <2>2
  <2>4. cErrors \subseteq {"limit", "read", "close"}
    BY <2>2
  <2>5. cReadsDone \in BOOLEAN /\ gaveUp \in BOOLEAN /\ ended \in BOOLEAN
    BY <2>2
  <2>6. result \in Statuses \cup {"none", "GRPC-ERROR"} /\ seen \in Statuses \cup {"none"}
    BY <2>2
  <2> QED BY <2>1, <2>3, <2>4, <2>5, <2>6 DEF ClientRange
<1>6. ServerRange
  <2>1. /\ queueOpen = TRUE /\ sReadsDone = FALSE /\ headersSent = FALSE /\ sEnded = FALSE
        /\ peer = "open" /\ status = "OK" /\ trailers = "none"
        /\ handled = <<>> /\ wire = <<>>
    BY DEF Init
  <2>2. handled \in Seq(Nat) /\ wire \in Seq(Frames)
    BY <2>1
  <2>3. queueOpen \in BOOLEAN /\ sReadsDone \in BOOLEAN /\ headersSent \in BOOLEAN /\ sEnded \in BOOLEAN
    BY <2>1
  <2>4. /\ peer \in {"open", "reset"} /\ status \in Statuses /\ trailers \in Statuses \cup {"none"}
        /\ spc \in {"arrive", "body", "handler", "read", "reply", "trailers", "refuse", "gone", "escaped"}
    BY <1>1, <2>1 DEF Statuses
  <2> QED BY <2>2, <2>3, <2>4 DEF ServerRange
<1> QED BY <1>1, <1>3, <1>4, <1>5, <1>6 DEF TypeInv, ReplyInv, Init

-----------------------------------------------------------------------------
\* The types and the flow of bytes: steps of the application

LEMMA Grown ==
  ASSUME NEW msgs, NEW more, Laid(msgs), more = msgs \/ \E n \in Sizes : more = Framed(msgs, n)
  PROVE  /\ Laid(more) /\ AllOf(msgs) \in Nat /\ AllOf(more) \in Nat /\ AllOf(msgs) <= AllOf(more)
         /\ Len(msgs) \in Nat /\ Len(more) \in Nat /\ Len(msgs) <= Len(more)
         /\ \A i \in 0..Len(msgs) : Offset(more, i) = Offset(msgs, i)
<1>1. CASE more = msgs
  <2>1. AllOf(msgs) \in Nat /\ Len(msgs) \in Nat
    BY LaidOffsets
  <2> QED BY <1>1, <2>1
<1>2. CASE \E n \in Sizes : more = Framed(msgs, n)
  <2>1. PICK n \in Sizes : more = Framed(msgs, n)
    BY <1>2
  <2>2. /\ Laid(more) /\ AllOf(msgs) <= AllOf(more) /\ Len(more) = Len(msgs) + 1
        /\ \A i \in 0..Len(msgs) : Offset(more, i) = Offset(msgs, i)
    BY <2>1, FramedLaid
  <2> QED BY <2>2, LaidOffsets
<1> QED BY <1>1, <1>2

\* What leaves the server alone leaves its ranges and its answer as they are.
LEMMA ServerQuiet ==
  ASSUME TypeInv, UNCHANGED <<shape, feed, handler, response, peer>>, Lost => Lost'
  PROVE  ServerRange' /\ ReplyInv'
<1>1. ServerRange'
  BY DEF TypeInv, ServerRange, feed, handler, response
<1>2. ReplyInv'
  BY DEF TypeInv, ReplyInv, handler, response
<1> QED BY <1>1, <1>2

LEMMA FeedQuiet ==
  ASSUME BufferInv, FeedInv, UNCHANGED <<feed, sbuf>>,
         written' = written \/ \E n \in Sizes : written' = Framed(written, n)
  PROVE  FeedInv'
<1>1. AllOf(written) \in Nat /\ AllOf(written') \in Nat /\ AllOf(written) <= AllOf(written')
  BY Grown DEF BufferInv
<1>2. AllOf(written)' = AllOf(written')
  BY DEF AllOf, Offset
<1> QED BY <1>1, <1>2 DEF FeedInv, feed

LEMMA TypeApplication ==
  ASSUME TypeInv, Application
  PROVE  TypeInv'
<1>1. UNCHANGED <<shape, feed, handler, response, peer>>
  BY ApplicationMoves
<1>2. written' = written \/ \E n \in Sizes : written' = Framed(written, n)
  BY DEF Application, Write, WritesDone, Read, Finish, Cancel, HalfClose, request
<1>3. cbuf' = cbuf
  BY DEF Application, Write, WritesDone, Read, Finish, Cancel
<1>4. ClientRange'
  <2>1. ClientRange
    BY DEF TypeInv
  <2>2. CASE \E n \in Sizes : Write(n)
    BY <2>1, <2>2 DEF Write, ClientRange
  <2>3. CASE WritesDone
    BY <2>1, <2>3 DEF WritesDone, HalfClose, ClientRange
  <2>4. CASE Read
    BY <2>1, <2>4 DEF Read, request, ClientRange
  <2>5. CASE Finish
    <3>1. cErrors' \subseteq {"limit", "read", "close"}
      BY <2>1, <2>5 DEF Finish, ClientRange
    <3> QED BY <2>1, <2>5, <3>1 DEF Finish, HalfClose, ClientRange
  <2>6. CASE Cancel
    BY <2>1, <2>6 DEF Cancel, ClientRange
  <2> QED BY <2>2, <2>3, <2>4, <2>5, <2>6 DEF Application
<1>5. ServerRange' /\ ReplyInv'
  <2>1. Lost => Lost'
    BY <1>1 DEF Application, Write, WritesDone, Read, Finish, Cancel, HalfClose, request, Lost
  <2> QED BY <1>1, <2>1, ServerQuiet
<1>6. BufferInv'
  <2>1. Laid(written')
    BY <1>2, Grown DEF TypeInv, BufferInv
  <2>2. Laid(written)' /\ resp' = resp /\ sbuf' = sbuf
    BY <1>1, <2>1 DEF Laid, Length, Offset, handler, response
  <2> QED BY <1>3, <2>2 DEF TypeInv, BufferInv, Laid, AllOf, Length, Offset
<1>7. FeedInv'
  BY <1>1, <1>2, FeedQuiet DEF TypeInv, handler
<1> QED BY <1>4, <1>5, <1>6, <1>7 DEF TypeInv

LEMMA TypeClient ==
  ASSUME TypeInv, ClientStep
  PROVE  TypeInv'
<1>1. UNCHANGED <<shape, feed, handler, response, peer>> /\ resp' = resp /\ sbuf' = sbuf
  BY ApplicationMoves DEF response, handler
<1>2. written' = written
  BY DEF ClientStep, ReadMessage, ReadTooLarge, ReadData, ReadEndStream, ReadTimeout,
         ReadError, FinishStatus, UnaryFails, UnaryResponse, UnaryReturns, request
<1>3. ClientRange'
  <2>1. ClientRange
    BY DEF TypeInv
  <2>2. CASE ReadMessage
    <3>1. MessageAt(resp, cbuf) \in Nat
      BY MessageNumber DEF TypeInv, BufferInv, Laid
    <3>2. got' \in Seq(Nat)
      BY <2>1, <2>2, <3>1 DEF ReadMessage, ClientRange
    <3> QED BY <2>1, <2>2, <3>2 DEF ReadMessage, Return, request, ClientRange
  <2>3. CASE ReadTooLarge
    <3>1. cErrors' \subseteq {"limit", "read", "close"}
      BY <2>1, <2>3 DEF ReadTooLarge, ClientRange
    <3> QED BY <2>1, <2>3, <3>1 DEF ReadTooLarge, Return, ClientRange
  <2>4. CASE ReadData \/ ReadEndStream \/ ReadTimeout
    BY <2>1, <2>4 DEF ReadData, ReadEndStream, ReadTimeout, Return, request, ClientRange
  <2>5. CASE ReadError
    <3>1. cErrors' \subseteq {"limit", "read", "close"}
      BY <2>1, <2>5 DEF ReadError, ClientRange
    <3> QED BY <2>1, <2>5, <3>1 DEF ReadError, Return, request, ClientRange
  <2>6. CASE FinishStatus
    <3>1. seen' \in Statuses \cup {"none"}
      BY <2>6 DEF FinishStatus, TypeInv, ServerRange
    <3>2. result' \in Statuses
      BY <2>6, <3>1 DEF FinishStatus, ErrorStatus, Statuses
    <3> QED BY <2>1, <2>6, <3>1, <3>2 DEF FinishStatus, request, ClientRange
  <2>7. CASE UnaryResponse
    <3>1. trailers \in Statuses \cup {"none"}
      BY DEF TypeInv, ServerRange
    <3>2. <<MessageAt(resp, cbuf')>> \in Seq(Nat)
      <4>1. MessageAt(resp, cbuf') \in Nat
        BY MessageNumber DEF TypeInv, BufferInv, Laid
      <4> QED BY <4>1
    <3>3. got' \in Seq(Nat) /\ cpc' \in {"decoded", "over"}
      BY <2>1, <2>7, <3>2 DEF UnaryResponse, ClientRange
    <3>4. seen' \in Statuses \cup {"none"}
      BY <2>1, <2>7, <3>1 DEF UnaryResponse, ClientRange
    <3>5. result' \in Statuses \cup {"none", "GRPC-ERROR"}
      BY <2>1, <2>7, <3>1 DEF UnaryResponse, Statuses, ClientRange
    <3> QED BY <2>1, <2>7, <3>3, <3>4, <3>5 DEF UnaryResponse, request, ClientRange
  <2>8. CASE UnaryReturns
    BY <2>1, <2>8 DEF UnaryReturns, request, ClientRange
  <2>9. CASE UnaryFails
    BY <2>1, <2>9 DEF UnaryFails, Statuses, request, ClientRange
  <2> QED BY <2>2, <2>3, <2>4, <2>5, <2>6, <2>7, <2>8, <2>9 DEF ClientStep
<1>4. ServerRange' /\ ReplyInv'
  <2>1. Lost => Lost'
    BY <1>1 DEF ClientStep, ReadMessage, ReadTooLarge, ReadData, ReadEndStream, ReadTimeout,
                ReadError, FinishStatus, UnaryFails, UnaryResponse, UnaryReturns, request, Lost
  <2> QED BY <1>1, <2>1, ServerQuiet
<1>5. cbuf' \in Buffer /\ cbuf'.at <= cbuf'.to /\ cbuf'.to <= AllOf(resp)
  <2>1. Laid(resp) /\ cbuf \in Buffer /\ cbuf.at <= cbuf.to /\ cbuf.to <= AllOf(resp)
    BY DEF TypeInv, BufferInv
  <2>2. CASE ReadMessage
    BY <2>1, <2>2, FrameHeld DEF ReadMessage
  <2>3. CASE ReadTooLarge
    BY <2>1, <2>3 DEF ReadTooLarge, Clear, Buffer
  <2>4. CASE ReadData
    <3>1. PICK to \in Cuts(resp) : to > cbuf.to /\ cbuf' = Add(cbuf, to)
      BY <2>4 DEF ReadData
    <3>2. to \in Nat /\ to <= AllOf(resp)
      BY <2>1, <3>1, CutsWithin
    <3> QED BY <2>1, <3>1, <3>2 DEF Add, Buffer
  <2>5. CASE \/ ReadEndStream \/ ReadTimeout \/ ReadError
             \/ FinishStatus \/ UnaryFails \/ UnaryReturns
    BY <2>1, <2>5 DEF ReadEndStream, ReadTimeout, ReadError, FinishStatus, UnaryFails, UnaryReturns
  <2>6. CASE UnaryResponse
    <3>1. cbuf' = Add(cbuf, AllOf(resp)) /\ AllOf(resp) \in Nat
      BY <2>1, <2>6, LaidOffsets DEF UnaryResponse
    <3> QED BY <2>1, <3>1 DEF Add, Buffer
  <2> QED BY <2>2, <2>3, <2>4, <2>5, <2>6 DEF ClientStep
<1>6. BufferInv'
  BY <1>1, <1>2, <1>5 DEF TypeInv, BufferInv, Laid, AllOf, Length, Offset
<1>7. FeedInv'
  BY <1>1, <1>2, FeedQuiet DEF TypeInv
<1> QED BY <1>3, <1>4, <1>6, <1>7 DEF TypeInv

-----------------------------------------------------------------------------
\* The types and the flow of bytes: steps of the wire and of the server

LEMMA ClientQuiet ==
  ASSUME ClientRange, UNCHANGED <<shape, request, client>>
  PROVE  ClientRange'
  BY DEF ClientRange, request, client

LEMMA TypeWire ==
  ASSUME TypeInv, IoData \/ IoEnd \/ IoTooLarge \/ Reset
  PROVE  TypeInv'
<1>1. UNCHANGED <<shape, request, client, handler, response>>
  BY WireMoves
<1>2. ClientRange'
  BY <1>1, ClientQuiet DEF TypeInv
<1>3. ServerRange' /\ ReplyInv'
  <2>1. queueOpen' \in BOOLEAN /\ peer' \in {"open", "reset"} /\ (Lost => Lost')
    BY <1>1 DEF IoData, IoEnd, IoTooLarge, Reset, feed, request, Lost, TypeInv, ServerRange
  <2> QED BY <1>1, <2>1 DEF TypeInv, ServerRange, ReplyInv, handler, response
<1>4. BufferInv'
  BY <1>1 DEF TypeInv, BufferInv, Laid, AllOf, Length, Offset, handler, response, request, client
<1>5. FeedInv'
  <2>1. /\ Laid(written) /\ sbuf \in Buffer /\ fed \in Nat /\ fed <= AllOf(written)
        /\ inq \in Seq(Items) /\ Onward(inq, sbuf.to) /\ Reached(inq, sbuf.to) <= fed
        /\ queueOpen => Reached(inq, sbuf.to) = fed /\ \A i \in 1..Len(inq) : inq[i].is = "data"
    BY DEF TypeInv, BufferInv, FeedInv
  <2>2. sbuf' = sbuf /\ written' = written /\ AllOf(written)' = AllOf(written) /\ sbuf.to \in Nat
    BY <1>1, <2>1 DEF handler, request, AllOf, Offset, Buffer
  <2>3. CASE IoData
    <3>1. PICK to \in Cuts(written) :
             /\ to > fed /\ fed' = to
             /\ inq' = IF queueOpen THEN Append(inq, Item("data", to)) ELSE inq
      BY <2>3 DEF IoData
    <3>2. to \in Nat /\ to <= AllOf(written)
      BY <2>1, CutsWithin
    <3>3. UNCHANGED queueOpen
      BY <2>3 DEF IoData
    <3>4. CASE queueOpen
      <4>1. Item("data", to) \in Items /\ Item("data", to).is = "data" /\ Item("data", to).to = to
        BY <3>2 DEF Item, Items
      <4>2. Reached(inq, sbuf.to) <= Item("data", to).to
        BY <2>1, <3>1, <3>2, <3>4, <4>1
      <4>3. /\ inq' \in Seq(Items) /\ Onward(inq', sbuf.to) /\ Reached(inq', sbuf.to) = to
        BY <2>1, <2>2, <3>1, <3>4, <4>1, <4>2, OnwardAppend
      <4>4. \A i \in 1..Len(inq') : inq'[i].is = "data"
        BY <2>1, <3>1, <3>4, <4>1, AppendProperties
      <4> QED BY <2>2, <3>1, <3>2, <4>3, <4>4 DEF FeedInv, Reached, Onward, After
    <3>5. CASE ~queueOpen
      <4>1. Reached(inq, sbuf.to) \in Nat
        BY <2>1, <2>2, OnwardBounds
      <4> QED BY <2>1, <2>2, <3>1, <3>2, <3>3, <3>5, <4>1 DEF FeedInv, Reached, Onward, After
    <3> QED BY <3>4, <3>5
  <2>4. CASE IoEnd \/ IoTooLarge
    <3>1. PICK kind \in {"end", "too_large"} : inq' = Append(inq, Item(kind, fed))
      BY <2>4 DEF IoEnd, IoTooLarge
    <3>2. queueOpen /\ queueOpen' = FALSE /\ fed' = fed
      BY <2>4 DEF IoEnd, IoTooLarge
    <3>3. Item(kind, fed) \in Items /\ Item(kind, fed).to = fed
      BY <2>1 DEF Item, Items
    <3>4. /\ inq' \in Seq(Items) /\ Onward(inq', sbuf.to) /\ Reached(inq', sbuf.to) = fed
      BY <2>1, <2>2, <3>1, <3>2, <3>3, OnwardAppend
    <3> QED BY <2>1, <2>2, <3>2, <3>4 DEF FeedInv, Reached, Onward, After
  <2>5. CASE Reset
    BY <2>1, <2>2, <2>5 DEF Reset, feed, FeedInv, Reached, Onward, After
  <2> QED BY <2>3, <2>4, <2>5
<1> QED BY <1>2, <1>3, <1>4, <1>5 DEF TypeInv

\* The server takes nothing, or the item that waits first, from the body queue.
Keeps == inq' = inq /\ sbuf'.to = sbuf.to
Takes == inq # <<>> /\ inq' = Tail(inq) /\ sbuf'.to = Head(inq).to

LEMMA ServerTakes ==
  ASSUME BufferInv, FeedInv, ServerStep
  PROVE  /\ sbuf' \in Buffer /\ sbuf'.at <= sbuf'.to
         /\ Keeps \/ Takes
         /\ queueOpen' \in {queueOpen, FALSE}
<1>1. Laid(written) /\ sbuf \in Buffer /\ sbuf.at <= sbuf.to
  BY DEF BufferInv
<1>2. inq # <<>> => /\ Head(inq).to \in Nat /\ sbuf.to <= Head(inq).to
                    /\ Head(inq).is # "data" => Head(inq).to = sbuf.to
  BY <1>1, OnwardTake DEF FeedInv, Items, Buffer
<1>3. CASE Dispatch \/ BodyTimeout \/ Handler \/ ServerReadNothing \/ ServerReadTimeout
           \/ SendResponse \/ SendTrailers \/ SendGrpcError
  <2>1. UNCHANGED <<feed, sbuf>>
    BY <1>3 DEF Dispatch, BodyTimeout, Handler, HandlerReads, HandlerWrites, HandlerSendsMetadata,
                HandlerEnds, ServerReadNothing, ServerReadTimeout, SendResponse, SendTrailers,
                SendGrpcError, SubmitTrailers
  <2> QED BY <1>1, <2>1 DEF feed, Keeps
<1>4. CASE BodyChunk \/ ServerReadChunk
  <2>1. inq # <<>> /\ inq' = Tail(inq) /\ sbuf' = Add(sbuf, Head(inq).to)
    BY <1>4 DEF BodyChunk, ServerReadChunk, ServerTakeItem
  <2>2. queueOpen' \in {queueOpen, FALSE}
    BY <1>4 DEF BodyChunk, ServerReadChunk
  <2>3. sbuf' \in Buffer /\ sbuf'.at <= sbuf'.to /\ sbuf'.to = Head(inq).to
    BY <1>1, <1>2, <2>1 DEF Add, Buffer
  <2> QED BY <2>1, <2>2, <2>3 DEF Takes
<1>5. CASE BodyTooLarge \/ BodyEnd \/ ServerReadEnd \/ ServerReadBodyError
  <2>1. inq # <<>> /\ inq' = Tail(inq) /\ Head(inq).is # "data" /\ UNCHANGED queueOpen
    BY <1>5 DEF BodyTooLarge, BodyEnd, ServerReadEnd, ServerReadBodyError, ServerTakeItem
  <2>2. \/ sbuf' = sbuf \/ sbuf' = Clear(sbuf)
        \/ HasFrame(written, sbuf, 0) /\ sbuf' = TakeFrame(written, sbuf)
    BY <1>5 DEF BodyTooLarge, BodyEnd, ServerReadEnd, ServerReadBodyError
  <2>3. sbuf' \in Buffer /\ sbuf'.at <= sbuf'.to /\ sbuf'.to = sbuf.to
    <3>1. CASE sbuf' = sbuf \/ sbuf' = Clear(sbuf)
      BY <1>1, <3>1 DEF Clear, Buffer
    <3>2. CASE HasFrame(written, sbuf, 0) /\ sbuf' = TakeFrame(written, sbuf)
      BY <1>1, <3>2, FrameHeld
    <3> QED BY <2>2, <3>1, <3>2
  <2> QED BY <1>2, <2>1, <2>3 DEF Takes
<1>6. CASE ServerReadMessage
  <2>1. HasFrame(written, sbuf, MaxMessageSize) /\ sbuf' = TakeFrame(written, sbuf) /\ UNCHANGED feed
    BY <1>6 DEF ServerReadMessage
  <2> QED BY <1>1, <2>1, FrameHeld DEF feed, Keeps
<1>7. CASE ServerReadTooLarge
  <2>1. sbuf' = Clear(sbuf) /\ queueOpen' = FALSE /\ inq' = inq
    BY <1>7 DEF ServerReadTooLarge
  <2>2. sbuf' \in Buffer /\ sbuf'.at <= sbuf'.to /\ sbuf'.to = sbuf.to
    BY <1>1, <2>1 DEF Clear, Buffer
  <2> QED BY <2>1, <2>2 DEF Keeps
<1> QED BY <1>3, <1>4, <1>5, <1>6, <1>7 DEF ServerStep

LEMMA FeedServer ==
  ASSUME BufferInv, FeedInv, ServerStep
  PROVE  FeedInv'
<1>1. written' = written /\ fed' = fed /\ AllOf(written)' = AllOf(written)
  BY ServerMoves DEF request, AllOf, Offset
<1>2. queueOpen' \in {queueOpen, FALSE} /\ (Keeps \/ Takes)
  BY ServerTakes
<1>3. CASE Keeps
  <2>1. inq' = inq /\ sbuf'.to = sbuf.to
    BY <1>3 DEF Keeps
  <2>2. queueOpen' => queueOpen
    BY <1>2
  <2>3. /\ inq \in Seq(Items) /\ Onward(inq, sbuf.to)' /\ Reached(inq, sbuf.to)' = Reached(inq, sbuf.to)
    BY <2>1 DEF FeedInv, Onward, Reached, After
  <2> QED BY <1>1, <2>1, <2>2, <2>3 DEF FeedInv
<1>4. CASE Takes
  <2>1. /\ Tail(inq) \in Seq(Items) /\ Onward(Tail(inq), Head(inq).to)
        /\ Reached(Tail(inq), Head(inq).to) = Reached(inq, sbuf.to)
        /\ \A i \in 1..Len(Tail(inq)) : i + 1 \in 1..Len(inq) /\ Tail(inq)[i] = inq[i + 1]
    BY <1>4, OnwardTake DEF Takes, FeedInv, BufferInv, Buffer
  <2>2. /\ inq' \in Seq(Items) /\ Onward(inq', sbuf'.to) /\ Reached(inq', sbuf'.to) = Reached(inq, sbuf.to)
        /\ \A i \in 1..Len(inq') : i + 1 \in 1..Len(inq) /\ inq'[i] = inq[i + 1]
    BY <1>4, <2>1 DEF Takes
  <2>3. queueOpen' => queueOpen
    BY <1>2
  <2> QED BY <1>1, <2>2, <2>3 DEF FeedInv, Reached, Onward, After
<1> QED BY <1>2, <1>3, <1>4

\* What the handler's thread does before it answers
Before == {"arrive", "body", "handler", "read", "reply", "refuse", "escaped"}

LEMMA ServerAhead ==
  ASSUME \/ Dispatch \/ BodyChunk \/ BodyTooLarge \/ BodyTimeout \/ BodyEnd
         \/ HandlerReads \/ HandlerEnds
         \/ ServerReadMessage \/ ServerReadTooLarge \/ ServerReadNothing \/ ServerReadChunk
         \/ ServerReadEnd \/ ServerReadBodyError \/ ServerReadTimeout,
         TypeInv
  PROVE  /\ UNCHANGED response /\ spc \in Before /\ spc' \in Before /\ spc # "refuse"
         /\ status' \in Statuses /\ (spc' = "refuse" => status' # "OK")
<1>1. status \in Statuses
  BY DEF TypeInv, ServerRange
<1>2. CASE Dispatch \/ BodyChunk \/ BodyTooLarge \/ BodyTimeout \/ BodyEnd
  BY <1>1, <1>2 DEF Dispatch, BodyChunk, BodyTooLarge, BodyTimeout, BodyEnd, Refuse, Before, Statuses
<1>3. CASE HandlerReads \/ HandlerEnds
  BY <1>1, <1>3, HandlerEndingsAssumption DEF HandlerReads, HandlerEnds, Before
<1>4. CASE \/ ServerReadMessage \/ ServerReadTooLarge \/ ServerReadNothing \/ ServerReadChunk
           \/ ServerReadEnd \/ ServerReadBodyError \/ ServerReadTimeout
  BY <1>1, <1>4 DEF ServerReadMessage, ServerReadTooLarge, ServerReadNothing, ServerReadChunk,
              ServerReadEnd, ServerReadBodyError, ServerReadTimeout, ServerTakeItem,
              ServerNeedsData, ServerReading, ReadThrows, Before, Statuses
<1> QED BY <1>2, <1>3, <1>4

\* The steps that answer: one at a time, each before the trailers.
LEMMA Responds ==
  ASSUME TypeInv, NEW n \in Sizes, HandlerWrites(n)
  PROVE  /\ resp' = resp \/ resp' = Framed(resp, n)
         /\ wire' \in Seq(Frames) /\ headersSent' = TRUE /\ trailers = "none"
         /\ UNCHANGED <<spc, status, trailers, handled, sEnded, sReadsDone, queueOpen>>
         /\ spc = "handler" /\ shape \notin SingleResponse
<1>1. wire' \in Seq(Frames)
  BY Submitted, SubmitGrows DEF HandlerWrites, TypeInv, ServerRange
<1>2. resp' = resp \/ resp' = Framed(resp, n)
  BY DEF HandlerWrites
<1>3. spc = "handler" /\ shape \notin SingleResponse /\ trailers = "none"
  BY DEF HandlerWrites, SingleResponse, TypeInv, ReplyInv
<1> QED BY <1>1, <1>2, <1>3 DEF HandlerWrites, feed

LEMMA RespondsOnce ==
  ASSUME TypeInv, SendResponse, spc' = "trailers"
  PROVE  /\ resp = <<>> /\ \E n \in Sizes : resp' = resp \/ resp' = Framed(resp, n)
         /\ wire' \in Seq(Frames) /\ headersSent' = TRUE /\ trailers = "none"
         /\ UNCHANGED <<status, trailers, handled, sEnded, sReadsDone, queueOpen>>
         /\ spc = "reply" /\ spc' = "trailers" /\ shape \in SingleResponse
         /\ Lost \/ Len(resp') = 1
<1>1. wire' \in Seq(Frames) /\ (wire' = wire <=> Lost)
  BY Submitted, SubmitGrows DEF SendResponse, TypeInv, ServerRange
<1>2. resp = <<>> /\ trailers = "none"
  BY DEF SendResponse, TypeInv, ReplyInv
<1>3. PICK n \in Sizes : resp' = IF wire' = wire THEN resp ELSE Framed(<<>>, n)
  BY DEF SendResponse
<1>4. Len(Framed(<<>>, n)) = 1
  <2>1. Len(Framed(<<>>, n)) = Len(<<>>) + 1 /\ Len(<<>>) = 0
    BY LaidEmpty, FramedLaid
  <2> QED BY <2>1
<1>5. Lost \/ Len(resp') = 1
  BY <1>1, <1>3, <1>4
<1> QED BY <1>1, <1>2, <1>3, <1>5 DEF SendResponse, feed

LEMMA Closes ==
  ASSUME TypeInv, SendTrailers \/ SendGrpcError
  PROVE  /\ UNCHANGED <<resp, status, headersSent, handled, sEnded, sReadsDone, queueOpen>>
         /\ wire' \in Seq(Frames) /\ trailers = "none" /\ spc' = "gone" /\ spc # "gone"
         /\ trailers' \in {"none", status}
         /\ trailers' = "OK" /\ shape \in SingleResponse => Len(resp) = 1
<1>1. PICK before \in {<<>>, <<"headers">>, EnsureHeaders} :
         /\ SubmitTrailers(before) /\ spc # "gone"
         /\ \/ spc = "trailers" \/ shape \notin SingleResponse \/ status # "OK"
  BY DEF SendTrailers, SendGrpcError, TypeInv, ReplyInv
<1>2. before \o <<"trailers">> \in Seq(Frames) /\ before \o <<"trailers">> # <<>>
  BY <1>1, Submitted
<1>3. wire' \in Seq(Frames) /\ (wire' = wire <=> Lost)
  BY <1>1, <1>2, SubmitGrows DEF SubmitTrailers, TypeInv, ServerRange
<1>4. trailers' = IF Lost THEN "none" ELSE status
  BY <1>1, <1>3 DEF SubmitTrailers
<1>5. trailers = "none"
  BY <1>1 DEF TypeInv, ReplyInv
<1>6. trailers' = "OK" /\ shape \in SingleResponse => Len(resp) = 1
  BY <1>1, <1>4 DEF TypeInv, ReplyInv
<1> QED BY <1>1, <1>3, <1>4, <1>5, <1>6 DEF SubmitTrailers, feed

\* The handler's result cannot be encoded.
LEMMA RespondsNothing ==
  ASSUME TypeInv, SendResponse, spc' # "trailers"
  PROVE  /\ UNCHANGED <<response, status, handled, sEnded, sReadsDone, queueOpen>>
         /\ spc = "reply" /\ spc' = "escaped"
  BY DEF SendResponse, response, feed

\* The response only grows, and not behind its trailers.
LEMMA ResponseGrows ==
  ASSUME TypeInv, [Next]_vars
  PROVE  /\ resp' = resp \/ (trailers = "none" /\ \E n \in Sizes : resp' = Framed(resp, n))
         /\ trailers' = trailers \/ (trailers = "none" /\ resp' = resp)
<1>1. CASE Application \/ ClientStep
  BY <1>1, ApplicationMoves DEF response
<1>2. CASE IoData \/ IoEnd \/ IoTooLarge \/ Reset
  BY <1>2, WireMoves DEF response
<1>3. CASE ServerStep
  <2>1. CASE \/ Dispatch \/ BodyChunk \/ BodyTooLarge \/ BodyTimeout \/ BodyEnd
             \/ HandlerReads \/ HandlerEnds
             \/ ServerReadMessage \/ ServerReadTooLarge \/ ServerReadNothing \/ ServerReadChunk
             \/ ServerReadEnd \/ ServerReadBodyError \/ ServerReadTimeout
    BY <2>1, ServerAhead DEF response
  <2>2. CASE HandlerSendsMetadata
    BY <2>2 DEF HandlerSendsMetadata
  <2>3. CASE \E n \in Sizes : HandlerWrites(n)
    BY <2>3, Responds
  <2>4. CASE SendResponse
    BY <2>4, RespondsOnce, RespondsNothing DEF response
  <2>5. CASE SendTrailers \/ SendGrpcError
    BY <2>5, Closes
  <2> QED BY <1>3, <2>1, <2>2, <2>3, <2>4, <2>5 DEF ServerStep, Handler
<1>4. CASE UNCHANGED vars
  BY <1>4 DEF vars, response
<1> QED BY <1>1, <1>2, <1>3, <1>4 DEF Next

LEMMA TypeServer ==
  ASSUME TypeInv, ServerStep
  PROVE  TypeInv'
<1>1. UNCHANGED <<shape, request, client, peer, fed>> /\ Lost' = Lost
  BY ServerMoves DEF request, Lost
<1>2. ClientRange'
  BY <1>1, ClientQuiet DEF TypeInv
<1>3. FeedInv'
  BY FeedServer DEF TypeInv
<1>4. BufferInv'
  <2>1. Laid(resp) /\ (resp' = resp \/ \E n \in Sizes : resp' = Framed(resp, n))
    BY ResponseGrows DEF TypeInv, BufferInv, Next
  <2>2. Laid(resp') /\ AllOf(resp) \in Nat /\ AllOf(resp') \in Nat /\ AllOf(resp) <= AllOf(resp')
    BY <2>1, Grown
  <2>3. cbuf' = cbuf /\ written' = written
    BY <1>1 DEF client, request
  <2>4. cbuf \in Buffer /\ cbuf.at <= cbuf.to /\ cbuf.to <= AllOf(resp')
    BY <2>2 DEF TypeInv, BufferInv, Buffer
  <2>5. sbuf' \in Buffer /\ sbuf'.at <= sbuf'.to
    BY ServerTakes DEF TypeInv
  <2>6. Laid(resp)' /\ Laid(written)' /\ AllOf(resp)' = AllOf(resp')
    BY <2>2, <2>3 DEF TypeInv, BufferInv, Laid, AllOf, Length, Offset
  <2> QED BY <2>3, <2>4, <2>5, <2>6 DEF BufferInv
<1>5. ServerRange' /\ ReplyInv'
  <2>1. queueOpen' \in BOOLEAN /\ peer' \in {"open", "reset"}
    BY <1>1, ServerTakes DEF TypeInv, ServerRange
  <2>2. CASE \/ Dispatch \/ BodyChunk \/ BodyTooLarge \/ BodyTimeout \/ BodyEnd
             \/ HandlerReads \/ HandlerEnds
             \/ ServerReadMessage \/ ServerReadTooLarge \/ ServerReadNothing \/ ServerReadChunk
             \/ ServerReadEnd \/ ServerReadBodyError \/ ServerReadTimeout
    <3>1. /\ UNCHANGED response /\ spc \in Before /\ spc' \in Before /\ spc # "refuse"
          /\ status' \in Statuses /\ (spc' = "refuse" => status' # "OK")
      BY <2>2, ServerAhead
    <3>2. sReadsDone' \in BOOLEAN /\ sEnded' \in BOOLEAN
      BY <2>2 DEF Dispatch, BodyChunk, BodyTooLarge, BodyTimeout, BodyEnd, HandlerReads, HandlerEnds,
              ServerReadMessage, ServerReadTooLarge, ServerReadNothing, ServerReadChunk,
              ServerReadEnd, ServerReadBodyError, ServerReadTimeout, TypeInv, ServerRange
    <3>3. handled' \in Seq(Nat)
      <4>1. MessageAt(written, sbuf) \in Nat
        BY MessageNumber DEF TypeInv, BufferInv, Laid
      <4>2. \/ handled' = handled \/ handled' = <<MessageAt(written, sbuf)>>
            \/ handled' = Append(handled, MessageAt(written, sbuf))
        BY <2>2 DEF Dispatch, BodyChunk, BodyTooLarge, BodyTimeout, BodyEnd, HandlerReads, HandlerEnds,
              ServerReadMessage, ServerReadTooLarge, ServerReadNothing, ServerReadChunk,
              ServerReadEnd, ServerReadBodyError, ServerReadTimeout
      <4>3. handled \in Seq(Nat)
        BY DEF TypeInv, ServerRange
      <4>4. <<MessageAt(written, sbuf)>> \in Seq(Nat) /\ Append(handled, MessageAt(written, sbuf)) \in Seq(Nat)
        BY <4>1, <4>3
      <4> QED BY <4>2, <4>3, <4>4
    <3>4. ServerRange'
      BY <2>1, <3>1, <3>2, <3>3 DEF TypeInv, ServerRange, Before, response
    <3>5. ReplyInv'
      BY <1>1, <3>1 DEF TypeInv, ReplyInv, Before, response
    <3> QED BY <3>4, <3>5
  <2>3. CASE HandlerSendsMetadata
    <3>1. /\ spc = "handler" /\ wire' \in Seq(Frames) /\ headersSent' = TRUE
          /\ UNCHANGED <<spc, sReadsDone, handled, sEnded, status, resp, trailers>>
      BY <2>3, Submitted, SubmitGrows DEF HandlerSendsMetadata, TypeInv, ServerRange
    <3> QED BY <1>1, <2>1, <3>1 DEF TypeInv, ServerRange, ReplyInv
  <2>4. CASE \E n \in Sizes : HandlerWrites(n)
    <3>1. PICK n \in Sizes : HandlerWrites(n)
      BY <2>4
    <3>2. ServerRange'
      BY <2>1, <3>1, Responds DEF TypeInv, ServerRange
    <3>3. ReplyInv'
      BY <1>1, <3>1, Responds DEF TypeInv, ReplyInv
    <3> QED BY <3>2, <3>3
  <2>5. CASE SendResponse
    <3>1. CASE spc' = "trailers"
      <4>1. ServerRange'
        BY <2>1, <2>5, <3>1, RespondsOnce DEF TypeInv, ServerRange
      <4>2. ReplyInv'
        BY <1>1, <2>5, <3>1, RespondsOnce DEF TypeInv, ReplyInv
      <4> QED BY <4>1, <4>2
    <3>2. CASE spc' # "trailers"
      <4>1. ServerRange'
        BY <2>1, <2>5, <3>2, RespondsNothing DEF TypeInv, ServerRange, response
      <4>2. ReplyInv'
        BY <1>1, <2>5, <3>2, RespondsNothing DEF TypeInv, ReplyInv, response
      <4> QED BY <4>1, <4>2
    <3> QED BY <3>1, <3>2
  <2>6. CASE SendTrailers \/ SendGrpcError
    <3>1. ServerRange'
      BY <2>1, <2>6, Closes DEF TypeInv, ServerRange
    <3>2. ReplyInv'
      BY <1>1, <2>6, Closes DEF TypeInv, ReplyInv
    <3> QED BY <3>1, <3>2
  <2> QED BY <2>2, <2>3, <2>4, <2>5, <2>6 DEF ServerStep, Handler
<1> QED BY <1>2, <1>3, <1>4, <1>5 DEF TypeInv

LEMMA TypeStep == TypeInv /\ [Next]_vars => TypeInv'
<1> SUFFICES ASSUME TypeInv, [Next]_vars PROVE TypeInv'
  OBVIOUS
<1>1. CASE UNCHANGED vars
  BY <1>1 DEF vars, request, client, feed, handler, response, TypeInv, ClientRange, ServerRange,
              ReplyInv, BufferInv, FeedInv, Lost, Laid, AllOf, Length, Offset, Onward, Reached, After
<1> QED BY <1>1, TypeApplication, TypeClient, TypeWire, TypeServer DEF Next

\* The handler's buffer reaches no further than what was sent.
LEMMA Within ==
  ASSUME TypeInv
  PROVE  fed \in 0..AllOf(written) /\ sbuf.to <= fed /\ sbuf.to <= AllOf(written)
<1>1. sbuf.to <= Reached(inq, sbuf.to) /\ Reached(inq, sbuf.to) \in Nat /\ sbuf.to \in Nat
  BY OnwardBounds DEF TypeInv, FeedInv, BufferInv, Buffer
<1>2. AllOf(written) \in Nat
  BY LaidOffsets DEF TypeInv, BufferInv
<1> QED BY <1>1, <1>2 DEF TypeInv, FeedInv

\* For any sizes, bounds, limits and faults, the variables have their types: above
\* all, no buffer is read beyond what has arrived, nor is more taken than was sent.
THEOREM CallTypesKept == Spec => []TypeOK
<1>1. TypeInv => TypeOK
  <2> SUFFICES ASSUME TypeInv PROVE TypeOK
    OBVIOUS
  <2>1. fed \in 0..AllOf(written) /\ sbuf.to <= fed
    BY Within
  <2>2. \A msgs \in {written, resp} : msgs \in Seq(Nat) /\ \A i \in 1..Len(msgs) : Length(msgs, i) \in Sizes
    BY DEF TypeInv, BufferInv, Laid
  <2>3. \A b \in {cbuf, sbuf} : b \in [at : Nat, to : Nat] /\ b.at <= b.to
    BY DEF TypeInv, BufferInv, Buffer
  <2>4. cbuf.to <= AllOf(resp) /\ inq \in Seq([is : {"data", "end", "too_large"}, to : Nat])
    BY DEF TypeInv, BufferInv, FeedInv, Items
  <2>5. {cWritesDone, cReadsDone, gaveUp, ended, queueOpen, sReadsDone, headersSent, sEnded} \subseteq BOOLEAN
    BY DEF TypeInv, ClientRange, ServerRange
  <2> QED BY <2>1, <2>2, <2>3, <2>4, <2>5 DEF TypeInv, ClientRange, ServerRange, Frames, TypeOK
<1> QED BY InitInv, TypeStep, <1>1, PTL DEF Spec

-----------------------------------------------------------------------------
\* The request: what the handler is given

LEMMA FirstOfAppend ==
  ASSUME NEW s \in Seq(Nat), s = FirstOf(Len(s))
  PROVE  /\ Append(s, Len(s) + 1) = FirstOf(Len(s) + 1)
         /\ Len(Append(s, Len(s) + 1)) = Len(s) + 1
<1> DEFINE more == Append(s, Len(s) + 1)
           first == FirstOf(Len(s) + 1)
<1>1. Len(s) \in Nat /\ \A i \in 1..Len(s) : s[i] = i
  BY DEF FirstOf
<1>2. more \in Seq(Nat) /\ Len(more) = Len(s) + 1 /\ \A i \in 1..(Len(s) + 1) : more[i] = i
  BY <1>1, AppendProperties
<1>3. first \in Seq(Nat) /\ Len(first) = Len(s) + 1 /\ \A i \in 1..(Len(s) + 1) : first[i] = i
  BY <1>1 DEF FirstOf
<1> HIDE DEF more, first
<1>4. more = first
  BY <1>2, <1>3, SeqEqual
<1> QED BY <1>2, <1>4 DEF more, first

LEMMA RequestInit == Init => ServedInv /\ EndInv
<1> SUFFICES ASSUME Init PROVE ServedInv /\ EndInv
  OBVIOUS
<1>1. /\ spc = "arrive" /\ sbuf = NoBytes /\ handled = <<>> /\ ~sReadsDone /\ ~sEnded /\ inq = <<>>
  BY DEF Init
<1>2. FirstOf(0) = <<>> /\ Len(<<>>) = 0
  BY DEF FirstOf
<1>3. Len(written) \in Nat
  BY InitInv, LaidOffsets DEF TypeInv, BufferInv
<1>4. shape \notin Streams => cWritesDone /\ Len(written) = 1
  <2>1. \A n \in Sizes : Len(Framed(<<>>, n)) = Len(<<>>) + 1
    BY LaidEmpty, FramedLaid
  <2> QED BY <1>2, <2>1 DEF Init
<1>5. upEnd = "closed" => cWritesDone
  BY DEF Init
<1> QED BY <1>1, <1>2, <1>3, <1>4, <1>5 DEF ServedInv, EndInv, NoBytes, Offset

\* What the application writes comes behind what the handler has, and before the end.
LEMMA RequestApplication ==
  ASSUME TypeInv, ServedInv, EndInv, Application \/ ClientStep
  PROVE  ServedInv' /\ EndInv'
<1>1. UNCHANGED <<shape, feed, handler>> /\ inq' = inq
  BY ApplicationMoves DEF feed
<1>2. /\ written' = written \/ (~cWritesDone /\ upEnd' = upEnd /\ \E n \in Sizes : written' = Framed(written, n))
      /\ upEnd' = upEnd \/ upEnd' = "reset" \/ (upEnd = "open" /\ upEnd' = "closed" /\ cWritesDone' = TRUE)
      /\ cWritesDone => cWritesDone'
  <2>1. CASE Application
    BY <2>1 DEF Application, Write, WritesDone, Read, Finish, Cancel, HalfClose, request, TypeInv, ClientRange
  <2>2. CASE ClientStep
    BY <2>2 DEF ClientStep, ReadMessage, ReadTooLarge, ReadData, ReadEndStream, ReadTimeout,
                ReadError, FinishStatus, UnaryFails, UnaryResponse, UnaryReturns, request
  <2> QED BY <2>1, <2>2
<1>3. /\ Len(written) \in Nat /\ Len(written') \in Nat /\ Len(written) <= Len(written')
      /\ \A i \in 0..Len(written) : Offset(written', i) = Offset(written, i)
      /\ Len(handled) \in Nat
  BY <1>2, Grown DEF TypeInv, BufferInv, ServerRange
<1>4. ServedInv'
  <2>1. handled' = handled /\ sbuf' = sbuf /\ sReadsDone' = sReadsDone /\ spc' = spc /\ sEnded' = sEnded
    BY <1>1 DEF handler
  <2>2. Len(handled) <= Len(written') /\ Offset(written', Len(handled)) = Offset(written, Len(handled))
    BY <1>3 DEF ServedInv
  <2>3. Offset(written, Len(handled))' = Offset(written', Len(handled))
    BY <2>1 DEF Offset
  <2> QED BY <1>1, <2>1, <2>2, <2>3 DEF ServedInv, Size
<1>5. EndInv'
  <2>1. CASE written' = written
    BY <1>1, <1>2, <2>1 DEF EndInv, handler, AllOf, Offset
  <2>2. CASE written' # written
    <3>1. ~cWritesDone /\ upEnd' = upEnd /\ upEnd # "closed" /\ shape \in Streams
      BY <1>2, <2>2 DEF EndInv
    <3> QED BY <1>1, <1>2, <3>1 DEF EndInv, handler
  <2> QED BY <2>1, <2>2
<1> QED BY <1>4, <1>5

LEMMA RequestWire ==
  ASSUME TypeInv, ServedInv, EndInv, IoData \/ IoEnd \/ IoTooLarge \/ Reset
  PROVE  ServedInv' /\ EndInv'
<1>1. UNCHANGED <<shape, request, handler, cWritesDone>> /\ AllOf(written)' = AllOf(written)
  BY WireMoves DEF client, request, AllOf, Offset
<1>2. ServedInv'
  BY <1>1 DEF ServedInv, handler, request, Size, Offset
<1>3. \A i \in 1..Len(inq') : inq'[i].is = "end" =>
          upEnd # "open" /\ (upEnd = "closed" => inq'[i].to = AllOf(written))
  <2>1. CASE inq' = inq
    BY <2>1 DEF EndInv
  <2>2. CASE \E kind \in {"data", "end", "too_large"}, to \in Nat :
                /\ inq' = Append(inq, Item(kind, to))
                /\ kind = "end" => upEnd # "open" /\ (upEnd = "closed" => to = AllOf(written))
    <3>1. PICK kind \in {"data", "end", "too_large"}, to \in Nat :
                /\ inq' = Append(inq, Item(kind, to))
                /\ kind = "end" => upEnd # "open" /\ (upEnd = "closed" => to = AllOf(written))
      BY <2>2
    <3>2. Item(kind, to) \in Items /\ Item(kind, to).is = kind /\ Item(kind, to).to = to
      BY DEF Item, Items
    <3>3. /\ inq \in Seq(Items) /\ Len(inq') = Len(inq) + 1 /\ inq'[Len(inq) + 1] = Item(kind, to)
          /\ \A i \in 1..Len(inq) : inq'[i] = inq[i]
      BY <3>1, <3>2, AppendProperties DEF TypeInv, FeedInv
    <3>4. ASSUME NEW i \in 1..Len(inq'), inq'[i].is = "end"
          PROVE  upEnd # "open" /\ (upEnd = "closed" => inq'[i].to = AllOf(written))
      <4>1. CASE i = Len(inq) + 1
        BY <3>1, <3>2, <3>3, <3>4, <4>1
      <4>2. CASE i # Len(inq) + 1
        <5>1. i \in 1..Len(inq) /\ inq'[i] = inq[i]
          BY <3>3, <4>2
        <5> QED BY <3>4, <5>1 DEF EndInv
      <4> QED BY <4>1, <4>2
    <3> QED BY <3>4
  <2>3. CASE IoData
    <3>1. PICK to \in Cuts(written) : inq' = IF queueOpen THEN Append(inq, Item("data", to)) ELSE inq
      BY <2>3 DEF IoData
    <3>2. to \in Nat
      BY CutsWithin DEF TypeInv, BufferInv
    <3> QED BY <2>1, <2>2, <3>1, <3>2
  <2>4. CASE IoEnd
    <3>1. fed \in Nat
      BY DEF TypeInv, FeedInv
    <3>2. inq' = Append(inq, Item("end", fed)) /\ upEnd # "open" /\ (upEnd = "closed" => fed = AllOf(written))
      BY <2>4 DEF IoEnd
    <3> QED BY <2>2, <3>1, <3>2
  <2>5. CASE IoTooLarge
    <3>1. fed \in Nat
      BY DEF TypeInv, FeedInv
    <3>2. inq' = Append(inq, Item("too_large", fed))
      BY <2>5 DEF IoTooLarge
    <3> QED BY <2>2, <3>1, <3>2
  <2>6. CASE Reset
    BY <2>1, <2>6 DEF Reset, feed
  <2> QED BY <2>3, <2>4, <2>5, <2>6
<1> QED BY <1>1, <1>2, <1>3 DEF EndInv, request, handler

\* What the server takes leaves the rest of the body queue as it was.
LEMMA EndServer ==
  ASSUME TypeInv, EndInv, ServerStep,
         sEnded' => \/ sEnded /\ handled' = handled
                    \/ upEnd # "open" /\ (upEnd = "closed" => Len(handled') = Len(written))
  PROVE  EndInv'
<1>1. UNCHANGED <<shape, written, upEnd, cWritesDone>> /\ AllOf(written)' = AllOf(written)
  BY ServerMoves DEF client, request, AllOf, Offset
<1>2. \A i \in 1..Len(inq') : \E j \in 1..Len(inq) : inq'[i] = inq[j]
  <2>1. CASE Keeps
    BY <2>1 DEF Keeps
  <2>2. CASE Takes
    <3>1. \A i \in 1..Len(Tail(inq)) : i + 1 \in 1..Len(inq) /\ Tail(inq)[i] = inq[i + 1]
      BY <2>2, OnwardTake DEF Takes, TypeInv, FeedInv, BufferInv, Buffer
    <3> QED BY <2>2, <3>1 DEF Takes
  <2> QED BY <2>1, <2>2, ServerTakes DEF TypeInv
<1> QED BY <1>1, <1>2 DEF EndInv

LEMMA ServedQuiet ==
  ASSUME TypeInv, ServedInv, EndInv, ServerStep,
         UNCHANGED <<handled, sEnded>>,
         \/ sReadsDone' = sReadsDone /\ sbuf' = sbuf
         \/ sReadsDone' /\ shape \in Streams /\ Size(sbuf') = 0
         \/ ~sReadsDone /\ ~sReadsDone' /\ sbuf'.at = sbuf.at,
         spc' \in {"arrive", "body"} => spc \in {"arrive", "body"},
         spc' = "body" => shape \notin Streams, spc' = "read" => shape \in Streams
  PROVE  ServedInv' /\ EndInv'
<1>1. UNCHANGED <<shape, written>>
  BY ServerMoves DEF request
<1>2. EndInv'
  BY EndServer DEF EndInv
<1>3. sReadsDone \in BOOLEAN
  BY DEF TypeInv, ServerRange
<1>4. IF sReadsDone' THEN Size(sbuf') = 0 ELSE sbuf'.at = Offset(written', Len(handled'))
  BY <1>1, <1>3 DEF ServedInv
<1>5. Size(sbuf)' = Size(sbuf') /\ Offset(written, Len(handled))' = Offset(written', Len(handled'))
  BY DEF Size, Offset
<1> QED BY <1>1, <1>2, <1>3, <1>4, <1>5 DEF ServedInv

LEMMA RequestServer ==
  ASSUME NoEmptyMessage, TypeInv, ServedInv, EndInv, ServerStep
  PROVE  ServedInv' /\ EndInv'
<1>1. /\ UNCHANGED <<shape, written>>
      /\ Laid(written) /\ sbuf \in Buffer /\ sbuf.at <= sbuf.to /\ sbuf.to <= AllOf(written)
      /\ Len(written) \in Nat /\ handled \in Seq(Nat) /\ Len(handled) \in 0..Len(written)
      /\ MaxMessageSize \in Nat /\ sReadsDone \in BOOLEAN /\ inq \in Seq(Items)
  BY ServerMoves, Within, LaidOffsets, BoundsAssumption
     DEF TypeInv, BufferInv, FeedInv, ServerRange, ServedInv, request
<1>2. inq # <<>> => /\ Head(inq) = inq[1] /\ 1 \in 1..Len(inq)
                    /\ Head(inq).is # "data" => Head(inq).to = sbuf.to
  BY <1>1, OnwardTake DEF TypeInv, FeedInv, Buffer
<1>3. \A max \in Nat : HasFrame(written, sbuf, max) => ~sReadsDone /\ sbuf.at = Offset(written, Len(handled))
  BY DEF HasFrame, HeaderSize, ServedInv
<1>4. CASE Dispatch
  BY <1>4, ServedQuiet DEF Dispatch
<1>5. CASE BodyTimeout \/ BodyTooLarge \/ Handler \/ ServerReadNothing \/ ServerReadTimeout
           \/ SendResponse \/ SendTrailers \/ SendGrpcError
  <2>1. /\ spc' \notin {"arrive", "body"} \/ spc' = spc
        /\ spc' = "read" => shape \in Streams \/ spc = "read"
    BY <1>5 DEF BodyTimeout, BodyTooLarge, Refuse, Handler, HandlerReads, HandlerWrites,
                HandlerSendsMetadata, HandlerEnds, ServerReadNothing, ServerReadTimeout, SendResponse,
                SendTrailers, SendGrpcError, SubmitTrailers
  <2>2. UNCHANGED <<handled, sEnded, sReadsDone, sbuf>>
    BY <1>5 DEF BodyTimeout, BodyTooLarge, Refuse, Handler, HandlerReads, HandlerWrites,
                HandlerSendsMetadata, HandlerEnds, ServerReadNothing, ServerReadTimeout, SendResponse,
                SendTrailers, SendGrpcError, SubmitTrailers
  <2> QED BY <2>1, <2>2, ServedQuiet DEF ServedInv
<1>6. CASE BodyChunk \/ ServerReadChunk
  <2>1. /\ sbuf'.at = sbuf.at /\ UNCHANGED <<handled, sEnded, sReadsDone>>
        /\ ~sReadsDone /\ spc' \in {spc, "refuse"}
    BY <1>1, <1>6 DEF BodyChunk, Refuse, ServerReadChunk, ServerTakeItem, Add, Buffer, ServedInv
  <2> QED BY <2>1, ServedQuiet DEF ServedInv
<1>7. CASE ServerReadTooLarge \/ ServerReadBodyError
  <2>1. /\ sbuf' = Clear(sbuf) /\ sReadsDone' = TRUE /\ UNCHANGED <<handled, sEnded>>
        /\ spc = "read" /\ spc' \in {"reply", "handler"}
    BY <1>7 DEF ServerReadTooLarge, ServerReadBodyError, ReadThrows, ServerTakeItem,
                ServerNeedsData, ServerReading
  <2>2. Size(sbuf') = 0 /\ shape \in Streams
    BY <1>1, <2>1 DEF Clear, Size, Buffer, ServedInv
  <2> QED BY <2>1, <2>2, ServedQuiet
<1>8. CASE ServerReadMessage
  <2>1. /\ HasFrame(written, sbuf, MaxMessageSize) /\ sbuf' = TakeFrame(written, sbuf)
        /\ UNCHANGED <<sReadsDone, sEnded>> /\ spc = "read"
    BY <1>8 DEF ServerReadMessage, ServerReading
  <2>2. ~sReadsDone /\ ~sEnded /\ sbuf.at = Offset(written, Len(handled))
    BY <1>1, <1>3, <2>1 DEF ServedInv
  <2>3. /\ Len(handled) < Len(written) /\ MessageAt(written, sbuf) = Len(handled) + 1
        /\ FrameLength(written, sbuf) # 0
        /\ sbuf'.at = Offset(written, Len(handled) + 1)
    BY <1>1, <2>1, <2>2, FrameTaken DEF NoEmptyMessage
  <2>4. handled' = Append(handled, Len(handled) + 1) /\ spc' = "handler"
    BY <1>8, <2>3 DEF ServerReadMessage
  <2>5. handled' = FirstOf(Len(handled) + 1) /\ Len(handled') = Len(handled) + 1
    BY <1>1, <2>4, FirstOfAppend DEF ServedInv
  <2>6. EndInv'
    BY <2>1, <2>2, EndServer
  <2>7. Offset(written, Len(handled))' = Offset(written, Len(handled) + 1)
    BY <1>1, <2>5 DEF Offset
  <2>8. Len(handled') <= Len(written)
    BY <1>1, <2>3, <2>5
  <2> QED BY <1>1, <2>1, <2>2, <2>3, <2>4, <2>5, <2>6, <2>7, <2>8 DEF ServedInv
<1>9. CASE ServerReadEnd
  <2>1. /\ spc = "read" /\ ~sReadsDone /\ inq # <<>> /\ Head(inq).is = "end"
        /\ ~HasFrame(written, sbuf, MaxMessageSize) /\ ~TooLong(written, sbuf, MaxMessageSize)
        /\ sReadsDone' = TRUE /\ sEnded' = TRUE /\ sbuf' = Clear(sbuf) /\ spc' = "handler"
        /\ UNCHANGED handled
    BY <1>9 DEF ServerReadEnd, ServerTakeItem, ServerNeedsData, ServerReading
  <2>2. upEnd # "open" /\ (upEnd = "closed" => sbuf.to = AllOf(written))
    BY <1>2, <2>1 DEF EndInv
  <2>3. upEnd = "closed" => Len(handled) = Len(written)
    BY <1>1, <2>1, <2>2, AllTaken DEF ServedInv
  <2>4. EndInv'
    BY <2>1, <2>2, <2>3, EndServer
  <2>5. Size(sbuf') = 0 /\ Size(sbuf)' = Size(sbuf')
    BY <1>1, <2>1 DEF Clear, Size, Buffer
  <2> QED BY <1>1, <2>1, <2>4, <2>5 DEF ServedInv
<1>10. CASE BodyEnd
  <2>1. /\ spc = "body" /\ inq # <<>> /\ Head(inq).is = "end" /\ sEnded' = (spc' = "handler")
        /\ spc' \in {"handler", "escaped"} /\ UNCHANGED sReadsDone
    BY <1>10 DEF BodyEnd
  <2>2. /\ upEnd # "open" /\ (upEnd = "closed" => sbuf.to = AllOf(written))
        /\ handled = <<>> /\ Len(handled) = 0 /\ ~sReadsDone /\ shape \notin Streams /\ Len(written) = 1
        /\ sbuf.at = Offset(written, 0)
    BY <1>1, <1>2, <2>1 DEF EndInv, ServedInv
  <2>3. CASE HasFrame(written, sbuf, 0) /\ spc' = "handler"
    <3>1. handled' = <<MessageAt(written, sbuf)>> /\ sbuf' = TakeFrame(written, sbuf)
      <4>1. ~(Size(sbuf) < HeaderSize)
        BY <1>1, <2>3 DEF HasFrame, Size, HeaderSize, Buffer
      <4> QED BY <1>10, <2>3, <4>1 DEF BodyEnd
    <3>2. MessageAt(written, sbuf) = 0 + 1 /\ sbuf'.at = Offset(written, 0 + 1)
      BY <1>1, <2>2, <2>3, <3>1, FrameTaken
    <3>3. handled' = <<1>> /\ Len(<<1>>) = 1 /\ FirstOf(1) = <<1>>
      BY <3>1, <3>2 DEF FirstOf
    <3>4. EndInv'
      BY <2>2, <3>3, EndServer
    <3>5. Offset(written, Len(handled))' = Offset(written, 1) /\ Len(handled') = 1
      BY <1>1, <3>3 DEF Offset
    <3> QED BY <1>1, <2>1, <2>2, <3>2, <3>3, <3>4, <3>5 DEF ServedInv
  <2>4. CASE ~HasFrame(written, sbuf, 0)
    <3>1. UNCHANGED <<handled, sbuf>>
      BY <1>10, <2>4 DEF BodyEnd
    <3>2. upEnd # "closed"
      <4>1. ~TooLong(written, sbuf, 0) /\ 0 # Len(written)
        BY <2>2 DEF TooLong
      <4> QED BY <1>1, <2>2, <2>4, <4>1, AllTaken
    <3>3. EndInv'
      BY <2>2, <3>2, EndServer
    <3>4. Offset(written, Len(handled))' = Offset(written, 0) /\ Size(sbuf)' = Size(sbuf)
      BY <1>1, <2>2, <3>1 DEF Offset, Size
    <3> QED BY <1>1, <2>1, <2>2, <3>1, <3>3, <3>4 DEF ServedInv
  <2>5. CASE spc' = "escaped"
    <3>1. UNCHANGED <<handled, sbuf>> /\ ~sEnded'
      BY <1>10, <2>5 DEF BodyEnd
    <3>2. EndInv'
      BY <3>1, EndServer
    <3>3. Offset(written, Len(handled))' = Offset(written, 0) /\ Size(sbuf)' = Size(sbuf)
      BY <1>1, <2>2, <3>1 DEF Offset, Size
    <3> QED BY <1>1, <2>1, <2>2, <2>5, <3>1, <3>2, <3>3 DEF ServedInv
  <2> QED BY <2>1, <2>3, <2>4, <2>5
<1> QED BY <1>4, <1>5, <1>6, <1>7, <1>8, <1>9, <1>10 DEF ServerStep

\* However the request is cut and whatever times out or is reset, the handler gets the
\* client's messages in order, none twice and none skipped, and is told the end of a
\* request that was closed behind all of them (GrpcServerStream's read(), extractBody()).
THEOREM RequestsKept ==
  ASSUME NoEmptyMessage
  PROVE  Spec => []RequestsArrive
<1> DEFINE Inv == TypeInv /\ ServedInv /\ EndInv
<1>1. Init => Inv
  BY InitInv, RequestInit
<1>2. Inv /\ [Next]_vars => Inv'
  <2> SUFFICES ASSUME TypeInv, ServedInv, EndInv, [Next]_vars PROVE ServedInv' /\ EndInv'
    BY TypeStep
  <2>1. CASE UNCHANGED vars
    BY <2>1 DEF vars, request, client, feed, handler, ServedInv, EndInv, Size, Offset, AllOf
  <2> QED BY <2>1, RequestApplication, RequestWire, RequestServer DEF Next
<1>3. Inv => RequestsArrive
  BY DEF ServedInv, EndInv, RequestsArrive
<1> QED BY <1>1, <1>2, <1>3, PTL DEF Spec

-----------------------------------------------------------------------------
\* The response: what the application receives

Looping == {"idle", "read", "drain"}

LEMMA ResponseInit == Init => ReadInv /\ OutcomeInv
<1> SUFFICES ASSUME Init PROVE ReadInv /\ OutcomeInv
  OBVIOUS
<1>1. /\ got = <<>> /\ resp = <<>> /\ cbuf = NoBytes /\ ~ended /\ ~cReadsDone /\ result = "none"
      /\ cpc \in {"unary", "idle"} /\ (cpc = "unary" => shape = "unary")
  BY DEF Init
<1>2. FirstOf(0) = <<>> /\ Len(<<>>) = 0
  BY DEF FirstOf
<1> QED BY <1>1, <1>2 DEF ReadInv, OutcomeInv, NoBytes, Offset

LEMMA ResponseApplication ==
  ASSUME TypeInv, ReadInv, OutcomeInv, Application
  PROVE  ReadInv' /\ OutcomeInv'
<1>1. /\ UNCHANGED <<shape, resp, trailers, cbuf, got, ended, result, seen>>
      /\ cpc \in Looping /\ cpc' \in Looping
  BY ApplicationMoves DEF response, Application, Write, WritesDone, Read, Finish, Cancel, Looping
<1>2. \/ cReadsDone' = cReadsDone /\ gaveUp' = gaveUp /\ cErrors \subseteq cErrors'
      \/ cReadsDone' = TRUE /\ gaveUp' = TRUE
  BY DEF Application, Write, WritesDone, Read, Finish, Cancel
<1>3. ReadInv'
  BY <1>1, <1>2 DEF ReadInv, Looping, Offset
<1>4. OutcomeInv'
  BY <1>1, <1>2 DEF OutcomeInv, Looping
<1> QED BY <1>3, <1>4

LEMMA ResponseClient ==
  ASSUME NoEmptyMessage, TypeInv, ReadInv, OutcomeInv, ClientStep
  PROVE  ReadInv' /\ OutcomeInv'
<1>1. /\ UNCHANGED <<shape, resp, trailers, gaveUp>>
      /\ Laid(resp) /\ cbuf \in Buffer /\ cbuf.to <= AllOf(resp)
      /\ Len(resp) \in Nat /\ got \in Seq(Nat) /\ Len(got) \in 0..Len(resp)
      /\ MaxMessageSize \in Nat
  <2>1. UNCHANGED <<shape, resp, trailers>>
    BY ApplicationMoves DEF response
  <2>2. UNCHANGED gaveUp
    BY DEF ClientStep, ReadMessage, ReadTooLarge, ReadData, ReadEndStream, ReadTimeout,
           ReadError, FinishStatus, UnaryFails, UnaryResponse, UnaryReturns
  <2> QED BY <2>1, <2>2, LaidOffsets, BoundsAssumption DEF TypeInv, BufferInv, ClientRange, ReadInv
<1>2. \A k \in Nat : Offset(resp, k)' = IF k' = 0 THEN 0 ELSE resp[k']
  BY <1>1 DEF Offset
<1>3. CASE ReadMessage
  <2>1. /\ cpc \in {"read", "drain"} /\ ~cReadsDone /\ HasFrame(resp, cbuf, MaxMessageSize)
        /\ cbuf' = TakeFrame(resp, cbuf) /\ UNCHANGED <<cReadsDone, cErrors, result, seen, ended>>
    BY <1>3 DEF ReadMessage, Reading
  <2>2. cbuf.at = Offset(resp, Len(got)) /\ ~ended
    BY <2>1 DEF ReadInv
  <2>3. /\ Len(got) < Len(resp) /\ MessageAt(resp, cbuf) = Len(got) + 1
        /\ FrameLength(resp, cbuf) # 0 /\ cbuf'.at = Offset(resp, Len(got) + 1)
    BY <1>1, <2>1, <2>2, FrameTaken DEF NoEmptyMessage
  <2>4. got' = Append(got, Len(got) + 1) /\ cpc' \in Looping
    BY <1>3, <2>1, <2>3 DEF ReadMessage, Return, Looping
  <2>5. got' = FirstOf(Len(got) + 1) /\ Len(got') = Len(got) + 1
    BY <1>1, <2>4, FirstOfAppend DEF ReadInv
  <2>6. Offset(resp, Len(got))' = Offset(resp, Len(got) + 1)
    BY <1>1, <2>5 DEF Offset
  <2>7. ReadInv'
    BY <1>1, <2>1, <2>2, <2>3, <2>4, <2>5, <2>6 DEF ReadInv, Looping
  <2>8. OutcomeInv'
    BY <2>1, <2>4 DEF OutcomeInv, Looping
  <2> QED BY <2>7, <2>8
<1>4. CASE ReadTooLarge \/ ReadError \/ ReadTimeout \/ ReadData
  <2>1. /\ cpc \in {"read", "drain"} /\ ~cReadsDone /\ cpc' \in Looping
        /\ UNCHANGED <<got, result, seen, ended>>
    BY <1>4 DEF ReadTooLarge, ReadError, ReadTimeout, ReadData, NeedsData, Reading, Return, Looping
  <2>2. \/ cReadsDone' = TRUE /\ cErrors' # {}
        \/ cReadsDone' = cReadsDone /\ cbuf'.at = cbuf.at
    BY <1>1, <1>4 DEF ReadTooLarge, ReadError, ReadTimeout, ReadData, Add, Buffer
  <2>3. ~ended
    BY <2>1 DEF ReadInv
  <2>4. Offset(resp, Len(got))' = Offset(resp, Len(got))
    BY <1>1, <2>1 DEF Offset
  <2>5. ReadInv'
    BY <1>1, <2>1, <2>2, <2>3, <2>4 DEF ReadInv, Looping
  <2>6. OutcomeInv'
    BY <2>1, <2>2 DEF OutcomeInv, Looping
  <2> QED BY <2>5, <2>6
<1>5. CASE ReadEndStream
  <2>1. /\ cpc \in {"read", "drain"} /\ ~cReadsDone /\ cpc' \in Looping
        /\ ~HasFrame(resp, cbuf, MaxMessageSize) /\ ~TooLong(resp, cbuf, MaxMessageSize)
        /\ trailers # "none" /\ cbuf.to = AllOf(resp) /\ cReadsDone' = TRUE /\ ended' = TRUE
        /\ UNCHANGED <<got, result, seen>>
    BY <1>5 DEF ReadEndStream, NeedsData, Reading, Return, Looping
  <2>2. Len(got) = Len(resp)
    BY <1>1, <2>1, AllTaken DEF ReadInv
  <2>3. ReadInv'
    BY <1>1, <2>1, <2>2 DEF ReadInv, Looping
  <2>4. OutcomeInv'
    BY <2>1 DEF OutcomeInv, Looping
  <2> QED BY <2>3, <2>4
<1>6. CASE FinishStatus
  <2>1. cpc' = "over" /\ UNCHANGED <<got, cReadsDone, ended, cbuf>> /\ cpc = "drain"
    BY <1>6 DEF FinishStatus
  <2> QED BY <1>1, <2>1 DEF ReadInv, OutcomeInv
<1>7. CASE UnaryResponse
  <2>1. cpc = "unary" /\ UNCHANGED <<cReadsDone, ended>> /\ ~ended /\ shape = "unary"
    BY <1>7 DEF UnaryResponse, ReadInv
  <2>2. CASE cpc' = "over" /\ got' = got
    BY <1>1, <2>1, <2>2 DEF ReadInv, OutcomeInv
  <2>3. CASE cpc' = "decoded" /\ got' = <<MessageAt(resp, cbuf')>> /\ trailers = "OK" /\ seen' = trailers /\ result' = result
    <3>1. Len(resp) = 1
      BY <2>1, <2>3 DEF TypeInv, ReplyInv, SingleResponse
    <3>2. cbuf'.at = Offset(resp, 0)
      BY <1>1, <1>7, <2>1 DEF UnaryResponse, ReadInv, Add, Buffer, Offset
    <3>3. MessageAt(resp, cbuf') = 1
      <4>1. 0 \in 0..Len(resp) /\ 0 # Len(resp) /\ Laid(resp)
        BY <1>1, <3>1
      <4>2. MessageAt(resp, cbuf') = 0 + 1
        BY <3>2, <4>1, BoundaryMessage
      <4> QED BY <4>2
    <3>4. <<1>> = FirstOf(1) /\ Len(<<1>>) = 1
      BY DEF FirstOf
    <3> QED BY <1>1, <2>1, <2>3, <3>1, <3>3, <3>4 DEF ReadInv, OutcomeInv
  <2> QED BY <1>7, <2>2, <2>3 DEF UnaryResponse
<1>8. CASE UnaryReturns
  <2>1. cpc' = "over" /\ UNCHANGED <<got, cReadsDone, ended>> /\ cpc = "decoded"
    BY <1>8 DEF UnaryReturns
  <2> QED BY <1>1, <2>1 DEF ReadInv, OutcomeInv
<1>9. CASE UnaryFails
  <2>1. cpc' = "over" /\ UNCHANGED <<got, cReadsDone, ended>> /\ cpc = "unary"
    BY <1>9 DEF UnaryFails
  <2> QED BY <1>1, <2>1 DEF ReadInv, OutcomeInv
<1> QED BY <1>3, <1>4, <1>5, <1>6, <1>7, <1>8, <1>9 DEF ClientStep

\* What the server sends comes behind what the application has, and before the end.
LEMMA ResponseServer ==
  ASSUME TypeInv, ReadInv, OutcomeInv, ServerStep \/ IoData \/ IoEnd \/ IoTooLarge \/ Reset
  PROVE  ReadInv' /\ OutcomeInv'
<1>1. UNCHANGED <<shape, client>>
  BY ServerMoves, WireMoves
<1>2. /\ resp' = resp \/ (trailers = "none" /\ \E n \in Sizes : resp' = Framed(resp, n))
      /\ trailers' = trailers \/ trailers = "none"
  BY ResponseGrows DEF Next
<1>3. /\ Len(resp) \in Nat /\ Len(resp') \in Nat /\ Len(resp) <= Len(resp')
      /\ Len(got) \in 0..Len(resp) /\ Offset(resp', Len(got)) = Offset(resp, Len(got))
  <2>1. /\ Len(resp) \in Nat /\ Len(resp') \in Nat /\ Len(resp) <= Len(resp')
        /\ \A i \in 0..Len(resp) : Offset(resp', i) = Offset(resp, i)
    BY <1>2, Grown DEF TypeInv, BufferInv
  <2>2. Len(got) \in 0..Len(resp)
    BY <2>1 DEF TypeInv, ClientRange, ReadInv
  <2> QED BY <2>1, <2>2
<1>4. /\ UNCHANGED <<cpc, cReadsDone, cbuf, cErrors, got, result, seen, gaveUp, ended>>
      /\ Offset(resp, Len(got))' = Offset(resp', Len(got))
  BY <1>1 DEF client, Offset
<1> QED BY <1>1, <1>2, <1>3, <1>4 DEF ReadInv, OutcomeInv

ResponseInv == TypeInv /\ ReadInv /\ OutcomeInv

LEMMA ResponseStep ==
  ASSUME NoEmptyMessage
  PROVE  ResponseInv /\ [Next]_vars => ResponseInv'
<1> SUFFICES ASSUME ResponseInv, [Next]_vars PROVE ReadInv' /\ OutcomeInv'
  BY TypeStep DEF ResponseInv
<1>1. CASE UNCHANGED vars
  BY <1>1 DEF vars, client, response, ResponseInv, ReadInv, OutcomeInv, Offset
<1> QED BY <1>1, ResponseApplication, ResponseClient, ResponseServer DEF Next, ResponseInv

\* However the response is cut, and whatever fails, the application reads the server's
\* messages in order, none twice and none skipped, and all of them before the end
\* (GrpcClientStream's read(), finish()'s drain).
THEOREM ResponsesKept ==
  ASSUME NoEmptyMessage
  PROVE  Spec => []ResponsesArrive
<1>1. Init => ResponseInv
  BY InitInv, ResponseInit DEF ResponseInv
<1>2. ResponseInv /\ [Next]_vars => ResponseInv'
  BY ResponseStep
<1>3. ResponseInv => ResponsesArrive
  BY DEF ResponseInv, ReadInv, ResponsesArrive
<1> QED BY <1>1, <1>2, <1>3, PTL DEF Spec

-----------------------------------------------------------------------------
\* The contract

\* What the application is told, unless it gave the call up
Told == IF gaveUp THEN "none" ELSE result

LEMMA ContractClient ==
  ASSUME NoEmptyMessage, ResponseInv, ResponseInv', ClientStep
  PROVE  [Contract!Next]_(Contract!vars)
<1>1. /\ UNCHANGED <<resp, trailers, gaveUp>> /\ trailers \in Statuses \cup {"none"}
      /\ Len(got) \in Nat
  <2>1. UNCHANGED <<resp, trailers>>
    BY ApplicationMoves DEF response
  <2>2. UNCHANGED gaveUp
    BY DEF ClientStep, ReadMessage, ReadTooLarge, ReadData, ReadEndStream, ReadTimeout,
           ReadError, FinishStatus, UnaryFails, UnaryResponse, UnaryReturns
  <2> QED BY <2>1, <2>2 DEF ResponseInv, TypeInv, ClientRange, ServerRange
<1>2. CASE UNCHANGED <<Len(got), Told>>
  BY <1>1, <1>2 DEF Contract!vars, Told
<1>3. CASE Told = "none" /\ Told' = Told /\ Len(got') = Len(got) + 1
  <2>1. Len(got') <= Len(resp') /\ Len(resp) \in Nat
    BY LaidOffsets DEF ResponseInv, ReadInv, TypeInv, BufferInv
  <2>2. Len(got) < Len(resp)
    BY <1>1, <1>3, <2>1
  <2>3. Contract!Deliver
    BY <1>1, <1>3, <2>2 DEF Contract!Deliver, Told
  <2> QED BY <2>3 DEF Contract!Next
<1>4. CASE /\ Told = "none" /\ Len(got') = Len(got) /\ Told' \in Statuses \cup {"GRPC-ERROR"}
           /\ Told' = "OK" => trailers # "none" /\ Len(got) = Len(resp)
  <2>1. Contract!End(Told')
    BY <1>1, <1>4 DEF Contract!End, Told
  <2> QED BY <1>4, <2>1 DEF Contract!Next
<1>5. CASE ReadMessage
  <2>1. result = "none" /\ result' = result /\ (got' = got \/ got' = Append(got, MessageAt(resp, cbuf)))
    BY <1>5 DEF ReadMessage, Reading, ResponseInv, OutcomeInv
  <2>2. got \in Seq(Nat) /\ MessageAt(resp, cbuf) \in Nat
    BY MessageNumber DEF ResponseInv, TypeInv, ClientRange, BufferInv, Laid
  <2>3. Len(got') \in {Len(got), Len(got) + 1}
    BY <2>1, <2>2
  <2> QED BY <1>1, <1>2, <1>3, <2>1, <2>3 DEF Told
<1>6. CASE ReadTooLarge \/ ReadData \/ ReadEndStream \/ ReadTimeout \/ ReadError
  <2>1. UNCHANGED <<got, result>>
    BY <1>6 DEF ReadTooLarge, ReadData, ReadEndStream, ReadTimeout, ReadError
  <2> QED BY <1>1, <1>2, <2>1 DEF Told
<1>7. CASE FinishStatus
  <2>1. /\ cpc = "drain" /\ cReadsDone /\ result = "none" /\ got' = got
        /\ seen' \in IF ended THEN {trailers} ELSE {"none", trailers}
        /\ result' = IF seen' \notin {"none", "OK"} THEN seen'
                     ELSE IF cErrors # {} THEN ErrorStatus ELSE "OK"
    BY <1>7 DEF FinishStatus, ResponseInv, OutcomeInv
  <2>2. result' \in Statuses
    BY <1>1, <2>1 DEF ErrorStatus, Statuses
  <2>3. ~gaveUp /\ result' = "OK" => ended
    BY <2>1 DEF ResponseInv, OutcomeInv, ErrorStatus
  <2>4. ended => trailers # "none" /\ Len(got) = Len(resp)
    BY DEF ResponseInv, ReadInv
  <2>5. CASE gaveUp
    BY <1>1, <1>2, <2>1, <2>5 DEF Told
  <2>6. CASE ~gaveUp
    BY <1>1, <1>4, <2>1, <2>2, <2>3, <2>4, <2>6 DEF Told
  <2> QED BY <2>5, <2>6
<1>8. CASE UnaryResponse
  <2>1. cpc = "unary" /\ result = "none" /\ got = <<>>
    BY <1>8 DEF UnaryResponse, ResponseInv, ReadInv, OutcomeInv
  <2>2. CASE got' = <<MessageAt(resp, cbuf')>> /\ result' = result
    <3>1. Len(got') = Len(got) + 1
      BY <2>1, <2>2
    <3> QED BY <1>1, <1>3, <2>1, <2>2, <3>1 DEF Told
  <2>3. CASE got' = got /\ result' \in Statuses \cup {"GRPC-ERROR"} /\ result' # "OK"
    BY <1>1, <1>2, <1>4, <2>1, <2>3 DEF Told
  <2>4. \/ got' = <<MessageAt(resp, cbuf')>> /\ result' = result
        \/ got' = got /\ result' \in Statuses \cup {"GRPC-ERROR"} /\ result' # "OK"
    BY <1>1, <1>8 DEF UnaryResponse, Statuses
  <2> QED BY <2>2, <2>3, <2>4
<1>9. CASE UnaryReturns
  <2>1. cpc = "decoded" /\ result = "none" /\ result' = seen /\ got' = got
    BY <1>9 DEF UnaryReturns, ResponseInv, OutcomeInv
  <2>2. seen = "OK" /\ trailers = "OK" /\ Len(got) = 1 /\ Len(resp) = 1
    BY <2>1 DEF ResponseInv, OutcomeInv, ReadInv, TypeInv, ReplyInv, SingleResponse
  <2> QED BY <1>1, <1>2, <1>4, <2>1, <2>2 DEF Told, Statuses
<1>10. CASE UnaryFails
  <2>1. /\ result = "none" /\ got' = got
        /\ result' \in Statuses \cup {"GRPC-ERROR"} /\ result' # "OK"
    BY <1>10 DEF UnaryFails, Statuses, ResponseInv, OutcomeInv
  <2> QED BY <1>1, <1>2, <1>4, <2>1 DEF Told
<1> QED BY <1>5, <1>6, <1>7, <1>8, <1>9, <1>10 DEF ClientStep

LEMMA ContractServer ==
  ASSUME ResponseInv, [Next]_vars, UNCHANGED <<got, result, gaveUp>>
  PROVE  [Contract!Next]_(Contract!vars)
<1>1. /\ resp' = resp \/ (trailers = "none" /\ \E n \in Sizes : resp' = Framed(resp, n))
      /\ trailers' = trailers \/ (trailers = "none" /\ resp' = resp)
  BY ResponseGrows DEF ResponseInv
<1>2. CASE resp' = resp /\ trailers' = trailers
  BY <1>2 DEF Contract!vars
<1>3. CASE resp' = resp /\ trailers' # trailers
  <2>1. Contract!ServerEnds
    BY <1>1, <1>3 DEF Contract!ServerEnds
  <2> QED BY <2>1 DEF Contract!Next
<1>4. CASE resp' # resp
  <2>1. trailers = "none" /\ trailers' = trailers /\ \E n \in Sizes : resp' = Framed(resp, n)
    BY <1>1, <1>4
  <2>2. Len(resp') = Len(resp) + 1
    BY <2>1, FramedLaid DEF ResponseInv, TypeInv, BufferInv
  <2>3. Contract!ServerSends
    BY <2>1, <2>2 DEF Contract!ServerSends
  <2> QED BY <2>3 DEF Contract!Next
<1> QED BY <1>2, <1>3, <1>4

LEMMA ContractStep ==
  ASSUME NoEmptyMessage, ResponseInv, ResponseInv', [Next]_vars
  PROVE  [Contract!Next]_(Contract!vars)
<1>1. CASE Application
  <2>1. UNCHANGED <<resp, trailers, got, result>> /\ cpc \in Looping
    BY <1>1, ApplicationMoves DEF response, Application, Write, WritesDone, Read, Finish, Cancel, Looping
  <2>2. result = "none"
    BY <2>1 DEF ResponseInv, OutcomeInv, Looping
  <2> QED BY <2>1, <2>2 DEF Contract!vars
<1>2. CASE ClientStep
  BY <1>2, ContractClient
<1>3. CASE ServerStep \/ IoData \/ IoEnd \/ IoTooLarge \/ Reset
  BY <1>3, ServerMoves, WireMoves, ContractServer DEF client
<1>4. CASE UNCHANGED vars
  BY <1>4, ContractServer DEF vars, client
<1> QED BY <1>1, <1>2, <1>3, <1>4 DEF Next

\* A blocking call of any shape keeps the contract of CallContract: its status is told
\* once, and OK only behind the server's trailers and every message of the response.
THEOREM CallKeepsContract ==
  ASSUME NoEmptyMessage
  PROVE  Spec => KeepsContract
<1>1. Init => ResponseInv
  BY InitInv, ResponseInit DEF ResponseInv
<1>2. ResponseInv /\ [Next]_vars => ResponseInv'
  BY ResponseStep
<1>3. Init => Contract!Init
  BY DEF Init, Contract!Init
<1>4. ResponseInv /\ ResponseInv' /\ [Next]_vars => [Contract!Next]_(Contract!vars)
  BY ContractStep
<1> QED BY <1>1, <1>2, <1>3, <1>4, PTL
        DEF Spec, KeepsContract, Contract!Spec, Contract!Safety, Contract!CancelEnds

=============================================================================
