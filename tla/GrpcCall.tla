------------------------------- MODULE GrpcCall -------------------------------
(***************************************************************************)
(* One gRPC call from end to end, in any of its four shapes: the           *)
(* application's blocking client (qlib/GrpcUtil/GrpcClientStream.qc,       *)
(* GrpcClient.qc), the server's dispatch (GrpcServerAsync.qc) and the      *)
(* handler's stream (GrpcServerStream.qc), with the HTTP/2 stream and the  *)
(* server's I/O thread between them.                                       *)
(*                                                                         *)
(* Three threads run: the application's, the server's I/O thread, which    *)
(* queues what arrives, and the handler's.  DATA frames do not align with  *)
(* messages: whoever reads gets the bytes up to any of the Cuts.           *)
(***************************************************************************)
EXTENDS Integers, Sequences, GrpcFrameBuffer

CONSTANTS
    Shapes,          \* the shapes of call looked at
    Sizes,           \* payload sizes of the messages sent
    MaxUp, MaxDown,  \* bounds: messages of a request and of a response, by shape
    MaxQueued,       \* bound: items in the body queue
    MaxMessageSize,  \* max_message_size of both sides, 0 for no limit
    MaxRequestBody,  \* max_request_body_size of the server, 0 for no limit
    MetadataShapes,  \* shapes whose handlers send initial metadata
    HandlerEndings,  \* statuses a handler ends with: "OK" when it returns in time,
                     \* else that of its exception or "DEADLINE_EXCEEDED"
    Faults           \* what may happen: "cancel"; "reset"; "unknown", a method that is none;
                     \* "codec", what cannot be encoded or decoded; "limit", a response over
                     \* the max_response_body_size of the client's channel

Statuses == {"OK", "INTERNAL", "UNIMPLEMENTED", "DEADLINE_EXCEEDED", "RESOURCE_EXHAUSTED"}
AllShapes == {"unary", "server", "client", "bidi"}

ASSUME ShapesAssumption == Shapes \subseteq AllShapes /\ MetadataShapes \subseteq AllShapes
ASSUME BoundsAssumption ==
    /\ Sizes \subseteq Nat
    /\ MaxUp \in [AllShapes -> Nat] /\ MaxDown \in [AllShapes -> Nat]
    /\ {MaxQueued, MaxMessageSize, MaxRequestBody} \subseteq Nat
ASSUME HandlerEndingsAssumption == HandlerEndings \subseteq Statuses /\ "OK" \in HandlerEndings
ASSUME FaultsAssumption == Faults \subseteq {"cancel", "reset", "unknown", "codec", "limit"}

VARIABLES
    shape,       \* the method's client_streaming and server_streaming
    written,     \* offsets behind the messages the client has put on the wire
    upEnd,       \* the request: "open", "closed" (END_STREAM), "reset" by the client
    cpc,         \* what the application is in
    cWritesDone, cReadsDone,  \* m_writes_done, m_reads_done of the client
    cbuf,        \* m_read_buf of the client
    cErrors,     \* the errors finish() knows of: m_error, drain_error, close_error
    got,         \* messages read() has returned, by number
    result,      \* the status finish() or call() returned
    seen,        \* the grpc-status getResponse() gave
    gaveUp,      \* history: the application called cancel()
    ended,       \* history: the client read END_STREAM
    fed,         \* offset up to which the I/O thread has taken the request
    inq,         \* the body queue
    queueOpen,   \* the I/O thread still queues
    spc,         \* what the handler thread is in
    sbuf,        \* m_read_buf of the server, or the body read so far
    sReadsDone,  \* m_async_reads_done
    headersSent, \* m_headers_sent
    handled,     \* messages the handler was given, by number
    sEnded,      \* history: the handler was told the end of the request
    status,      \* status_code of the answer
    resp,        \* offsets behind the messages the server has sent
    wire,        \* frames the server has sent, in order
    trailers,    \* grpc-status in the trailers sent, "none" before
    peer         \* "open", or "reset" from the server's side

request == <<written, upEnd>>
client == <<cpc, cWritesDone, cReadsDone, cbuf, cErrors, got, result, seen, gaveUp, ended>>
feed == <<fed, inq, queueOpen>>
handler == <<spc, sbuf, sReadsDone, handled, sEnded, status>>
response == <<headersSent, resp, wire, trailers>>
vars == <<shape, request, client, feed, handler, response, peer>>

Streams == {"client", "bidi"}
SingleResponse == {"unary", "client"}

\* Where a DATA frame may end: behind a message, inside a header (of odd messages)
\* and inside a payload (of even ones).
Inside(n) == IF n % 2 = 1 THEN HeaderSize - 1 ELSE HeaderSize + 1

Cuts(msgs) == {Offset(msgs, n) : n \in 0..Len(msgs)} \cup
              {Offset(msgs, n - 1) + Inside(n) : n \in {m \in 1..Len(msgs) : Length(msgs, m) > 1}}

Init ==
    /\ shape \in Shapes
    /\ IF shape \in Streams
       THEN written = <<>> /\ upEnd = "open" /\ cWritesDone = FALSE
       ELSE (\E n \in Sizes : written = Framed(<<>>, n)) /\ upEnd = "closed" /\ cWritesDone = TRUE
    /\ cpc = IF shape = "unary" THEN "unary" ELSE "idle"
    /\ cReadsDone = FALSE /\ cbuf = NoBytes /\ cErrors = {} /\ got = <<>>
    /\ result = "none" /\ seen = "none" /\ gaveUp = FALSE /\ ended = FALSE
    /\ fed = 0 /\ inq = <<>> /\ queueOpen = TRUE
    /\ spc = "arrive" /\ sbuf = NoBytes /\ sReadsDone = FALSE
    /\ handled = <<>> /\ sEnded = FALSE /\ status = "OK"
    /\ headersSent = FALSE /\ resp = <<>> /\ wire = <<>> /\ trailers = "none"
    /\ peer = "open"

-----------------------------------------------------------------------------
\* The application: GrpcClientStream's public methods

\* write(): send() fails once the stream is not writable, which it may be from
\* the moment the server has finished the call.
Write(n) ==
    /\ cpc = "idle" /\ ~cWritesDone /\ ~cReadsDone
    /\ Len(written) < MaxUp[shape]
    /\ \/ /\ peer = "open"
          /\ written' = Framed(written, n)
          /\ UNCHANGED cWritesDone
       \/ /\ peer = "reset" \/ trailers # "none"
          /\ cWritesDone' = TRUE
          /\ UNCHANGED written
    /\ UNCHANGED <<shape, upEnd, cpc, cReadsDone, cbuf, cErrors, got, result,
                   seen, gaveUp, ended, feed, handler, response, peer>>

\* The half-close, which fails on a stream the server has reset.
HalfClose ==
    /\ cWritesDone' = TRUE
    /\ upEnd' = IF cWritesDone \/ peer = "reset" \/ upEnd = "reset" THEN upEnd ELSE "closed"
    /\ UNCHANGED written

WritesDone ==
    /\ cpc = "idle" /\ ~cWritesDone
    /\ HalfClose
    /\ UNCHANGED <<shape, cpc, cReadsDone, cbuf, cErrors, got, result, seen,
                   gaveUp, ended, feed, handler, response, peer>>

\* read(), unless it returns at once
Read ==
    /\ cpc = "idle" /\ ~cReadsDone
    /\ cpc' = "read"
    /\ UNCHANGED <<shape, request, cWritesDone, cReadsDone, cbuf, cErrors, got,
                   result, seen, gaveUp, ended, feed, handler, response, peer>>

\* Mutant of Finish: the drain is left out.
FinishUndrained ==
    /\ cpc = "idle"
    /\ HalfClose
    /\ cReadsDone' = TRUE /\ cpc' = "drain"
    /\ UNCHANGED <<shape, cErrors, cbuf, got, result, seen, gaveUp, ended, feed, handler,
                   response, peer>>

\* finish(), up to its drain loop
Finish ==
    /\ cpc = "idle"
    /\ HalfClose
    /\ \/ ~cWritesDone /\ "reset" \in {peer, upEnd} /\ cErrors' = cErrors \cup {"close"}
       \/ (cWritesDone \/ peer = "open") /\ UNCHANGED cErrors
    /\ cpc' = "drain"
    /\ UNCHANGED <<shape, cReadsDone, cbuf, got, result, seen, gaveUp, ended,
                   feed, handler, response, peer>>

Cancel ==
    /\ "cancel" \in Faults
    /\ cpc = "idle" /\ ~gaveUp
    /\ cReadsDone' = TRUE /\ gaveUp' = TRUE
    /\ upEnd' = "reset"
    /\ UNCHANGED <<shape, written, cpc, cWritesDone, cbuf, cErrors, got, result,
                   seen, ended, feed, handler, response, peer>>

-----------------------------------------------------------------------------
\* read()'s loop, whose caller is the application or finish()'s drain

Reading == cpc \in {"read", "drain"} /\ ~cReadsDone

Return == cpc' = IF cpc = "read" THEN "idle" ELSE cpc

\* tryParseFrame() finds a message; one that decodes to an empty hash counts as
\* none at `if (msg)`.  The code then waits for data before it looks at the next
\* frame; here it may look first.
ReadMessage ==
    /\ Reading /\ HasFrame(resp, cbuf, MaxMessageSize)
    /\ cbuf' = TakeFrame(resp, cbuf)
    /\ IF FrameLength(resp, cbuf) = 0 THEN UNCHANGED <<got, cpc>>
       ELSE got' = Append(got, MessageAt(resp, cbuf)) /\ Return
    /\ UNCHANGED <<shape, request, cWritesDone, cReadsDone, cErrors, result,
                   seen, gaveUp, ended, feed, handler, response, peer>>

\* ... or one that is over the limit: the stream is cancelled, and read() throws.
ReadTooLarge ==
    /\ Reading /\ TooLong(resp, cbuf, MaxMessageSize)
    /\ cbuf' = Clear(cbuf)
    /\ cErrors' = cErrors \cup {"limit"}
    /\ cReadsDone' = TRUE
    /\ upEnd' = "reset"
    /\ Return
    /\ UNCHANGED <<shape, written, cWritesDone, got, result, seen, gaveUp, ended,
                   feed, handler, response, peer>>

NeedsData ==
    Reading /\ ~HasFrame(resp, cbuf, MaxMessageSize) /\ ~TooLong(resp, cbuf, MaxMessageSize)

ReadData ==
    /\ NeedsData /\ peer = "open"
    /\ \E to \in Cuts(resp) : to > cbuf.to /\ cbuf' = Add(cbuf, to)
    /\ UNCHANGED <<shape, request, cpc, cWritesDone, cReadsDone, cErrors, got,
                   result, seen, gaveUp, ended, feed, handler, response, peer>>

ReadEndStream ==
    /\ NeedsData /\ peer = "open" /\ trailers # "none" /\ cbuf.to = AllOf(resp)
    /\ cReadsDone' = TRUE /\ ended' = TRUE
    /\ Return
    /\ UNCHANGED <<shape, request, cWritesDone, cbuf, cErrors, got, result, seen,
                   gaveUp, feed, handler, response, peer>>

\* Nothing arrives in time: read() returns nothing, and finish() reads again.
ReadTimeout ==
    /\ NeedsData /\ cpc = "read" /\ cbuf.to = AllOf(resp) /\ trailers = "none"
    /\ Return
    /\ UNCHANGED <<shape, request, cWritesDone, cReadsDone, cbuf, cErrors, got,
                   result, seen, gaveUp, ended, feed, handler, response, peer>>

\* Mutant of ReadError: the drain does not end with the error.
ReadErrorAgain ==
    /\ NeedsData /\ peer = "reset"
    /\ cErrors' = IF cpc = "drain" THEN cErrors \cup {"read"} ELSE cErrors
    /\ Return
    /\ UNCHANGED <<shape, request, cWritesDone, cReadsDone, cbuf, got, result,
                   seen, gaveUp, ended, feed, handler, response, peer>>

\* A transport error: read() throws and leaves the stream as it is; finish() ends
\* its drain and keeps the error.
ReadError ==
    /\ NeedsData /\ peer = "reset"
    /\ IF cpc = "read" THEN UNCHANGED <<cReadsDone, cErrors>>
       ELSE cReadsDone' = TRUE /\ cErrors' = cErrors \cup {"read"}
    /\ Return
    /\ UNCHANGED <<shape, request, cWritesDone, cbuf, got, result, seen, gaveUp,
                   ended, feed, handler, response, peer>>

\* What errorToStatusCode() makes of the errors; "INTERNAL" stands for whatever
\* status a transport error maps to.
ErrorStatus == IF "limit" \in cErrors THEN "RESOURCE_EXHAUSTED" ELSE "INTERNAL"

\* finish(): parseCallStatus() takes a response without a status for OK, and a
\* local error only replaces an OK.
FinishStatus ==
    /\ cpc = "drain" /\ cReadsDone
    /\ seen' \in IF ended THEN {trailers} ELSE {"none", trailers}
    /\ result' = IF seen' \notin {"none", "OK"} THEN seen'
                 ELSE IF cErrors # {} THEN ErrorStatus ELSE "OK"
    /\ cpc' = "over"
    /\ UNCHANGED <<shape, request, cWritesDone, cReadsDone, cbuf, cErrors, got,
                   gaveUp, ended, feed, handler, response, peer>>

\* GrpcClient.call() throws, or answers for a response that is too large.
UnaryFails ==
    /\ cpc = "unary" /\ cpc' = "over"
    /\ \/ /\ peer = "reset" \/ ("codec" \in Faults /\ trailers = "OK")
          /\ result' = "GRPC-ERROR"
       \/ /\ "limit" \in Faults /\ resp # <<>>
          /\ result' = "RESOURCE_EXHAUSTED"
    /\ UNCHANGED <<shape, request, cWritesDone, cReadsDone, cbuf, cErrors, got,
                   seen, gaveUp, ended, feed, handler, response, peer>>

\* ... and parseResponse(), whose response is whole: the status, then the message of OK
UnaryResponse ==
    /\ cpc = "unary" /\ peer = "open" /\ trailers # "none"
    /\ seen' = trailers
    /\ cbuf' = Add(cbuf, AllOf(resp))
    /\ IF trailers = "OK" /\ HasFrame(resp, cbuf', MaxMessageSize)
       THEN got' = <<MessageAt(resp, cbuf')>> /\ cpc' = "decoded" /\ UNCHANGED result
       ELSE /\ result' = IF trailers = "OK" THEN "RESOURCE_EXHAUSTED" ELSE trailers
            /\ cpc' = "over" /\ UNCHANGED got
    /\ UNCHANGED <<shape, request, cWritesDone, cReadsDone, cErrors,
                   gaveUp, ended, feed, handler, response, peer>>

UnaryReturns ==
    /\ cpc = "decoded"
    /\ result' = seen /\ cpc' = "over"
    /\ UNCHANGED <<shape, request, cWritesDone, cReadsDone, cbuf, cErrors, got,
                   seen, gaveUp, ended, feed, handler, response, peer>>

ClientStep ==
    \/ ReadMessage \/ ReadTooLarge \/ ReadData \/ ReadEndStream \/ ReadTimeout
    \/ ReadError \/ FinishStatus \/ UnaryFails \/ UnaryResponse \/ UnaryReturns

Application == (\E n \in Sizes : Write(n)) \/ WritesDone \/ Read \/ Finish \/ Cancel

-----------------------------------------------------------------------------
\* The HTTP/2 stream and the server's I/O thread

\* An item of the body queue: data, END_STREAM's sentinel or the error of a body over
\* the limit, with the offset reached.
Item(kind, to) == [is |-> kind, to |-> to]

\* The bytes up to a cut arrive; a queue with an error set takes no more.
IoData ==
    /\ \E to \in Cuts(written) :
          /\ to > fed /\ fed' = to
          /\ Len(inq) < MaxQueued
          /\ inq' = IF queueOpen THEN Append(inq, Item("data", to)) ELSE inq
    /\ UNCHANGED <<shape, request, client, queueOpen, handler, response, peer>>

\* END_STREAM; a stream the client has reset may look the same to the reader.
IoEnd ==
    /\ queueOpen
    /\ \/ upEnd = "closed" /\ fed = AllOf(written)
       \/ upEnd = "reset"
    /\ inq' = Append(inq, Item("end", fed)) /\ queueOpen' = FALSE
    /\ UNCHANGED <<shape, request, client, fed, handler, response, peer>>

\* The data queued and not read passes the listener's limit.
IoTooLarge ==
    /\ queueOpen /\ MaxRequestBody > 0
    /\ AllOf(written) - sbuf.to > MaxRequestBody
    /\ inq' = Append(inq, Item("too_large", fed)) /\ queueOpen' = FALSE
    /\ UNCHANGED <<shape, request, client, fed, handler, response, peer>>

Reset ==
    /\ "reset" \in Faults /\ peer = "open" /\ trailers = "none"
    /\ peer' = "reset"
    /\ UNCHANGED <<shape, request, client, feed, handler, response>>

-----------------------------------------------------------------------------
\* The server's dispatch: onHttpRequest()

Dispatch ==
    /\ spc = "arrive"
    /\ \/ /\ "unknown" \in Faults
          /\ status' = "UNIMPLEMENTED" /\ spc' = "refuse"
       \/ /\ spc' = IF shape \in Streams THEN "handler" ELSE "body"
          /\ UNCHANGED status
    /\ UNCHANGED <<shape, request, client, feed, sbuf, sReadsDone, handled,
                   sEnded, response, peer>>

Refuse(s) == status' = s /\ spc' = "refuse"

\* extractBody() takes an item of the body queue and checks what it has so far.
BodyChunk ==
    /\ spc = "body" /\ inq # <<>> /\ Head(inq).is = "data"
    /\ sbuf' = Add(sbuf, Head(inq).to)
    /\ IF \/ MaxRequestBody > 0 /\ sbuf'.to > MaxRequestBody
          \/ TooLong(written, sbuf', MaxMessageSize)
       THEN Refuse("RESOURCE_EXHAUSTED") /\ queueOpen' = FALSE
       ELSE UNCHANGED <<spc, status, queueOpen>>
    /\ inq' = Tail(inq)
    /\ UNCHANGED <<shape, request, client, fed, sReadsDone, handled, sEnded, response, peer>>

BodyTooLarge ==
    /\ spc = "body" /\ inq # <<>> /\ Head(inq).is = "too_large"
    /\ inq' = Tail(inq)
    /\ Refuse("RESOURCE_EXHAUSTED")
    /\ UNCHANGED <<shape, request, client, fed, queueOpen, sbuf, sReadsDone,
                   handled, sEnded, response, peer>>

\* QUEUE-TIMEOUT has no status of its own.
BodyTimeout ==
    /\ spc = "body" /\ inq = <<>>
    /\ Refuse("INTERNAL")
    /\ UNCHANGED <<shape, request, client, feed, sbuf, sReadsDone, handled,
                   sEnded, response, peer>>

\* unframeMessage() throws on a body that is cut short, decode() on one it can make
\* nothing of, and nothing catches it: the call gets no answer from here.
BodyEnd ==
    /\ spc = "body" /\ inq # <<>> /\ Head(inq).is = "end"
    /\ inq' = Tail(inq)
    /\ \/ /\ Size(sbuf) < HeaderSize
          /\ spc' = "handler" /\ UNCHANGED <<handled, sbuf>>
       \/ /\ HasFrame(written, sbuf, 0)
          /\ handled' = <<MessageAt(written, sbuf)>> /\ sbuf' = TakeFrame(written, sbuf)
          /\ spc' = "handler"
       \/ /\ Size(sbuf) >= HeaderSize /\ (HasFrame(written, sbuf, 0) => "codec" \in Faults)
          /\ spc' = "escaped" /\ UNCHANGED <<handled, sbuf>>
    /\ sEnded' = (spc' = "handler")
    /\ UNCHANGED <<shape, request, client, fed, queueOpen, sReadsDone, status, response, peer>>

-----------------------------------------------------------------------------
\* The handler, and the GrpcServerStream methods it calls

\* A frame on a stream that has been reset goes nowhere.
Submit(frames) ==
    wire' = IF peer = "reset" \/ upEnd = "reset" THEN wire ELSE wire \o frames

HandlerReads ==
    /\ spc = "handler" /\ shape \in Streams
    /\ spc' = "read"
    /\ UNCHANGED <<shape, request, client, feed, sbuf, sReadsDone, handled,
                   sEnded, status, response, peer>>

\* Mutant of EnsureHeaders: the flag is not looked at.
EnsureHeadersAgain == <<"headers">>

\* ensureHeadersSent()
EnsureHeaders == IF headersSent THEN <<>> ELSE <<"headers">>

HandlerWrites(n) ==
    /\ spc = "handler" /\ shape \in {"server", "bidi"} /\ Len(resp) < MaxDown[shape]
    /\ Submit(EnsureHeaders \o <<"data">>)
    /\ headersSent' = TRUE
    /\ resp' = IF wire' = wire THEN resp ELSE Framed(resp, n)
    /\ UNCHANGED <<shape, request, client, feed, spc, sbuf, sReadsDone, handled,
                   sEnded, status, trailers, peer>>

HandlerSendsMetadata ==
    /\ spc = "handler" /\ shape \in MetadataShapes /\ ~headersSent
    /\ Submit(<<"headers">>)
    /\ headersSent' = TRUE
    /\ UNCHANGED <<shape, request, client, feed, spc, sbuf, sReadsDone, handled,
                   sEnded, status, resp, trailers, peer>>

HandlerEnds ==
    /\ spc = "handler"
    /\ status' \in HandlerEndings
    /\ spc' = "reply"
    /\ UNCHANGED <<shape, request, client, feed, sbuf, sReadsDone, handled,
                   sEnded, response, peer>>

ServerReading == spc = "read" /\ ~TooLong(written, sbuf, MaxMessageSize)

ServerReadMessage ==
    /\ ServerReading /\ HasFrame(written, sbuf, MaxMessageSize)
    /\ sbuf' = TakeFrame(written, sbuf)
    /\ IF FrameLength(written, sbuf) = 0 THEN UNCHANGED <<handled, spc>>
       ELSE handled' = Append(handled, MessageAt(written, sbuf)) /\ spc' = "handler"
    /\ UNCHANGED <<shape, request, client, feed, sReadsDone, sEnded, status, response, peer>>

\* read() throws; the handler lets the exception go, or catches it and goes on.
ReadThrows ==
    \/ status' = "RESOURCE_EXHAUSTED" /\ spc' = "reply"
    \/ spc' = "handler" /\ UNCHANGED status

ServerReadTooLarge ==
    /\ spc = "read" /\ TooLong(written, sbuf, MaxMessageSize)
    /\ queueOpen' = FALSE /\ sReadsDone' = TRUE /\ sbuf' = Clear(sbuf)
    /\ ReadThrows
    /\ UNCHANGED <<shape, request, client, fed, inq, handled, sEnded,
                   response, peer>>

ServerNeedsData == ServerReading /\ ~HasFrame(written, sbuf, MaxMessageSize)

ServerReadNothing ==
    /\ ServerNeedsData /\ sReadsDone
    /\ spc' = "handler"
    /\ UNCHANGED <<shape, request, client, feed, sbuf, sReadsDone, handled,
                   sEnded, status, response, peer>>

ServerTakeItem == ServerNeedsData /\ ~sReadsDone /\ inq # <<>> /\ inq' = Tail(inq)

ServerReadChunk ==
    /\ ServerTakeItem /\ Head(inq).is = "data"
    /\ sbuf' = Add(sbuf, Head(inq).to)
    /\ UNCHANGED <<shape, request, client, fed, queueOpen, spc, sReadsDone,
                   handled, sEnded, status, response, peer>>

ServerReadEnd ==
    /\ ServerTakeItem /\ Head(inq).is = "end"
    /\ sReadsDone' = TRUE /\ sEnded' = TRUE /\ sbuf' = Clear(sbuf)
    /\ spc' = "handler"
    /\ UNCHANGED <<shape, request, client, fed, queueOpen, handled, status, response, peer>>

ServerReadBodyError ==
    /\ ServerTakeItem /\ Head(inq).is = "too_large"
    /\ sReadsDone' = TRUE /\ sbuf' = Clear(sbuf)
    /\ ReadThrows
    /\ UNCHANGED <<shape, request, client, fed, queueOpen, handled, sEnded, response, peer>>

\* Mutant of ServerReadTimeout: the queue is read without a timeout.
ServerReadForever == FALSE /\ UNCHANGED vars

ServerReadTimeout ==
    /\ ServerNeedsData /\ ~sReadsDone
    /\ spc' = "handler"
    /\ UNCHANGED <<shape, request, client, feed, sbuf, sReadsDone, handled,
                   sEnded, status, response, peer>>

\* The single response of a method that does not stream: its headers and message,
\* unless encode() throws on what the handler returned, which nothing catches.
SendResponse ==
    /\ spc = "reply" /\ shape \in SingleResponse /\ status = "OK"
    /\ \/ /\ Submit(<<"headers", "data">>)
          /\ \E n \in Sizes : resp' = IF wire' = wire THEN resp ELSE Framed(<<>>, n)
          /\ headersSent' = TRUE /\ spc' = "trailers"
       \/ /\ "codec" \in Faults /\ spc' = "escaped"
          /\ UNCHANGED <<headersSent, resp, wire>>
    /\ UNCHANGED <<shape, request, client, feed, sbuf, sReadsDone, handled,
                   sEnded, status, trailers, peer>>

SubmitTrailers(before) ==
    /\ Submit(before \o <<"trailers">>)
    /\ trailers' = IF wire' = wire THEN "none" ELSE status
    /\ spc' = "gone"
    /\ UNCHANGED <<shape, request, client, feed, sbuf, sReadsDone, handled,
                   sEnded, status, headersSent, resp, peer>>

SendTrailers ==
    \/ spc = "trailers" /\ SubmitTrailers(<<>>)
    \/ spc = "reply" /\ shape \notin SingleResponse /\ SubmitTrailers(EnsureHeaders)

SendGrpcError ==
    /\ \/ spc = "refuse"
       \/ spc = "reply" /\ shape \in SingleResponse /\ status # "OK"
    /\ SubmitTrailers(<<"headers">>)

Handler ==
    \/ HandlerReads \/ HandlerSendsMetadata \/ HandlerEnds
    \/ \E n \in Sizes : HandlerWrites(n)

ServerStep ==
    \/ Dispatch \/ BodyChunk \/ BodyTooLarge \/ BodyTimeout \/ BodyEnd
    \/ Handler \/ ServerReadMessage \/ ServerReadTooLarge \/ ServerReadNothing
    \/ ServerReadChunk \/ ServerReadEnd \/ ServerReadBodyError \/ ServerReadTimeout
    \/ SendResponse \/ SendTrailers \/ SendGrpcError

Next ==
    \/ Application \/ ClientStep
    \/ IoData \/ IoEnd \/ IoTooLarge \/ Reset
    \/ ServerStep

Spec == Init /\ [][Next]_vars

\* A call the application is in goes on, and so does the server, whose handlers
\* return in the end; nothing obliges the application to call, or the outside to fail.
Fairness == WF_vars(ClientStep) /\ WF_vars(ServerStep) /\ SF_vars(HandlerEnds)

FairSpec == Spec /\ Fairness

-----------------------------------------------------------------------------
\* Properties

\* The types of the variables.
TypeOK ==
    /\ shape \in Shapes /\ {cWritesDone, cReadsDone, gaveUp, ended, queueOpen,
                            sReadsDone, headersSent, sEnded} \subseteq BOOLEAN
    /\ \A msgs \in {written, resp} :
          msgs \in Seq(Nat) /\ \A i \in 1..Len(msgs) : Length(msgs, i) \in Sizes
    /\ upEnd \in {"open", "closed", "reset"} /\ peer \in {"open", "reset"}
    /\ cpc \in {"idle", "read", "drain", "unary", "decoded", "over"}
    /\ cErrors \subseteq {"limit", "read", "close"}
    /\ result \in Statuses \cup {"none", "GRPC-ERROR"}
    /\ {seen, trailers} \subseteq Statuses \cup {"none"} /\ status \in Statuses
    /\ \A b \in {cbuf, sbuf} : b \in [at : Nat, to : Nat] /\ b.at <= b.to
    /\ fed \in 0..AllOf(written) /\ cbuf.to <= AllOf(resp) /\ sbuf.to <= fed
    /\ inq \in Seq([is : {"data", "end", "too_large"}, to : Nat])
    /\ spc \in {"arrive", "body", "handler", "read", "reply", "trailers", "refuse", "gone", "escaped"}
    /\ got \in Seq(Nat) /\ handled \in Seq(Nat)
    /\ wire \in Seq({"headers", "data", "trailers"})

FirstOf(n) == [i \in 1..n |-> i]

\* However the request is cut into DATA frames, whichever reads time out and whenever
\* they do, the handler gets the client's messages in order, none twice and none
\* skipped, and is not told the end before it has had them all (GrpcServerStream's
\* read() and tryParseFrame(), extractBody()).
RequestsArrive ==
    /\ handled = FirstOf(Len(handled))
    /\ sEnded /\ upEnd = "closed" => Len(handled) = Len(written)

\* The same of what the server sends and the application reads (GrpcClientStream's
\* read(), finish()'s drain, GrpcFrameBuffer).
ResponsesArrive ==
    /\ got = FirstOf(Len(got))
    /\ ended => Len(got) = Len(resp)

\* However the call fails and whatever the handler does, but that one with a single
\* response sends no initial metadata (handleClientStreamLive() and sendGrpcError()
\* submit the headers again, whether sendInitialMetadata() has sent them or not), the
\* server's answer is one HTTP/2 response: headers once and first, trailers once and
\* last, and a single message when the method has a single response
\* (ensureHeadersSent(), the four handle...() methods).
ResponseWellFormed ==
    /\ \A i \in 1..Len(wire) : /\ wire[i] = "headers" <=> i = 1
                               /\ wire[i] = "trailers" => i = Len(wire)
    /\ trailers = "OK" /\ shape \in SingleResponse => Len(resp) = 1

\* Every call that reaches the server is answered with a status, also when the client
\* neither sends nor closes (the timeouts of extractBody() and read()), unless the
\* stream itself is gone or an exception has left handleUnary(), handleServerStream()
\* or handleClientStreamLive() outside their try: from unframeMessage() or decode() of
\* the request, or from encode() of what the handler returned.
CallAnswered ==
    <>(trailers # "none" \/ peer = "reset" \/ upEnd = "reset" \/ spc = "escaped")

\* finish() returns once the server answers or the stream is reset, through partial
\* frames and messages over the limit (its drain, which reads on after a timeout: where
\* such an exception has left the dispatch it waits for what the listener does).
FinishReturns == cpc = "drain" ~> cpc = "over" \/ spc = "escaped"

Contract == INSTANCE CallContract WITH
    Verdicts <- Statuses \cup {"GRPC-ERROR"},
    sent <- Len(resp), closed <- (trailers # "none"), delivered <- Len(got),
    cancelled <- FALSE, verdict <- IF gaveUp THEN "none" ELSE result

\* Unless the application cancels it, a blocking call keeps the contract an
\* asynchronous one keeps: above all, OK is the server's own status, and reported
\* only after everything the server sent was read.
KeepsContract == Contract!Spec

=============================================================================
