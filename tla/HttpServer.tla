----------------------------- MODULE HttpServer -----------------------------
(***************************************************************************)
(* HttpContext and HttpServer::OnMessage of http.hpp on one connection:    *)
(* the parser that goes on where the last read left it, and the callback   *)
(* that answers, resets it, and may call Shutdown, which calls it again.   *)
(* The rest of the connection is as much of Connection as decides when     *)
(* OnMessage is called; its queued release is one step with its cause.     *)
(***************************************************************************)
EXTENDS HttpStream

CONSTANT Streams        \* what a client may send

ASSUME StreamsAssumption == Streams \subseteq Seq(Text)

VARIABLES
    stream,         \* what this client sends
    arrived,        \* how much of it has been read from the socket
    closed,         \* an end of file has been read
    in_buffer,      \* _in_buffer
    unsent,         \* _out_buffer is not empty, and EPOLLOUT asked for
    status,         \* _status of the connection
    recv_status,    \* _recv_status
    resp_status,    \* _resp_status
    request,        \* _request: what has been parsed so far
    pc,             \* where OnMessage is
    caller,         \* the handler that called it
    served,         \* history: the requests routed before the first error
    failed,         \* history: the status of the first error, 0 if none
    kept,           \* history: every answer so far said keep-alive
    burst           \* history: one read completed two requests, or one and a fault

parser == <<recv_status, resp_status, request>>
connection == <<arrived, closed, unsent, status, caller, burst>>
history == <<served, failed, kept>>
vars == <<stream, arrived, closed, in_buffer, unsent, status, recv_status, resp_status,
          request, pc, caller, served, failed, kept, burst>>

\* HttpRequest, and what a handler is given of it.
Request ==
    [resource : Resource \cup {Unknown}, length : {0, BodyLength},
     connection : {"none", "keep-alive", "other"}, body : Seq(Text)]
Served == [resource : Resource \cup {Unknown}, body : Seq(Text), keep : BOOLEAN]

\* HttpRequest::Reset; the length of a request is that of its Content-Length header.
NoRequest == [resource |-> Unknown, connection |-> "none", length |-> 0, body |-> <<>>]

Init ==
    /\ stream \in Streams /\ arrived = 0 /\ closed = FALSE
    /\ in_buffer = <<>> /\ unsent = FALSE /\ status = "CONNECTED"
    /\ recv_status = "LINE" /\ resp_status = 200 /\ request = NoRequest
    /\ pc = "idle" /\ caller = "HandleRead"
    /\ served = <<>> /\ failed = 0 /\ kept = TRUE /\ burst = FALSE

Arrived == SubSeq(stream, 1, arrived)

-----------------------------------------------------------------------------
(* Connection: the calls of OnMessage.                                     *)

\* What is complete or wrong in s.
Units(s) == Len(Requests(s)) + (IF Faulty(s, Remainder(s)) THEN 1 ELSE 0)

\* The next n items are read.
HandleRead(n) ==
    /\ pc = "idle" /\ status # "DISCONNECTED" /\ ~closed
    /\ arrived + n <= Len(stream)
    /\ arrived' = arrived + n
    /\ in_buffer' = in_buffer \o SubSeq(stream, arrived + 1, arrived + n)
    /\ pc' = "RecvHttpRequest" /\ caller' = "HandleRead"
    /\ burst' = (burst \/ Units(SubSeq(stream, 1, arrived + n)) > Units(Arrived) + 1)
    /\ UNCHANGED <<stream, closed, unsent, status, parser, history>>

\* ShutdownInLoop after the message callback.
Shut(st) == IF unsent THEN st ELSE "DISCONNECTED"

\* The client has sent its last byte and closed: reported until the release.
HandleEof ==
    /\ pc = "idle" /\ status # "DISCONNECTED"
    /\ closed' = TRUE
    /\ IF in_buffer # <<>>
       THEN status' = "DISCONNECTING" /\ pc' = "RecvHttpRequest" /\ caller' = "ShutdownInLoop"
       ELSE status' = Shut("DISCONNECTING") /\ UNCHANGED <<pc, caller>>
    /\ UNCHANGED <<stream, arrived, in_buffer, unsent, parser, history, burst>>

\* Part of the output is sent, or all of it, and then a closing connection is released.
HandleWrite ==
    /\ pc = "idle" /\ status # "DISCONNECTED" /\ unsent
    /\ unsent' \in BOOLEAN
    /\ status' = IF ~unsent' /\ status = "DISCONNECTING" THEN "DISCONNECTED" ELSE status
    /\ UNCHANGED <<stream, arrived, closed, in_buffer, pc, caller, parser, history, burst>>

-----------------------------------------------------------------------------
(* HttpContext: RecvHttpRequest, one line at a time.                       *)

NoLine == \A k \in 1 .. Len(in_buffer) : in_buffer[k] # "eol"

\* The line of n items, its eol included, leaves the buffer.
Getline(n) ==
    /\ n \in 1 .. Len(in_buffer) /\ in_buffer[n] = "eol"
    /\ \A k \in 1 .. n - 1 : in_buffer[k] # "eol"
    /\ in_buffer' = SubSeq(in_buffer, n + 1, Len(in_buffer))

Fail(code) ==
    /\ recv_status' = "ERROR" /\ resp_status' = code
    /\ pc' = "OnMessage"
    /\ UNCHANGED request

\* Mutant: a line of MAX_LINE bytes is refused while it is incomplete.
AwaitShorterLine ==
    /\ NoLine
    /\ IF Len(in_buffer) >= MaxLine
       THEN Fail(414)
       ELSE pc' = "OnMessage" /\ UNCHANGED parser
    /\ UNCHANGED in_buffer

\* What RecvHttpLine and RecvHttpHeader do before they parse.
AwaitLine ==
    /\ NoLine
    /\ IF Len(in_buffer) > MaxLine
       THEN Fail(414)
       ELSE pc' = "OnMessage" /\ UNCHANGED parser
    /\ UNCHANGED in_buffer

RecvHttpLine ==
    /\ pc = "RecvHttpRequest" /\ recv_status = "LINE"
    /\ \/ AwaitLine
       \/ \E n \in 1 .. Len(in_buffer) :
            /\ Getline(n)
            /\ LET line == SubSeq(in_buffer, 1, n - 1)
               IN  \/ n > MaxLine /\ Fail(414)
                   \/ n <= MaxLine /\ ~IsRequestLine(line) /\ Fail(400)
                   \/ /\ n <= MaxLine /\ IsRequestLine(line)
                      /\ request' = [request EXCEPT !.resource = Target(line)]
                      /\ recv_status' = "HEAD"
                      /\ UNCHANGED <<resp_status, pc>>
    /\ UNCHANGED <<stream, connection, history>>

\* Mutant: the last header of a name wins.
WithLastHeader(r, line) ==
    CASE line[1] = "length" -> [r EXCEPT !.length = BodyLength]
      [] line[1] = "keep" ->
            [r EXCEPT !.connection = IF Len(line) = 1 THEN "keep-alive" ELSE "other"]
      [] OTHER -> r

\* SetHeader inserts: the first header of a name stays.
WithHeader(r, line) ==
    CASE line[1] = "length" -> [r EXCEPT !.length = BodyLength]
      [] line[1] = "keep" /\ r.connection = "none" ->
            [r EXCEPT !.connection = IF Len(line) = 1 THEN "keep-alive" ELSE "other"]
      [] OTHER -> r

RecvHttpHeader ==
    /\ pc = "RecvHttpRequest" /\ recv_status = "HEAD"
    /\ \/ AwaitLine
       \/ \E n \in 1 .. Len(in_buffer) :
            /\ Getline(n)
            /\ LET line == SubSeq(in_buffer, 1, n - 1)
               IN  \/ n > MaxLine /\ Fail(414)
                   \/ n <= MaxLine /\ line = <<>>
                      /\ recv_status' = "BODY" /\ UNCHANGED <<resp_status, request, pc>>
                   \/ n <= MaxLine /\ line # <<>> /\ ~IsHeader(line) /\ Fail(400)
                   \/ /\ n <= MaxLine /\ line # <<>> /\ IsHeader(line)
                      /\ request' = WithHeader(request, line)
                      /\ UNCHANGED <<recv_status, resp_status, pc>>
    /\ UNCHANGED <<stream, connection, history>>

\* Mutant: the part already received is forgotten.
LackingAll == request.length

\* What the body still lacks.
Lacking == request.length - Len(request.body)

\* All that is there, up to what the body lacks.
RecvHttpBody ==
    /\ pc = "RecvHttpRequest" /\ recv_status = "BODY"
    /\ LET n == IF Len(in_buffer) < Lacking THEN Len(in_buffer) ELSE Lacking
       IN  /\ request' = [request EXCEPT !.body = @ \o SubSeq(in_buffer, 1, n)]
           /\ in_buffer' = SubSeq(in_buffer, n + 1, Len(in_buffer))
           /\ recv_status' = IF n = Lacking THEN "OVER" ELSE "BODY"
    /\ pc' = "OnMessage"
    /\ UNCHANGED <<stream, resp_status, connection, history>>

-----------------------------------------------------------------------------
(* HttpServer: the rest of OnMessage.                                      *)

\* HttpContext::Reset.
Reset == recv_status' = "LINE" /\ resp_status' = 200 /\ request' = NoRequest

Done(r) == [resource |-> r.resource, body |-> r.body, keep |-> r.connection = "keep-alive"]

\* Mutant: neither is the context reset nor the input dropped, so that Shutdown hands it
\* to OnMessage, which finds the error again.
AnswerErrorAgain ==
    /\ pc = "OnMessage" /\ resp_status >= 400
    /\ unsent' = TRUE
    /\ kept' = (kept /\ Done(request).keep)
    /\ failed' = IF failed = 0 THEN resp_status ELSE failed
    /\ status' = "DISCONNECTING"
    /\ pc' = IF in_buffer = <<>> THEN "idle" ELSE "OnMessage"
    /\ UNCHANGED <<stream, arrived, closed, in_buffer, parser, caller, served, burst>>

\* Answered with an error; the input is dropped, and Shutdown finds none.
AnswerError ==
    /\ pc = "OnMessage" /\ resp_status >= 400
    /\ unsent' = TRUE
    /\ kept' = (kept /\ Done(request).keep)
    /\ failed' = IF failed = 0 THEN resp_status ELSE failed
    /\ Reset
    /\ in_buffer' = <<>>
    /\ status' = "DISCONNECTING"
    /\ pc' = "idle"
    /\ UNCHANGED <<stream, arrived, closed, caller, served, burst>>

\* Mutant: OnMessage goes on while the buffer is not empty.
AwaitMoreInput ==
    /\ pc = "OnMessage" /\ resp_status < 400 /\ recv_status # "OVER"
    /\ pc' = IF in_buffer = <<>> THEN "idle" ELSE "RecvHttpRequest"
    /\ status' = IF caller = "ShutdownInLoop" THEN Shut(status) ELSE status
    /\ UNCHANGED <<stream, arrived, closed, in_buffer, unsent, parser, caller, history, burst>>

\* No whole request yet: OnMessage returns.
AwaitMore ==
    /\ pc = "OnMessage" /\ resp_status < 400 /\ recv_status # "OVER"
    /\ pc' = "idle"
    /\ status' = IF caller = "ShutdownInLoop" THEN Shut(status) ELSE status
    /\ UNCHANGED <<stream, arrived, closed, in_buffer, unsent, parser, caller, history, burst>>

\* Mutant: the request is asked, which Reset has cleared.
KeepsOpenAfterReset == NoRequest.connection = "keep-alive"

\* rsp.Close(): the header that WriteResponse took from the request.
KeepsOpen == Done(request).keep

\* Routed and answered; without keep-alive, Shutdown hands what is left to OnMessage.
AnswerRequest ==
    /\ pc = "OnMessage" /\ resp_status < 400 /\ recv_status = "OVER"
    /\ served' = IF failed = 0 THEN Append(served, Done(request)) ELSE served
    /\ unsent' = TRUE
    /\ kept' = (kept /\ Done(request).keep)
    /\ Reset
    /\ IF KeepsOpen
       THEN pc' = "idle" /\ UNCHANGED <<status, caller>>
       ELSE /\ status' = "DISCONNECTING"
            /\ IF in_buffer = <<>>
               THEN pc' = "idle" /\ UNCHANGED caller
               ELSE pc' = "RecvHttpRequest" /\ caller' = "ShutdownInLoop"
    /\ UNCHANGED <<stream, arrived, closed, in_buffer, failed, burst>>

-----------------------------------------------------------------------------
OnMessage ==
    \/ RecvHttpLine \/ RecvHttpHeader \/ RecvHttpBody
    \/ AnswerError \/ AwaitMore \/ AnswerRequest

Next ==
    \/ \E n \in 1 .. Len(stream) : HandleRead(n)
    \/ HandleEof \/ HandleWrite
    \/ OnMessage

Safe == Init /\ [][Next]_vars

\* Each step of a handler returns.
Spec == Safe /\ WF_vars(OnMessage)

-----------------------------------------------------------------------------
(* Properties.                                                             *)

\* The types of the variables.
TypeOK ==
    /\ stream \in Seq(Text) /\ arrived \in 0 .. Len(stream)
    /\ in_buffer \in Seq(Text)
    /\ closed \in BOOLEAN /\ unsent \in BOOLEAN /\ kept \in BOOLEAN /\ burst \in BOOLEAN
    /\ status \in {"CONNECTED", "DISCONNECTING", "DISCONNECTED"}
    /\ recv_status \in {"LINE", "HEAD", "BODY", "OVER", "ERROR"}
    /\ resp_status \in {200, 400, 414} /\ failed \in {0, 400, 414}
    /\ request \in Request /\ Len(request.body) <= request.length
    /\ pc \in {"idle", "RecvHttpRequest", "OnMessage"}
    /\ caller \in {"HandleRead", "ShutdownInLoop"}
    /\ served \in Seq(Served)

\* However the bytes are cut, the requests routed are the requests of the stream, in its
\* order, with their bodies: the context carries nothing over, and loses nothing.
ServedInOrder ==
    LET r == Requests(Arrived)
    IN  Len(served) <= Len(r) /\ served = SubSeq(r, 1, Len(served))

\* An error is answered only when the bytes after the requests served are wrong whatever
\* may follow, with the status their first wrong line deserves, and after every request
\* before it has been served.
ErrorIsReal ==
    failed # 0 =>
        /\ served = Requests(Arrived)
        /\ Faulty(Arrived, Remainder(Arrived))
        /\ failed = FaultStatus(Arrived, Remainder(Arrived))

\* When OnMessage has returned no complete request waits, nor a fault, unless one read
\* brought two at once: only then does one call per read not suffice.
NothingWaits ==
    pc = "idle" /\ ~burst /\ failed = 0 =>
        served = Requests(Arrived) /\ ~Faulty(Arrived, Remainder(Arrived))

\* While the client keeps its side open, the server ends the connection exactly when it
\* has said so in the Connection header of an answer.
ClosesAsAnnounced ==
    pc = "idle" /\ ~closed /\ failed = 0 => (status = "CONNECTED" <=> kept)

\* What is left to do for OnMessage: the input first, then where it stands.
Weight ==
    CASE pc = "RecvHttpRequest" -> IF recv_status = "BODY" THEN 4 ELSE 2
      [] pc = "OnMessage" -> IF recv_status = "OVER" THEN 3 ELSE 1
      [] pc = "idle" -> 0

Rank == 5 * Len(in_buffer) + Weight

\* Every step of OnMessage leaves less to do, so that the calls of Shutdown and
\* OnMessage nest no deeper than the input is long.
Descends == [][pc # "idle" => Rank' < Rank]_vars

\* OnMessage and Shutdown call each other, but not for ever.
Returns == pc # "idle" ~> pc = "idle"
=============================================================================
