-------------------------- MODULE HttpServer_proofs --------------------------
(***************************************************************************)
(* Proofs about HttpServer, for every stream, limit and resource: the type *)
(* invariant; that the server closes exactly when it has said so; that     *)
(* OnMessage descends; and that the parser, however the stream is cut,     *)
(* finds the requests of HttpStream and its first fault.                   *)
(***************************************************************************)
EXTENDS HttpServer, Positions

\* What is left of the input after n items is input.
LEMMA RestIsText ==
  ASSUME NEW s \in Seq(Text), NEW n \in Nat
  PROVE  /\ SubSeq(s, n + 1, Len(s)) \in Seq(Text)
         /\ n <= Len(s) => SubSeq(s, 1, n) \in Seq(Text) /\ Len(SubSeq(s, 1, n)) = n
OBVIOUS

\* The resource of a request line is one of the resources, or the unknown one.
LEMMA TargetType ==
  ASSUME NEW t \in Seq(Text), IsRequestLine(t)
  PROVE  Target(t) \in Resource \cup {Unknown}
BY DEF IsRequestLine, Target

\* The request that Reset leaves.
LEMMA NoRequestType == NoRequest \in Request /\ Len(NoRequest.body) <= NoRequest.length
<1>1. <<>> \in Seq(Text) /\ Len(<<>>) = 0
  OBVIOUS
<1> QED
  BY <1>1 DEF NoRequest, Request

\* Taking a line leaves input, and the line is input.
LEMMA GetlineType ==
  ASSUME TypeOK, NEW n \in 1 .. Len(in_buffer), Getline(n)
  PROVE  in_buffer' \in Seq(Text) /\ SubSeq(in_buffer, 1, n - 1) \in Seq(Text)
<1>1. in_buffer \in Seq(Text) /\ n \in Nat /\ n - 1 \in Nat /\ n - 1 <= Len(in_buffer)
  BY DEF TypeOK
<1>2. SubSeq(in_buffer, n + 1, Len(in_buffer)) \in Seq(Text)
      /\ SubSeq(in_buffer, 1, n - 1) \in Seq(Text)
  BY <1>1, RestIsText
<1> QED
  BY <1>2 DEF Getline

\* A header line may set the connection of a request, and raise its length.
LEMMA WithHeaderType ==
  ASSUME NEW r \in Request, NEW line
  PROVE  /\ WithHeader(r, line) \in Request
         /\ WithHeader(r, line).body = r.body
         /\ WithHeader(r, line).length >= r.length
<1> USE BodyLengthAssumption
<1>1. CASE line[1] = "length"
  BY <1>1 DEF WithHeader, Request
<1>2. CASE line[1] # "length" /\ line[1] = "keep" /\ r.connection = "none"
  BY <1>2 DEF WithHeader, Request
<1>3. CASE line[1] # "length" /\ ~(line[1] = "keep" /\ r.connection = "none")
  BY <1>3 DEF WithHeader, Request
<1> QED
  BY <1>1, <1>2, <1>3

\* A failure keeps the types of the parser.
LEMMA FailType ==
  ASSUME TypeOK, NEW code \in {400, 414}, Fail(code)
  PROVE  /\ recv_status' \in {"LINE", "HEAD", "BODY", "OVER", "ERROR"}
         /\ resp_status' \in {200, 400, 414}
         /\ request' = request
         /\ pc' = "OnMessage"
BY DEF Fail

\* The first step of RecvHttpLine and RecvHttpHeader keeps the types of the parser.
LEMMA AwaitLineType ==
  ASSUME TypeOK, AwaitLine
  PROVE  /\ in_buffer' = in_buffer
         /\ recv_status' \in {"LINE", "HEAD", "BODY", "OVER", "ERROR"}
         /\ resp_status' \in {200, 400, 414}
         /\ request' = request
         /\ pc' = "OnMessage"
<1>1. CASE Fail(414)
  BY <1>1, FailType DEF AwaitLine
<1>2. CASE pc' = "OnMessage" /\ UNCHANGED parser
  BY <1>2 DEF AwaitLine, parser, TypeOK
<1> QED
  BY <1>1, <1>2 DEF AwaitLine

\* What a step of the parser leaves alone.
LEMMA ParserStepType ==
  ASSUME TypeOK, UNCHANGED <<stream, connection, history>>,
         in_buffer' \in Seq(Text),
         recv_status' \in {"LINE", "HEAD", "BODY", "OVER", "ERROR"},
         resp_status' \in {200, 400, 414},
         request' \in Request, Len(request'.body) <= request'.length,
         pc' \in {"RecvHttpRequest", "OnMessage"}
  PROVE  TypeOK'
BY DEF TypeOK, connection, history

\* RecvHttpLine keeps the types.
LEMMA RecvHttpLineType ==
  ASSUME TypeOK, RecvHttpLine
  PROVE  TypeOK'
<1>1. UNCHANGED <<stream, connection, history>>
  BY DEF RecvHttpLine
<1>2. request \in Request /\ Len(request.body) <= request.length /\ in_buffer \in Seq(Text)
  BY DEF TypeOK
<1>3. CASE AwaitLine
  BY <1>1, <1>2, <1>3, AwaitLineType, ParserStepType
<1>4. ASSUME NEW n \in 1 .. Len(in_buffer), Getline(n),
             Fail(400) \/ Fail(414)
      PROVE  TypeOK'
  <2>1. in_buffer' \in Seq(Text)
    BY <1>4, GetlineType
  <2> QED
    BY <1>1, <1>2, <1>4, <2>1, FailType, ParserStepType
<1>5. ASSUME NEW n \in 1 .. Len(in_buffer), Getline(n),
             IsRequestLine(SubSeq(in_buffer, 1, n - 1)),
             request' = [request EXCEPT !.resource = Target(SubSeq(in_buffer, 1, n - 1))],
             recv_status' = "HEAD", UNCHANGED <<resp_status, pc>>
      PROVE  TypeOK'
  <2>1. in_buffer' \in Seq(Text) /\ SubSeq(in_buffer, 1, n - 1) \in Seq(Text)
    BY <1>5, GetlineType
  <2>2. Target(SubSeq(in_buffer, 1, n - 1)) \in Resource \cup {Unknown}
    BY <1>5, <2>1, TargetType
  <2>3. request' \in Request /\ request'.body = request.body /\ request'.length = request.length
    BY <1>2, <1>5, <2>2 DEF Request
  <2>4. resp_status' \in {200, 400, 414} /\ pc' \in {"RecvHttpRequest", "OnMessage"}
    BY <1>5 DEF TypeOK, RecvHttpLine
  <2> QED
    BY <1>1, <1>2, <1>5, <2>1, <2>3, <2>4, ParserStepType
<1> QED
  BY <1>3, <1>4, <1>5 DEF RecvHttpLine

\* RecvHttpHeader keeps the types.
LEMMA RecvHttpHeaderType ==
  ASSUME TypeOK, RecvHttpHeader
  PROVE  TypeOK'
<1>1. UNCHANGED <<stream, connection, history>> /\ pc = "RecvHttpRequest"
  BY DEF RecvHttpHeader
<1>2. request \in Request /\ Len(request.body) <= request.length /\ in_buffer \in Seq(Text)
      /\ resp_status \in {200, 400, 414}
      /\ recv_status \in {"LINE", "HEAD", "BODY", "OVER", "ERROR"}
  BY DEF TypeOK
<1>3. CASE AwaitLine
  BY <1>1, <1>2, <1>3, AwaitLineType, ParserStepType
<1>4. ASSUME NEW n \in 1 .. Len(in_buffer), Getline(n),
             Fail(400) \/ Fail(414)
      PROVE  TypeOK'
  <2>1. in_buffer' \in Seq(Text)
    BY <1>4, GetlineType
  <2> QED
    BY <1>1, <1>2, <1>4, <2>1, FailType, ParserStepType
<1>5. ASSUME NEW n \in 1 .. Len(in_buffer), Getline(n),
             recv_status' = "BODY", UNCHANGED <<resp_status, request, pc>>
      PROVE  TypeOK'
  <2>1. in_buffer' \in Seq(Text)
    BY <1>5, GetlineType
  <2> QED
    BY <1>1, <1>2, <1>5, <2>1, ParserStepType
<1>6. ASSUME NEW n \in 1 .. Len(in_buffer), Getline(n),
             request' = WithHeader(request, SubSeq(in_buffer, 1, n - 1)),
             UNCHANGED <<recv_status, resp_status, pc>>
      PROVE  TypeOK'
  <2>1. in_buffer' \in Seq(Text)
    BY <1>6, GetlineType
  <2>2. /\ request' \in Request /\ request'.body = request.body
        /\ request'.length >= request.length
    BY <1>2, <1>6, WithHeaderType
  <2>3. Len(request.body) \in Nat /\ request.length \in Nat /\ request'.length \in Nat
    BY <1>2, <2>2, BodyLengthAssumption DEF Request
  <2>4. Len(request'.body) <= request'.length
    BY <1>2, <2>2, <2>3
  <2> QED
    BY <1>1, <1>2, <1>6, <2>1, <2>2, <2>4, ParserStepType
<1> QED
  BY <1>3, <1>4, <1>5, <1>6 DEF RecvHttpHeader

\* RecvHttpBody keeps the types: it never takes more than the body lacks.
LEMMA RecvHttpBodyType ==
  ASSUME TypeOK, RecvHttpBody
  PROVE  TypeOK'
<1>1. request \in Request /\ Len(request.body) <= request.length /\ in_buffer \in Seq(Text)
  BY DEF TypeOK
<1>2. /\ request.length \in Nat /\ request.body \in Seq(Text) /\ Len(request.body) \in Nat
      /\ Len(in_buffer) \in Nat
  BY <1>1, BodyLengthAssumption DEF Request
<1>3. PICK n \in Nat : n = IF Len(in_buffer) < Lacking THEN Len(in_buffer) ELSE Lacking
  BY <1>1, <1>2 DEF Lacking
<1>4. n <= Len(in_buffer) /\ n <= request.length - Len(request.body)
  BY <1>1, <1>2, <1>3 DEF Lacking
<1>5. /\ SubSeq(in_buffer, n + 1, Len(in_buffer)) \in Seq(Text)
      /\ SubSeq(in_buffer, 1, n) \in Seq(Text) /\ Len(SubSeq(in_buffer, 1, n)) = n
  BY <1>1, <1>3, <1>4, RestIsText
<1>6. /\ request' = [request EXCEPT !.body = @ \o SubSeq(in_buffer, 1, n)]
      /\ in_buffer' = SubSeq(in_buffer, n + 1, Len(in_buffer))
      /\ recv_status' \in {"OVER", "BODY"}
      /\ pc' = "OnMessage"
      /\ UNCHANGED <<stream, resp_status, connection, history>>
  BY <1>3 DEF RecvHttpBody
<1>7. /\ request.body \o SubSeq(in_buffer, 1, n) \in Seq(Text)
      /\ Len(request.body \o SubSeq(in_buffer, 1, n)) = Len(request.body) + n
  BY <1>2, <1>5, ConcatProperties
<1>8. /\ request' \in Request /\ request'.length = request.length
      /\ request'.body = request.body \o SubSeq(in_buffer, 1, n)
  BY <1>1, <1>6, <1>7 DEF Request
<1>9. Len(request'.body) <= request'.length
  BY <1>2, <1>3, <1>4, <1>7, <1>8
<1>10. resp_status' \in {200, 400, 414}
  BY <1>6 DEF TypeOK
<1> QED
  BY <1>5, <1>6, <1>8, <1>9, <1>10, ParserStepType

\* What a handler is given of a request.
LEMMA DoneType == TypeOK => Done(request) \in Served /\ Done(request).keep \in BOOLEAN
<1>1. ASSUME request \in Request PROVE Done(request) \in Served
  BY <1>1 DEF Request, Done, Served
<1> QED
  BY <1>1 DEF TypeOK, Served

\* The type invariant; no body is longer than its Content-Length.
THEOREM TypeCorrect == Safe => []TypeOK
<1>1. Init => TypeOK
  <2> SUFFICES ASSUME Init PROVE TypeOK
    OBVIOUS
  <2>1. stream \in Seq(Text) /\ arrived \in 0 .. Len(stream)
    BY StreamsAssumption DEF Init
  <2>2. <<>> \in Seq(Text) /\ <<>> \in Seq(Served)
    OBVIOUS
  <2> QED
    BY <2>1, <2>2, NoRequestType DEF Init, TypeOK
<1>2. TypeOK /\ [Next]_vars => TypeOK'
  <2> SUFFICES ASSUME TypeOK, [Next]_vars PROVE TypeOK'
    OBVIOUS
  <2>1. ASSUME NEW n \in 1 .. Len(stream), HandleRead(n) PROVE TypeOK'
    <3>1. stream \in Seq(Text) /\ arrived \in Nat /\ n \in Nat /\ arrived + n <= Len(stream)
          /\ in_buffer \in Seq(Text)
      BY <2>1 DEF HandleRead, TypeOK
    <3>2. SubSeq(stream, arrived + 1, arrived + n) \in Seq(Text)
      BY <3>1
    <3>3. in_buffer' \in Seq(Text)
      BY <2>1, <3>1, <3>2, ConcatProperties DEF HandleRead
    <3>4. arrived' \in 0 .. Len(stream)
      BY <2>1, <3>1 DEF HandleRead
    <3>5. burst' \in BOOLEAN
      BY <2>1 DEF HandleRead
    <3> QED
      BY <2>1, <3>3, <3>4, <3>5 DEF HandleRead, TypeOK, parser, history
  <2>2. CASE HandleEof
    BY <2>2 DEF HandleEof, Shut, TypeOK, parser, history
  <2>3. CASE HandleWrite
    BY <2>3 DEF HandleWrite, TypeOK, parser, history
  <2>4. CASE RecvHttpLine
    BY <2>4, RecvHttpLineType
  <2>5. CASE RecvHttpHeader
    BY <2>5, RecvHttpHeaderType
  <2>6. CASE RecvHttpBody
    BY <2>6, RecvHttpBodyType
  <2>7. CASE AnswerError
    <3>1. kept' \in BOOLEAN
      BY <2>7 DEF AnswerError
    <3>2. failed' \in {0, 400, 414}
      BY <2>7 DEF AnswerError, TypeOK
    <3>3. <<>> \in Seq(Text)
      OBVIOUS
    <3> QED
      BY <2>7, <3>1, <3>2, <3>3, NoRequestType DEF AnswerError, Reset, TypeOK
  <2>8. CASE AwaitMore
    BY <2>8 DEF AwaitMore, Shut, TypeOK, parser, history
  <2>9. CASE AnswerRequest
    <3>1. kept' \in BOOLEAN
      BY <2>9 DEF AnswerRequest
    <3>2. served' \in Seq(Served)
      <4>1. Done(request) \in Served /\ served \in Seq(Served)
        BY DoneType DEF TypeOK
      <4> QED
        BY <2>9, <4>1 DEF AnswerRequest
    <3>3. /\ status' \in {"CONNECTED", "DISCONNECTING", "DISCONNECTED"}
          /\ pc' \in {"idle", "RecvHttpRequest", "OnMessage"}
          /\ caller' \in {"HandleRead", "ShutdownInLoop"}
      BY <2>9 DEF AnswerRequest, TypeOK
    <3> QED
      BY <2>9, <3>1, <3>2, <3>3, NoRequestType DEF AnswerRequest, Reset, TypeOK
  <2>10. CASE UNCHANGED vars
    BY <2>10 DEF vars, TypeOK
  <2> QED
    BY <2>1, <2>2, <2>3, <2>4, <2>5, <2>6, <2>7, <2>8, <2>9, <2>10 DEF Next, OnMessage
<1> QED
  BY <1>1, <1>2, PTL DEF Safe

-----------------------------------------------------------------------------
(* The end of a connection is the one announced.                           *)

\* ClosesAsAnnounced inside the handlers too, and that only a closing connection
\* is handed to OnMessage by Shutdown.
Announced ==
    ~closed /\ failed = 0 =>
        /\ status = "CONNECTED" <=> kept
        /\ pc # "idle" /\ caller = "ShutdownInLoop" => status # "CONNECTED"

\* While the client keeps its side open, the server ends the connection exactly when it
\* has said so in the Connection header of an answer.
THEOREM ClosedAsAnnounced == Safe => []ClosesAsAnnounced
<1>1. Init => Announced
  BY DEF Init, Announced
<1>2. TypeOK /\ Announced /\ [Next]_vars => Announced'
  <2> SUFFICES ASSUME TypeOK, Announced, [Next]_vars PROVE Announced'
    OBVIOUS
  <2> USE DEF Announced
  <2>1. ASSUME NEW n \in 1 .. Len(stream), HandleRead(n) PROVE Announced'
    BY <2>1 DEF HandleRead, history
  <2>2. CASE HandleEof
    BY <2>2 DEF HandleEof
  <2>3. CASE HandleWrite
    BY <2>3 DEF HandleWrite, history
  <2>4. CASE RecvHttpLine
    BY <2>4 DEF RecvHttpLine, connection, history
  <2>5. CASE RecvHttpHeader
    BY <2>5 DEF RecvHttpHeader, connection, history
  <2>6. CASE RecvHttpBody
    BY <2>6 DEF RecvHttpBody, connection, history
  <2>7. CASE AnswerError
    <3>1. failed' # 0
      BY <2>7 DEF AnswerError, TypeOK
    <3> QED
      BY <3>1
  <2>8. CASE AwaitMore
    BY <2>8 DEF AwaitMore, Shut, history
  <2>9. CASE AnswerRequest
    <3>1. CASE KeepsOpen
      BY <2>9, <3>1 DEF AnswerRequest, KeepsOpen
    <3>2. CASE ~KeepsOpen
      BY <2>9, <3>2 DEF AnswerRequest, KeepsOpen
    <3> QED
      BY <3>1, <3>2
  <2>10. CASE UNCHANGED vars
    BY <2>10 DEF vars
  <2> QED
    BY <2>1, <2>2, <2>3, <2>4, <2>5, <2>6, <2>7, <2>8, <2>9, <2>10 DEF Next, OnMessage
<1>3. Announced => ClosesAsAnnounced
  BY DEF Announced, ClosesAsAnnounced
<1> QED
  BY <1>1, <1>2, <1>3, TypeCorrect, PTL DEF Safe

-----------------------------------------------------------------------------
(* OnMessage ends.                                                         *)

\* Less input weighs more than any progress of the parser.
LEMMA RankFalls ==
  ASSUME NEW m \in Nat, NEW n \in Nat, NEW v \in 0 .. 4, NEW w \in 0 .. 4,
         n < m \/ (n = m /\ v < w)
  PROVE  5 * n + v < 5 * m + w
OBVIOUS

\* A line taken from the input shortens it.
LEMMA GetlineShortens ==
  ASSUME TypeOK, NEW n \in 1 .. Len(in_buffer), Getline(n)
  PROVE  Len(in_buffer') \in Nat /\ Len(in_buffer') < Len(in_buffer)
<1>1. in_buffer \in Seq(Text) /\ n \in 1 .. Len(in_buffer) /\ Len(in_buffer) \in Nat
  BY DEF TypeOK
<1>2. in_buffer' = SubSeq(in_buffer, n + 1, Len(in_buffer))
  BY DEF Getline
<1> QED
  BY <1>1, <1>2

\* While the parser waits for a line, a step of it takes one or gives up.
LEMMA LineStepDescends ==
  ASSUME TypeOK, pc = "RecvHttpRequest", recv_status \in {"LINE", "HEAD"},
         \/ AwaitLine
         \/ \E n \in 1 .. Len(in_buffer) : Getline(n),
         pc' \in {"RecvHttpRequest", "OnMessage"}
  PROVE  Rank' < Rank
<1>1. Weight = 2 /\ Len(in_buffer) \in Nat /\ Weight' \in 0 .. 4
  BY DEF Weight, TypeOK
<1>2. CASE AwaitLine
  <2>1. in_buffer' = in_buffer /\ pc' = "OnMessage" /\ recv_status' # "OVER"
    BY <1>2 DEF AwaitLine, Fail, parser
  <2>2. Weight' = 1
    BY <2>1 DEF Weight
  <2> QED
    BY <1>1, <2>1, <2>2, RankFalls DEF Rank
<1>3. ASSUME NEW n \in 1 .. Len(in_buffer), Getline(n) PROVE Rank' < Rank
  BY <1>1, <1>3, GetlineShortens, RankFalls DEF Rank
<1> QED
  BY <1>2, <1>3

\* Every step of OnMessage leaves less to do, for every stream and however it is cut.
THEOREM OnMessageDescends == Safe => Descends
<1>1. TypeOK /\ [Next]_vars => [pc # "idle" => Rank' < Rank]_vars
  <2> SUFFICES ASSUME TypeOK, Next, pc # "idle" PROVE Rank' < Rank
    OBVIOUS
  <2>0. Len(in_buffer) \in Nat /\ in_buffer \in Seq(Text)
    BY DEF TypeOK
  <2>1. CASE RecvHttpLine
    BY <2>1, LineStepDescends DEF RecvHttpLine, AwaitLine, Fail
  <2>2. CASE RecvHttpHeader
    BY <2>2, LineStepDescends DEF RecvHttpHeader, AwaitLine, Fail
  <2>3. CASE RecvHttpBody
    <3>1. Weight = 4 /\ Weight' \in {1, 3}
      BY <2>3 DEF RecvHttpBody, Weight
    <3>2. PICK n : n = IF Len(in_buffer) < Lacking THEN Len(in_buffer) ELSE Lacking
      OBVIOUS
    <3>3. Lacking \in Nat
      BY BodyLengthAssumption DEF TypeOK, Lacking, Request
    <3>4. in_buffer' = SubSeq(in_buffer, n + 1, Len(in_buffer))
      BY <2>3, <3>2 DEF RecvHttpBody
    <3>5. Len(in_buffer') \in Nat /\ Len(in_buffer') <= Len(in_buffer)
      BY <2>0, <3>2, <3>3, <3>4
    <3>6. Len(in_buffer') < Len(in_buffer) \/ Len(in_buffer') = Len(in_buffer)
      BY <2>0, <3>5
    <3> QED
      BY <2>0, <3>1, <3>5, <3>6, RankFalls DEF Rank
  <2>4. CASE AnswerError
    <3>1. Weight \in {1, 3} /\ Weight' = 0 /\ Len(in_buffer') = 0
      BY <2>4 DEF AnswerError, Reset, Weight
    <3> QED
      BY <2>0, <3>1 DEF Rank
  <2>5. CASE AwaitMore
    <3>1. Weight = 1 /\ Weight' = 0 /\ in_buffer' = in_buffer
      BY <2>5 DEF AwaitMore, Weight
    <3> QED
      BY <2>0, <3>1, RankFalls DEF Rank
  <2>6. CASE AnswerRequest
    <3>1. Weight = 3 /\ Weight' \in {0, 2} /\ in_buffer' = in_buffer
      BY <2>6 DEF AnswerRequest, Reset, Weight
    <3> QED
      BY <2>0, <3>1, RankFalls DEF Rank
  <2> QED
    BY <2>1, <2>2, <2>3, <2>4, <2>5, <2>6
       DEF Next, OnMessage, HandleRead, HandleEof, HandleWrite
<1> QED
  BY <1>1, TypeCorrect, PTL DEF Safe, Descends

-----------------------------------------------------------------------------
(* The stream: what is said of a request in what has come so far is
   said of it for ever. *)

\* First of a set of positions is the least of them.
LEMMA FirstIsLeast ==
  ASSUME NEW S \in SUBSET Nat, S # {}
  PROVE  First(S) \in S /\ \A k \in S : First(S) <= k
BY LeastPosition DEF First

\* A position of the set with no smaller one is the first.
LEMMA FirstIs ==
  ASSUME NEW S \in SUBSET Nat, NEW m \in S, \A k \in S : m <= k
  PROVE  First(S) = m
<1>1. First(S) \in S /\ \A k \in S : First(S) <= k
  BY FirstIsLeast
<1>2. First(S) <= m /\ m <= First(S) /\ m \in Nat /\ First(S) \in Nat
  BY <1>1
<1> QED
  BY <1>2

\* t is s, and what has come after it.
Extends(s, t) == Len(s) <= Len(t) /\ \A k \in 1 .. Len(s) : t[k] = s[k]

\* A line that is finished ends with its first eol, one that is not has none.
LEMMA LastOfLine ==
  ASSUME NEW s \in Seq(Text), NEW k \in Nat \ {0}
  PROVE  /\ Finished(s, k) => /\ LastOf(s, k) \in k .. Len(s)
                              /\ s[LastOf(s, k)] = "eol"
                              /\ \A m \in k .. LastOf(s, k) - 1 : s[m] # "eol"
         /\ ~Finished(s, k) => /\ LastOf(s, k) = Len(s)
                               /\ \A m \in k .. Len(s) : s[m] # "eol"
<1>1. Eols(s, k) \in SUBSET Nat /\ Len(s) \in Nat
  BY DEF Eols
<1>2. CASE Finished(s, k)
  <2>1. LastOf(s, k) \in Eols(s, k) /\ \A m \in Eols(s, k) : LastOf(s, k) <= m
    BY <1>1, <1>2, FirstIsLeast DEF LastOf, Finished
  <2> QED
    BY <1>1, <1>2, <2>1 DEF Eols
<1>3. CASE ~Finished(s, k)
  BY <1>3 DEF LastOf, Finished, Eols
<1> QED
  BY <1>2, <1>3

\* The first eol from k on is where the line of k ends.
LEMMA LineEndsAt ==
  ASSUME NEW s \in Seq(Text), NEW k \in Nat \ {0}, NEW m \in k .. Len(s),
         s[m] = "eol", \A n \in k .. m - 1 : s[n] # "eol"
  PROVE  Finished(s, k) /\ LastOf(s, k) = m
<1>1. m \in Eols(s, k)
  BY DEF Eols
<1>2. Finished(s, k)
  BY <1>1 DEF Finished
<1>3. LastOf(s, k) \in k .. Len(s) /\ s[LastOf(s, k)] = "eol"
      /\ \A n \in k .. LastOf(s, k) - 1 : s[n] # "eol"
  BY <1>2, LastOfLine
<1> QED
  BY <1>2, <1>3

\* A finished line stays as it is when more of the stream arrives.
LEMMA LineKept ==
  ASSUME NEW s \in Seq(Text), NEW t \in Seq(Text), Extends(s, t), NEW k \in Nat \ {0},
         Finished(s, k)
  PROVE  /\ Finished(t, k) /\ LastOf(t, k) = LastOf(s, k)
         /\ LineText(t, k) = LineText(s, k)
         /\ t[k] = s[k]
<1> DEFINE m == LastOf(s, k)
<1>1. m \in k .. Len(s) /\ s[m] = "eol" /\ \A n \in k .. m - 1 : s[n] # "eol"
  BY LastOfLine
<1>2. Len(s) \in Nat /\ Len(t) \in Nat /\ Len(s) <= Len(t)
      /\ \A n \in 1 .. Len(s) : t[n] = s[n]
  BY DEF Extends
<1>3. m \in k .. Len(t) /\ t[m] = "eol" /\ \A n \in k .. m - 1 : t[n] # "eol"
  BY <1>1, <1>2
<1>4. Finished(t, k) /\ LastOf(t, k) = m
  BY <1>3, LineEndsAt
<1>5. SubSeq(t, k, m - 1) = SubSeq(s, k, m - 1)
  BY <1>1, <1>2
<1>6. LineText(t, k) = LineText(s, k)
  BY <1>4, <1>5 DEF LineText
<1> QED
  BY <1>1, <1>2, <1>4, <1>6

\* A line that is too long stays so, finished or not.
LEMMA TooLongKept ==
  ASSUME NEW s \in Seq(Text), NEW t \in Seq(Text), Extends(s, t), NEW k \in Nat \ {0},
         TooLong(s, k)
  PROVE  TooLong(t, k)
<1> USE MaxLineAssumption
<1>0. Len(s) \in Nat /\ Len(t) \in Nat /\ Len(s) <= Len(t)
  BY DEF Extends
<1>1. CASE Finished(s, k)
  BY <1>1, LineKept DEF TooLong
<1>2. CASE ~Finished(s, k)
  <2>1. LastOf(s, k) = Len(s) /\ \A m \in k .. Len(s) : s[m] # "eol"
    BY <1>2, LastOfLine
  <2>2. LastOf(t, k) \in Nat /\ LastOf(t, k) >= Len(s)
    <3>1. CASE Finished(t, k)
      <4>1. LastOf(t, k) \in k .. Len(t) /\ t[LastOf(t, k)] = "eol"
        BY <3>1, LastOfLine
      <4>2. LastOf(t, k) \notin k .. Len(s)
        BY <2>1, <4>1 DEF Extends
      <4> QED
        BY <1>0, <4>1, <4>2
    <3>2. CASE ~Finished(t, k)
      BY <1>0, <3>2, LastOfLine
    <3> QED
      BY <3>1, <3>2
  <2> QED
    BY <1>0, <2>1, <2>2 DEF TooLong
<1> QED
  BY <1>1, <1>2

\* Whether a finished line is wrong, or too long, is settled.
LEMMA FinishedWrongKept ==
  ASSUME NEW s \in Seq(Text), NEW t \in Seq(Text), Extends(s, t),
         NEW i \in Nat \ {0}, NEW k \in Nat \ {0}, Finished(s, k)
  PROVE  (Wrong(t, i, k) <=> Wrong(s, i, k)) /\ (TooLong(t, k) <=> TooLong(s, k))
<1>1. /\ Finished(t, k) /\ LastOf(t, k) = LastOf(s, k)
      /\ LineText(t, k) = LineText(s, k) /\ t[k] = s[k]
  BY LineKept
<1> QED
  BY <1>1 DEF Wrong, TooLong

\* So is it for every line that is wrong.
LEMMA WrongKept ==
  ASSUME NEW s \in Seq(Text), NEW t \in Seq(Text), Extends(s, t),
         NEW i \in Nat \ {0}, NEW k \in Nat \ {0}, Wrong(s, i, k)
  PROVE  Wrong(t, i, k) /\ (TooLong(t, k) <=> TooLong(s, k))
<1>1. CASE Finished(s, k)
  BY <1>1, FinishedWrongKept
<1>2. CASE ~Finished(s, k)
  BY <1>2, TooLongKept DEF Wrong
<1> QED
  BY <1>1, <1>2

\* Where the head ends: at its blank line, or with what has come.
LEMMA BlankLine ==
  ASSUME NEW s \in Seq(Text), NEW i \in Nat \ {0}
  PROVE  /\ HeadEnd(s, i) \in Nat /\ HeadEnd(s, i) <= Len(s)
         /\ Blanks(s, i) \in SUBSET Nat
         /\ Blanks(s, i) = {} => HeadEnd(s, i) = Len(s)
         /\ Blanks(s, i) # {} => /\ HeadEnd(s, i) \in i + 2 .. Len(s)
                                 /\ HeadEnd(s, i) \in Blanks(s, i)
                                 /\ s[HeadEnd(s, i)] = "eol" /\ s[HeadEnd(s, i) - 1] = "eol"
                                 /\ \A k \in Blanks(s, i) : HeadEnd(s, i) <= k
<1>1. Blanks(s, i) \in SUBSET Nat /\ Len(s) \in Nat
  BY DEF Blanks, Eols
<1>2. CASE Blanks(s, i) = {}
  BY <1>1, <1>2 DEF HeadEnd
<1>3. CASE Blanks(s, i) # {}
  <2>1. HeadEnd(s, i) \in Blanks(s, i) /\ \A k \in Blanks(s, i) : HeadEnd(s, i) <= k
    BY <1>1, <1>3, FirstIsLeast DEF HeadEnd
  <2> QED
    BY <1>1, <1>3, <2>1 DEF Blanks, Eols
<1> QED
  BY <1>2, <1>3

\* The lines of a head that has its blank line are finished.
LEMMA HeadLinesFinished ==
  ASSUME NEW s \in Seq(Text), NEW i \in Nat \ {0}, Blanks(s, i) # {},
         NEW k \in Starts(s, i)
  PROVE  k \in Nat \ {0} /\ k \in i .. HeadEnd(s, i) /\ Finished(s, k)
         /\ LastOf(s, k) <= HeadEnd(s, i)
<1>1. HeadEnd(s, i) \in i + 2 .. Len(s) /\ s[HeadEnd(s, i)] = "eol"
  BY BlankLine
<1>2. k \in i .. HeadEnd(s, i)
  BY DEF Starts
<1>3. HeadEnd(s, i) \in Eols(s, k) /\ k \in Nat \ {0}
  BY <1>1, <1>2 DEF Eols
<1>4. Finished(s, k)
  BY <1>3 DEF Finished
<1>5. LastOf(s, k) \in k .. Len(s) /\ \A m \in k .. LastOf(s, k) - 1 : s[m] # "eol"
  BY <1>3, <1>4, LastOfLine
<1>6. LastOf(s, k) <= HeadEnd(s, i)
  BY <1>1, <1>2, <1>5
<1> QED
  BY <1>2, <1>3, <1>4, <1>6

\* A blank line stays one, and none turns up in what had come before.
LEMMA BlanksKept ==
  ASSUME NEW s \in Seq(Text), NEW t \in Seq(Text), Extends(s, t), NEW i \in Nat \ {0}
  PROVE  /\ Blanks(s, i) \subseteq Blanks(t, i)
         /\ \A k \in Blanks(t, i) : k <= Len(s) => k \in Blanks(s, i)
BY DEF Blanks, Eols, Extends

\* A head that is whole stays as it is.
LEMMA HeadKept ==
  ASSUME NEW s \in Seq(Text), NEW t \in Seq(Text), Extends(s, t), NEW i \in Nat \ {0},
         Blanks(s, i) # {}
  PROVE  /\ Blanks(t, i) # {}
         /\ HeadEnd(t, i) = HeadEnd(s, i)
         /\ Starts(t, i) = Starts(s, i)
<1> DEFINE h == HeadEnd(s, i)
<1>1. h \in i + 2 .. Len(s) /\ h \in Blanks(s, i) /\ \A k \in Blanks(s, i) : h <= k
  BY BlankLine
<1>2. Blanks(s, i) \subseteq Blanks(t, i) /\ Blanks(t, i) \in SUBSET Nat /\ Len(s) \in Nat
  BY BlanksKept, BlankLine
<1>3. \A k \in Blanks(t, i) : h <= k
  BY <1>1, <1>2, BlanksKept
<1>4. HeadEnd(t, i) = h
  BY <1>1, <1>2, <1>3, FirstIs DEF HeadEnd
<1>5. ASSUME NEW k \in i + 1 .. h PROVE t[k - 1] = s[k - 1]
  <2>1. k - 1 \in 1 .. Len(s)
    BY <1>1
  <2> QED
    BY <2>1 DEF Extends
<1>6. ASSUME NEW k PROVE k \in Starts(t, i) <=> k \in Starts(s, i)
  <2>1. CASE k \in i .. h /\ k # i
    <3>1. k \in i + 1 .. h
      BY <1>1, <2>1
    <3> QED
      BY <1>4, <1>5, <3>1 DEF Starts
  <2>2. CASE k \notin i .. h \/ k = i
    BY <1>4, <2>2 DEF Starts
  <2> QED
    BY <2>1, <2>2
<1> QED
  BY <1>1, <1>2, <1>4, <1>6

\* A fault stays one, and its answer the same: only the first wrong line
\* counts, and the lines before it are finished.
LEMMA FaultKept ==
  ASSUME NEW s \in Seq(Text), NEW t \in Seq(Text), Extends(s, t), NEW i \in Nat \ {0},
         Faulty(s, i)
  PROVE  Faulty(t, i) /\ FaultStatus(t, i) = FaultStatus(s, i)
<1> DEFINE W == WrongLines(s, i)
           f == First(W)
<1>1. W \in SUBSET Nat /\ W # {} /\ WrongLines(t, i) \in SUBSET Nat
  BY DEF Faulty, WrongLines, Starts
<1>2. f \in W /\ \A k \in W : f <= k
  BY <1>1, FirstIsLeast
<1>3. f \in i .. HeadEnd(s, i) /\ (f = i \/ s[f - 1] = "eol") /\ Wrong(s, i, f)
  BY <1>2 DEF WrongLines, Starts
<1>4. HeadEnd(s, i) \in Nat /\ HeadEnd(s, i) <= Len(s) /\ Len(s) \in Nat /\ Len(t) \in Nat
      /\ Len(s) <= Len(t)
  BY BlankLine DEF Extends
<1>5. f \in Nat \ {0} /\ f <= Len(s)
  BY <1>3, <1>4
<1>6. \A k \in 1 .. Len(s) : t[k] = s[k]
  BY DEF Extends
<1>7. HeadEnd(t, i) \in Nat /\ f <= HeadEnd(t, i) 
  <2>1. CASE Blanks(s, i) # {}
    BY <1>3, <2>1, <1>4, HeadKept
  <2>2. CASE Blanks(s, i) = {} /\ Blanks(t, i) = {}
    BY <1>4, <1>5, <2>2, BlankLine
  <2>3. CASE Blanks(s, i) = {} /\ Blanks(t, i) # {}
    <3>1. HeadEnd(t, i) \in Blanks(t, i) /\ HeadEnd(t, i) \in Nat
      BY <2>3, BlankLine
    <3>2. ~(HeadEnd(t, i) <= Len(s))
      BY <2>3, <3>1, BlanksKept
    <3> QED
      BY <1>4, <1>5, <3>1, <3>2
  <2> QED
    BY <2>1, <2>2, <2>3
<1>8. f \in WrongLines(t, i) /\ (TooLong(t, f) <=> TooLong(s, f))
  <2>1. Wrong(t, i, f) /\ (TooLong(t, f) <=> TooLong(s, f))
    BY <1>3, <1>5, WrongKept
  <2>2. f \in i .. HeadEnd(t, i)
    BY <1>3, <1>4, <1>7
  <2>3. f = i \/ t[f - 1] = "eol"
    BY <1>3, <1>4, <1>5, <1>6
  <2> QED
    BY <2>1, <2>2, <2>3 DEF WrongLines, Starts
<1>9. ASSUME NEW k \in WrongLines(t, i), ~(f <= k) PROVE FALSE
  <2>1. k \in i .. HeadEnd(t, i) /\ (k = i \/ t[k - 1] = "eol") /\ Wrong(t, i, k)
    BY <1>9 DEF WrongLines, Starts
  <2>2. k \in Nat \ {0} /\ k < f /\ k <= Len(s) /\ k \in i .. HeadEnd(s, i)
    BY <1>3, <1>4, <1>5, <1>9, <2>1, <1>7
  <2>3. k \in Starts(s, i)
    BY <1>6, <2>1, <2>2 DEF Starts
  <2>4. f - 1 \in Eols(s, k)
    BY <1>3, <1>5, <2>2, <1>4 DEF Eols
  <2>5. Finished(s, k)
    BY <2>4 DEF Finished
  <2>6. Wrong(s, i, k)
    BY <2>1, <2>2, <2>5, FinishedWrongKept
  <2>7. k \in W
    BY <2>3, <2>6 DEF WrongLines
  <2> QED
    BY <1>2, <1>9, <2>7
<1>10. First(WrongLines(t, i)) = f
  BY <1>1, <1>8, <1>9, FirstIs
<1> QED
  BY <1>8, <1>10 DEF Faulty, FaultStatus

\* A whole head without a fault never gets one.
LEMMA SoundKept ==
  ASSUME NEW s \in Seq(Text), NEW t \in Seq(Text), Extends(s, t), NEW i \in Nat \ {0},
         Blanks(s, i) # {}, ~Faulty(s, i)
  PROVE  ~Faulty(t, i)
<1>1. Starts(t, i) = Starts(s, i)
  BY HeadKept
<1>2. \A k \in Starts(s, i) : k \in Nat \ {0} /\ Finished(s, k) /\ ~Wrong(s, i, k)
  BY HeadLinesFinished DEF Faulty, WrongLines
<1>3. \A k \in Starts(s, i) : ~Wrong(t, i, k)
  BY <1>2, FinishedWrongKept
<1> QED
  BY <1>1, <1>3 DEF Faulty, WrongLines

\* The headers of a whole head.
LEMMA HeadersKept ==
  ASSUME NEW s \in Seq(Text), NEW t \in Seq(Text), Extends(s, t), NEW i \in Nat \ {0},
         Blanks(s, i) # {}
  PROVE  /\ BodySize(t, i) = BodySize(s, i)
         /\ Keep(t, i) <=> Keep(s, i)
         /\ LineText(t, i) = LineText(s, i)
<1>1. Starts(t, i) = Starts(s, i) /\ HeadEnd(s, i) \in i + 2 .. Len(s)
  BY HeadKept, BlankLine
<1>2. \A k \in Starts(s, i) : k \in Nat \ {0} /\ t[k] = s[k] /\ LineText(t, k) = LineText(s, k)
  BY HeadLinesFinished, LineKept
<1>3. i \in Starts(s, i)
  BY <1>1 DEF Starts
<1>4. BodySize(t, i) = BodySize(s, i)
  BY <1>1, <1>2 DEF BodySize
<1>5. Keep(t, i) <=> Keep(s, i)
  <2> DEFINE K(u) == {k \in Starts(u, i) : k > i /\ u[k] = "keep"}
  <2>1. K(t) = K(s)
    BY <1>1, <1>2
  <2>2. CASE K(s) = {}
    BY <2>1, <2>2 DEF Keep
  <2>3. CASE K(s) # {}
    <3>1. K(s) \in SUBSET Nat
      BY <1>2
    <3>2. First(K(s)) \in Starts(s, i)
      BY <2>3, <3>1, FirstIsLeast
    <3>3. LineText(t, First(K(t))) = LineText(s, First(K(s)))
      BY <1>2, <2>1, <3>2
    <3> QED
      BY <2>1, <3>3 DEF Keep
  <2> QED
    BY <2>2, <2>3
<1> QED
  BY <1>2, <1>3, <1>4, <1>5

\* A complete request stays the same request.
LEMMA RequestKept ==
  ASSUME NEW s \in Seq(Text), NEW t \in Seq(Text), Extends(s, t), NEW i \in Nat \ {0},
         Complete(s, i)
  PROVE  /\ Complete(t, i) /\ RequestEnd(t, i) = RequestEnd(s, i)
         /\ RequestAt(t, i) = RequestAt(s, i)
<1>1. Blanks(s, i) # {} /\ ~Faulty(s, i) /\ RequestEnd(s, i) <= Len(s)
  BY DEF Complete
<1>2. /\ Blanks(t, i) # {} /\ HeadEnd(t, i) = HeadEnd(s, i) /\ ~Faulty(t, i)
      /\ BodySize(t, i) = BodySize(s, i) /\ (Keep(t, i) <=> Keep(s, i))
      /\ LineText(t, i) = LineText(s, i)
  BY <1>1, HeadKept, SoundKept, HeadersKept
<1>3. RequestEnd(t, i) = RequestEnd(s, i)
  BY <1>2 DEF RequestEnd
<1>4. /\ Len(s) \in Nat /\ Len(t) \in Nat /\ Len(s) <= Len(t) /\ BodySize(s, i) \in Nat
      /\ HeadEnd(s, i) \in Nat /\ \A k \in 1 .. Len(s) : t[k] = s[k]
  BY BlankLine, BodyLengthAssumption DEF Extends, BodySize
<1>5. Complete(t, i)
  BY <1>1, <1>2, <1>3, <1>4 DEF Complete, RequestEnd
<1>6. SubSeq(t, HeadEnd(t, i) + 1, RequestEnd(t, i))
      = SubSeq(s, HeadEnd(s, i) + 1, RequestEnd(s, i))
  BY <1>1, <1>2, <1>4 DEF RequestEnd
<1>7. Keep(t, i) = Keep(s, i)
  BY <1>2 DEF Keep
<1> QED
  BY <1>2, <1>3, <1>5, <1>6, <1>7 DEF RequestAt

-----------------------------------------------------------------------------
(* The requests of a stream, one after the other. *)

\* The complete requests from each position on, and where what follows them starts.
RequestsFrom(s) ==
    LET from[i \in 1 .. Len(s) + 1] ==
            IF Complete(s, i) THEN <<RequestAt(s, i)>> \o from[RequestEnd(s, i) + 1] ELSE <<>>
    IN  from

RemainderFrom(s) ==
    LET from[i \in 1 .. Len(s) + 1] ==
            IF Complete(s, i) THEN from[RequestEnd(s, i) + 1] ELSE i
    IN  from

\* The requests of a stream are those from its first position on.
LEMMA FromFirst ==
  ASSUME NEW s
  PROVE  Requests(s) = RequestsFrom(s)[1] /\ Remainder(s) = RemainderFrom(s)[1]
BY DEF Requests, RequestsFrom, Remainder, RemainderFrom

\* The next request starts further on.
LEMMA RequestProgress ==
  ASSUME NEW s \in Seq(Text), NEW i \in Nat \ {0}, Complete(s, i)
  PROVE  /\ RequestEnd(s, i) \in Nat
         /\ RequestEnd(s, i) + 1 \in i + 1 .. Len(s) + 1
         /\ i <= Len(s)
<1>1. Blanks(s, i) # {} /\ RequestEnd(s, i) <= Len(s)
  BY DEF Complete
<1>2. HeadEnd(s, i) \in i + 2 .. Len(s) /\ BodySize(s, i) \in Nat
  BY <1>1, BlankLine, BodyLengthAssumption DEF BodySize
<1> QED
  BY <1>1, <1>2 DEF RequestEnd

\* The two recursive definitions of HttpStream have a solution.
LEMMA FromExist ==
  ASSUME NEW s \in Seq(Text)
  PROVE  /\ \E f : f = [i \in 1 .. Len(s) + 1 |->
              IF Complete(s, i) THEN <<RequestAt(s, i)>> \o f[RequestEnd(s, i) + 1] ELSE <<>>]
         /\ \E f : f = [i \in 1 .. Len(s) + 1 |->
              IF Complete(s, i) THEN f[RequestEnd(s, i) + 1] ELSE i]
<1> DEFINE N == Len(s) + 1
           C == {i \in 1 .. N : Complete(s, i)}
           next == [i \in 1 .. N |-> RequestEnd(s, i) + 1]
           A == [i \in 1 .. N |-> <<RequestAt(s, i)>>]
<1>1. N \in Nat
  OBVIOUS
<1>2. \A i \in 1 .. N : i \in C => next[i] \in i + 1 .. N
  BY RequestProgress
<1>3. \E h : Collects(h, N, C, next, A)
  <2> HIDE DEF N, C, next, A
  <2> QED
    BY <1>1, <1>2, RecursionExists
<1>4. PICK h : \A i \in 1 .. N :
            h[i] = IF i \in C THEN <<A[i] \o h[next[i]][1], h[next[i]][2]>> ELSE << <<>>, i>>
  BY <1>3 DEF Collects
<1> DEFINE f == [i \in 1 .. N |-> h[i][1]]
           g == [i \in 1 .. N |-> h[i][2]]
<1>5. ASSUME NEW i \in 1 .. N
      PROVE  /\ f[i] = IF Complete(s, i) THEN <<RequestAt(s, i)>> \o f[RequestEnd(s, i) + 1]
                                         ELSE <<>>
             /\ g[i] = IF Complete(s, i) THEN g[RequestEnd(s, i) + 1] ELSE i
  <2>1. CASE Complete(s, i)
    <3>1. RequestEnd(s, i) + 1 \in 1 .. N
      BY <2>1, RequestProgress
    <3>2. h[i] = <<<<RequestAt(s, i)>> \o h[RequestEnd(s, i) + 1][1], h[RequestEnd(s, i) + 1][2]>>
      BY <1>4, <2>1
    <3> QED
      BY <2>1, <3>1, <3>2
  <2>2. CASE ~Complete(s, i)
    <3>1. h[i] = << <<>>, i>>
      BY <1>4, <2>2
    <3> QED
      BY <2>2, <3>1
  <2> QED
    BY <2>1, <2>2
<1>6. f = [i \in 1 .. N |->
           IF Complete(s, i) THEN <<RequestAt(s, i)>> \o f[RequestEnd(s, i) + 1] ELSE <<>>]
  BY <1>5
<1>7. g = [i \in 1 .. N |-> IF Complete(s, i) THEN g[RequestEnd(s, i) + 1] ELSE i]
  BY <1>5
<1> QED
  BY <1>6, <1>7

\* Hence they compute what they say, one request at a time.
LEMMA FromStep ==
  ASSUME NEW s \in Seq(Text), NEW i \in 1 .. Len(s) + 1
  PROVE  /\ Complete(s, i) =>
              /\ RequestsFrom(s)[i] = <<RequestAt(s, i)>> \o RequestsFrom(s)[RequestEnd(s, i) + 1]
              /\ RemainderFrom(s)[i] = RemainderFrom(s)[RequestEnd(s, i) + 1]
         /\ ~Complete(s, i) => RequestsFrom(s)[i] = <<>> /\ RemainderFrom(s)[i] = i
<1> DEFINE P(f) == f = [k \in 1 .. Len(s) + 1 |->
              IF Complete(s, k) THEN <<RequestAt(s, k)>> \o f[RequestEnd(s, k) + 1] ELSE <<>>]
           Q(f) == f = [k \in 1 .. Len(s) + 1 |->
              IF Complete(s, k) THEN f[RequestEnd(s, k) + 1] ELSE k]
<1>1. (\E f : P(f)) /\ \E f : Q(f)
  BY FromExist
<1>2. RequestsFrom(s) = (CHOOSE f : P(f)) /\ RemainderFrom(s) = (CHOOSE f : Q(f))
  BY DEF RequestsFrom, RemainderFrom
<1>3. P(RequestsFrom(s)) /\ Q(RemainderFrom(s))
  <2> HIDE DEF P, Q
  <2> QED
    BY <1>1, <1>2
<1> DEFINE f == RequestsFrom(s)
           g == RemainderFrom(s)
<1>4. /\ f = [k \in 1 .. Len(s) + 1 |->
              IF Complete(s, k) THEN <<RequestAt(s, k)>> \o f[RequestEnd(s, k) + 1] ELSE <<>>]
      /\ g = [k \in 1 .. Len(s) + 1 |->
              IF Complete(s, k) THEN g[RequestEnd(s, k) + 1] ELSE k]
  BY <1>3
<1> HIDE DEF f, g, P, Q
<1>5. /\ f[i] = IF Complete(s, i) THEN <<RequestAt(s, i)>> \o f[RequestEnd(s, i) + 1] ELSE <<>>
      /\ g[i] = IF Complete(s, i) THEN g[RequestEnd(s, i) + 1] ELSE i
  BY <1>4
<1> QED
  BY <1>5 DEF f, g

\* The text of a finished line.
LEMMA FirstLineType ==
  ASSUME NEW s \in Seq(Text), NEW i \in Nat \ {0}, Finished(s, i)
  PROVE  LineText(s, i) \in Seq(Text) /\ Len(LineText(s, i)) = LastOf(s, i) - i
<1>1. LastOf(s, i) \in i .. Len(s)
  BY LastOfLine
<1>2. \A k \in i .. LastOf(s, i) - 1 : s[k] \in Text
  BY <1>1
<1>3. SubSeq(s, i, LastOf(s, i) - 1) \in Seq(Text)
      /\ Len(SubSeq(s, i, LastOf(s, i) - 1)) = LastOf(s, i) - i
  BY <1>1, <1>2
<1> QED
  BY <1>3 DEF LineText

\* The first line of a head is a request line.
LEMMA RequestLine ==
  ASSUME NEW s \in Seq(Text), NEW i \in Nat \ {0}, Blanks(s, i) # {}, ~Faulty(s, i)
  PROVE  IsRequestLine(LineText(s, i)) /\ Target(LineText(s, i)) \in Resource \cup {Unknown}
<1>1. HeadEnd(s, i) \in i + 2 .. Len(s)
  BY BlankLine
<1>2. i \in Starts(s, i)
  BY <1>1 DEF Starts
<1>3. Finished(s, i) /\ ~Wrong(s, i, i)
  BY <1>2, HeadLinesFinished DEF Faulty, WrongLines
<1>4. LineText(s, i) \in Seq(Text)
  BY <1>3, FirstLineType
<1> QED
  BY <1>3, <1>4 DEF Wrong, IsRequestLine, Target

\* The requests of a stream are requests.
LEMMA RequestAtType ==
  ASSUME NEW s \in Seq(Text), NEW i \in Nat \ {0}, Complete(s, i)
  PROVE  RequestAt(s, i) \in Served
<1>1. Blanks(s, i) # {} /\ ~Faulty(s, i) /\ RequestEnd(s, i) <= Len(s)
  BY DEF Complete
<1>2. HeadEnd(s, i) \in i + 2 .. Len(s) /\ BodySize(s, i) \in Nat
  BY <1>1, BlankLine, BodyLengthAssumption DEF BodySize
<1>3. SubSeq(s, HeadEnd(s, i) + 1, RequestEnd(s, i)) \in Seq(Text)
  <2>1. HeadEnd(s, i) + 1 \in 1 .. Len(s) + 1 /\ RequestEnd(s, i) \in 0 .. Len(s)
    BY <1>1, <1>2 DEF RequestEnd
  <2> QED
    BY <2>1
<1>4. Target(LineText(s, i)) \in Resource \cup {Unknown}
  BY <1>1, RequestLine
<1>5. Keep(s, i) \in BOOLEAN
  BY DEF Keep
<1> QED
  BY <1>3, <1>4, <1>5 DEF RequestAt, Served

\* The types of what is computed from each position on.
LEMMA FromType ==
  ASSUME NEW s \in Seq(Text)
  PROVE  \A i \in 1 .. Len(s) + 1 :
            /\ RequestsFrom(s)[i] \in Seq(Served)
            /\ RemainderFrom(s)[i] \in 1 .. Len(s) + 1
<1> DEFINE N == Len(s) + 1
           P == {i \in 1 .. N : /\ RequestsFrom(s)[i] \in Seq(Served)
                                /\ RemainderFrom(s)[i] \in 1 .. N}
<1>1. N \in Nat
  OBVIOUS
<1>2. ASSUME NEW i \in 1 .. N, \A k \in i + 1 .. N : k \in P PROVE i \in P
  <2>1. CASE Complete(s, i)
    <3>1. RequestEnd(s, i) + 1 \in i + 1 .. N /\ RequestAt(s, i) \in Served
      BY <2>1, RequestProgress, RequestAtType
    <3>2. /\ RequestsFrom(s)[RequestEnd(s, i) + 1] \in Seq(Served)
          /\ RemainderFrom(s)[RequestEnd(s, i) + 1] \in 1 .. N
      BY <1>2, <3>1
    <3>3. <<RequestAt(s, i)>> \o RequestsFrom(s)[RequestEnd(s, i) + 1] \in Seq(Served)
      BY <3>1, <3>2
    <3>4. /\ RequestsFrom(s)[i] = <<RequestAt(s, i)>> \o RequestsFrom(s)[RequestEnd(s, i) + 1]
          /\ RemainderFrom(s)[i] = RemainderFrom(s)[RequestEnd(s, i) + 1]
      BY <2>1, FromStep
    <3> QED
      BY <3>2, <3>3, <3>4
  <2>2. CASE ~Complete(s, i)
    <3>1. RequestsFrom(s)[i] = <<>> /\ RemainderFrom(s)[i] = i
      BY <2>2, FromStep
    <3>2. <<>> \in Seq(Served)
      OBVIOUS
    <3> QED
      BY <3>1, <3>2
  <2> QED
    BY <2>1, <2>2
<1>3. \A i \in 1 .. N : i \in P
  <2> HIDE DEF P, N
  <2> QED
    BY <1>1, <1>2, DownInduction
<1> QED
  BY <1>3

\* What has come first is found first: the requests of the longer stream are those
\* of the shorter one, and those from its remainder on.
LEMMA FromExtends ==
  ASSUME NEW s \in Seq(Text), NEW t \in Seq(Text), Extends(s, t)
  PROVE  \A i \in 1 .. Len(s) + 1 :
            /\ RequestsFrom(t)[i]
               = RequestsFrom(s)[i] \o RequestsFrom(t)[RemainderFrom(s)[i]]
            /\ RemainderFrom(t)[i] = RemainderFrom(t)[RemainderFrom(s)[i]]
<1> DEFINE N == Len(s) + 1
           P == {i \in 1 .. N :
                    /\ RequestsFrom(t)[i]
                       = RequestsFrom(s)[i] \o RequestsFrom(t)[RemainderFrom(s)[i]]
                    /\ RemainderFrom(t)[i] = RemainderFrom(t)[RemainderFrom(s)[i]]}
<1>1. N \in Nat /\ \A i \in 1 .. N : i \in 1 .. Len(t) + 1
  BY DEF Extends
<1>2. ASSUME NEW i \in 1 .. N, \A k \in i + 1 .. N : k \in P PROVE i \in P
  <2>0. i \in Nat \ {0} /\ i \in 1 .. Len(t) + 1
    BY <1>1
  <2>1. CASE Complete(s, i)
    <3>1. PICK e : e = RequestEnd(s, i) + 1
      OBVIOUS
    <3>2. PICK r : r = RequestAt(s, i)
      OBVIOUS
    <3>3. e \in i + 1 .. N /\ e \in 1 .. N /\ r \in Served
      BY <2>0, <2>1, <3>1, <3>2, RequestProgress, RequestAtType
    <3>4. Complete(t, i) /\ RequestEnd(t, i) + 1 = e /\ RequestAt(t, i) = r
      BY <2>0, <2>1, <3>1, <3>2, RequestKept
    <3>5. /\ RequestsFrom(s)[i] = <<r>> \o RequestsFrom(s)[e]
          /\ RemainderFrom(s)[i] = RemainderFrom(s)[e]
      BY <2>1, <3>1, <3>2, FromStep
    <3>6. /\ RequestsFrom(t)[i] = <<r>> \o RequestsFrom(t)[e]
          /\ RemainderFrom(t)[i] = RemainderFrom(t)[e]
      BY <2>0, <3>4, FromStep
    <3>7. PICK m : m = RemainderFrom(s)[e]
      OBVIOUS
    <3>8. PICK x : x = RequestsFrom(s)[e]
      OBVIOUS
    <3>9. PICK y : y = RequestsFrom(t)[m]
      OBVIOUS
    <3>10. RequestsFrom(t)[e] = x \o y /\ RemainderFrom(t)[e] = RemainderFrom(t)[m]
      BY <1>2, <3>3, <3>7, <3>8, <3>9
    <3>11. x \in Seq(Served) /\ m \in 1 .. N
      BY <3>3, <3>7, <3>8, FromType
    <3>12. y \in Seq(Served)
      BY <1>1, <3>9, <3>11, FromType
    <3>13. <<r>> \o (x \o y) = (<<r>> \o x) \o y
      BY <3>3, <3>11, <3>12, RegroupOne
    <3> QED
      BY <3>5, <3>6, <3>7, <3>8, <3>9, <3>10, <3>13
  <2>2. CASE ~Complete(s, i)
    <3>1. RequestsFrom(s)[i] = <<>> /\ RemainderFrom(s)[i] = i
      BY <2>2, FromStep
    <3>2. RequestsFrom(t)[i] \in Seq(Served)
      BY <2>0, FromType
    <3>3. <<>> \o RequestsFrom(t)[i] = RequestsFrom(t)[i]
      BY <3>2, ConcatEmptySeq
    <3> QED
      BY <3>1, <3>3
  <2> QED
    BY <2>1, <2>2
<1>3. \A i \in 1 .. N : i \in P
  <2> HIDE DEF P, N
  <2> QED
    BY <1>1, <1>2, DownInduction
<1> QED
  BY <1>3

-----------------------------------------------------------------------------
(* A head, line by line. *)

\* The lines of the request at i that start before j are read and in order, and j is
\* where the next one starts.
LinesRead(s, i, j) ==
    /\ i <= j /\ j <= Len(s) + 1
    /\ j = i \/ s[j - 1] = "eol"
    /\ \A k \in Blanks(s, i) \cup WrongLines(s, i) : k >= j

\* The request as far as those lines tell.
LengthTo(s, i, j) ==
    IF \E k \in i + 1 .. j - 1 : s[k - 1] = "eol" /\ s[k] = "length" THEN BodyLength ELSE 0

\* Where its Connection headers are.
KeepsTo(s, i, j) == {k \in i + 1 .. j - 1 : s[k - 1] = "eol" /\ s[k] = "keep"}

\* What the first of them says.
ConnectionTo(s, i, j) ==
    IF KeepsTo(s, i, j) = {} THEN "none"
    ELSE IF LineText(s, First(KeepsTo(s, i, j))) = <<"keep">> THEN "keep-alive" ELSE "other"

\* The request that these lines make.
HeadRequest(s, i, j) ==
    [resource |-> Target(LineText(s, i)), connection |-> ConnectionTo(s, i, j),
     length |-> LengthTo(s, i, j), body |-> <<>>]

\* Nothing of the request at i is decided yet.
Open(s, i) == ~Complete(s, i) /\ ~Faulty(s, i)

\* A line before j that starts in the request at i is one of its head; it is not
\* wrong.
LEMMA ReadInHead ==
  ASSUME NEW s \in Seq(Text), NEW i \in Nat \ {0}, NEW j \in Nat, LinesRead(s, i, j),
         NEW k \in i .. Len(s), k <= j, k = i \/ s[k - 1] = "eol"
  PROVE  k \in Starts(s, i) /\ (k < j => ~Wrong(s, i, k) /\ Finished(s, k))
<1>1. HeadEnd(s, i) \in Nat /\ Len(s) \in Nat /\ k \in Nat /\ k \in Nat \ {0}
  BY BlankLine
<1>2. k <= HeadEnd(s, i)
  <2>1. CASE Blanks(s, i) = {}
    BY <1>1, <2>1, BlankLine
  <2>2. CASE Blanks(s, i) # {}
    <3>1. HeadEnd(s, i) \in Blanks(s, i)
      BY <2>2, BlankLine
    <3>2. HeadEnd(s, i) >= j
      BY <3>1 DEF LinesRead
    <3> QED
      BY <1>1, <3>2
  <2> QED
    BY <2>1, <2>2
<1>3. k \in Starts(s, i)
  BY <1>1, <1>2 DEF Starts
<1>4. ASSUME k < j PROVE ~Wrong(s, i, k) /\ Finished(s, k)
  <2>1. k \notin WrongLines(s, i)
    BY <1>1, <1>4 DEF LinesRead
  <2>2. j - 1 \in Eols(s, k)
    BY <1>1, <1>4 DEF LinesRead, Eols
  <2> QED
    BY <1>3, <2>1, <2>2 DEF WrongLines, Finished
<1> QED
  BY <1>3, <1>4

\* What has been read in order stays so.
LEMMA LinesReadKept ==
  ASSUME NEW s \in Seq(Text), NEW t \in Seq(Text), Extends(s, t),
         NEW i \in Nat \ {0}, NEW j \in Nat, LinesRead(s, i, j)
  PROVE  LinesRead(t, i, j)
<1>1. /\ Len(s) \in Nat /\ Len(t) \in Nat /\ Len(s) <= Len(t)
      /\ \A k \in 1 .. Len(s) : t[k] = s[k]
  BY DEF Extends
<1>2. i <= j /\ j <= Len(s) + 1 /\ (j = i \/ s[j - 1] = "eol")
      /\ \A k \in Blanks(s, i) \cup WrongLines(s, i) : k >= j
  BY DEF LinesRead
<1>3. j <= Len(t) + 1 /\ (j = i \/ t[j - 1] = "eol")
  BY <1>1, <1>2
<1>4. ASSUME NEW k \in Blanks(t, i) PROVE k >= j
  <2>1. k \in Nat
    BY <1>4, BlankLine
  <2> SUFFICES ASSUME k < j PROVE FALSE
    BY <2>1
  <2>2. k \in Blanks(s, i)
    BY <1>1, <1>2, <2>1, <1>4, BlanksKept
  <2> QED
    BY <1>2, <2>1, <2>2
<1>5. ASSUME NEW k \in WrongLines(t, i) PROVE k >= j
  <2>1. k \in Nat /\ k >= i /\ (k = i \/ t[k - 1] = "eol") /\ Wrong(t, i, k)
    BY <1>5 DEF WrongLines, Starts
  <2> SUFFICES ASSUME k < j PROVE FALSE
    BY <2>1
  <2>2. k \in i .. Len(s) /\ k \in Nat \ {0}
    BY <1>1, <1>2, <2>1
  <2>3. k = i \/ s[k - 1] = "eol"
    <3>1. k # i => k - 1 \in 1 .. Len(s)
      BY <2>1, <2>2
    <3> QED
      BY <1>1, <2>1, <3>1
  <2>4. ~Wrong(s, i, k) /\ Finished(s, k)
    BY <2>2, <2>3, ReadInHead
  <2> QED
    BY <2>1, <2>2, <2>4, FinishedWrongKept
<1> QED
  BY <1>2, <1>3, <1>4, <1>5 DEF LinesRead

\* So does the request that was made of it.
LEMMA HeadRequestKept ==
  ASSUME NEW s \in Seq(Text), NEW t \in Seq(Text), Extends(s, t),
         NEW i \in Nat \ {0}, NEW j \in Nat, i < j, j <= Len(s) + 1, s[j - 1] = "eol"
  PROVE  HeadRequest(t, i, j) = HeadRequest(s, i, j)
<1>1. /\ Len(s) \in Nat /\ Len(t) \in Nat /\ Len(s) <= Len(t)
      /\ \A k \in 1 .. Len(s) : t[k] = s[k]
  BY DEF Extends
<1>2. ASSUME NEW k \in i .. j - 1 PROVE LineText(t, k) = LineText(s, k)
  <2>1. j - 1 \in Eols(s, k) /\ k \in Nat \ {0}
    BY <1>1 DEF Eols
  <2> QED
    BY <2>1, LineKept DEF Finished
<1>3. \A k \in i + 1 .. j - 1 : t[k] = s[k] /\ t[k - 1] = s[k - 1]
  BY <1>1
<1>4. LengthTo(t, i, j) = LengthTo(s, i, j)
  BY <1>3 DEF LengthTo
<1>5. KeepsTo(t, i, j) = KeepsTo(s, i, j)
  BY <1>3 DEF KeepsTo
<1>6. KeepsTo(s, i, j) # {} =>
        LineText(t, First(KeepsTo(s, i, j))) = LineText(s, First(KeepsTo(s, i, j)))
  <2>1. KeepsTo(s, i, j) \in SUBSET Nat /\ KeepsTo(s, i, j) \subseteq i .. j - 1
    BY DEF KeepsTo
  <2>2. KeepsTo(s, i, j) # {} => First(KeepsTo(s, i, j)) \in i .. j - 1
    BY <2>1, FirstIsLeast
  <2> QED
    BY <1>2, <2>2
<1>7. ConnectionTo(t, i, j) = ConnectionTo(s, i, j)
  BY <1>5, <1>6 DEF ConnectionTo
<1>8. LineText(t, i) = LineText(s, i)
  BY <1>2
<1> QED
  BY <1>4, <1>7, <1>8 DEF HeadRequest

\* If the next line is wrong it is the first that is, and decides the answer.
LEMMA WrongNext ==
  ASSUME NEW s \in Seq(Text), NEW i \in Nat \ {0}, NEW j \in Nat, LinesRead(s, i, j),
         j <= Len(s), Wrong(s, i, j)
  PROVE  Faulty(s, i) /\ FaultStatus(s, i) = IF TooLong(s, j) THEN 414 ELSE 400
<1>1. j \in i .. Len(s) /\ (j = i \/ s[j - 1] = "eol")
      /\ \A k \in WrongLines(s, i) : k >= j
  BY DEF LinesRead
<1>2. j \in Starts(s, i)
  BY <1>1, ReadInHead
<1>3. j \in WrongLines(s, i) /\ WrongLines(s, i) \in SUBSET Nat
  BY <1>2 DEF WrongLines, Starts
<1>4. First(WrongLines(s, i)) = j
  <2>1. \A k \in WrongLines(s, i) : j <= k
    BY <1>1, <1>3
  <2> QED
    BY <1>3, <2>1, FirstIs
<1> QED
  BY <1>3, <1>4 DEF Faulty, FaultStatus

\* If the next line is neither finished nor too long nothing is decided.
LEMMA OpenNext ==
  ASSUME NEW s \in Seq(Text), NEW i \in Nat \ {0}, NEW j \in Nat, LinesRead(s, i, j),
         ~Finished(s, j), j <= Len(s) => ~TooLong(s, j)
  PROVE  Open(s, i)
<1>1. j \in Nat \ {0} /\ i <= j /\ Len(s) \in Nat
      /\ \A k \in Blanks(s, i) \cup WrongLines(s, i) : k >= j
  BY DEF LinesRead
<1>2. \A k \in j .. Len(s) : s[k] # "eol"
  BY <1>1, LastOfLine
<1>3. Blanks(s, i) = {}
  BY <1>1, <1>2 DEF Blanks, Eols
<1>4. ASSUME NEW k \in WrongLines(s, i) PROVE FALSE
  <2>1. k \in i .. Len(s) /\ (k = i \/ s[k - 1] = "eol") /\ Wrong(s, i, k)
    BY <1>3, BlankLine DEF WrongLines, Starts
  <2>2. k >= j
    BY <1>1, <1>4
  <2>3. CASE k = j
    BY <2>1, <2>3 DEF Wrong
  <2>4. CASE k > j
    <3>1. k - 1 \in j .. Len(s) /\ s[k - 1] = "eol"
      BY <1>1, <2>1, <2>4
    <3> QED
      BY <1>2, <3>1
  <2> QED
    BY <1>1, <2>1, <2>2, <2>3, <2>4
<1> QED
  BY <1>3, <1>4 DEF Open, Complete, Faulty

\* A next line that is neither wrong nor blank is read.
LEMMA NextLine ==
  ASSUME NEW s \in Seq(Text), NEW i \in Nat \ {0}, NEW j \in Nat, LinesRead(s, i, j),
         Finished(s, j), ~Wrong(s, i, j), j # i => s[j] # "eol"
  PROVE  LinesRead(s, i, LastOf(s, j) + 1)
<1> DEFINE m == LastOf(s, j)
<1>1. /\ j \in Nat \ {0} /\ i <= j /\ Len(s) \in Nat
      /\ \A k \in Blanks(s, i) \cup WrongLines(s, i) : k >= j
  BY DEF LinesRead
<1>2. m \in j .. Len(s) /\ s[m] = "eol" /\ \A k \in j .. m - 1 : s[k] # "eol"
  BY <1>1, LastOfLine
<1> HIDE DEF m
<1>3. ASSUME NEW k \in Blanks(s, i), ~(k >= m + 1) PROVE FALSE
  <2>1. k \in i + 2 .. Len(s) /\ s[k] = "eol" /\ s[k - 1] = "eol" /\ k >= j
    BY <1>1, <1>3 DEF Blanks, Eols
  <2>2. k \notin j .. m - 1 /\ k - 1 \notin j .. m - 1
    BY <1>2, <2>1
  <2>3. k = m /\ k = j
    BY <1>1, <1>2, <1>3, <2>1, <2>2
  <2> QED
    BY <1>1, <2>1, <2>3
<1>4. ASSUME NEW k \in WrongLines(s, i), ~(k >= m + 1) PROVE FALSE
  <2>1. k \in Nat /\ k >= i /\ (k = i \/ s[k - 1] = "eol") /\ Wrong(s, i, k) /\ k >= j
    BY <1>1, <1>4 DEF WrongLines, Starts
  <2>2. k # j
    BY <2>1
  <2>3. k - 1 \in j .. m - 1 /\ s[k - 1] = "eol"
    BY <1>1, <1>2, <1>4, <2>1, <2>2
  <2> QED
    BY <1>2, <2>3
<1>5. PICK n \in Nat : n = m + 1
  BY <1>1, <1>2
<1>6. i <= n /\ n <= Len(s) + 1 /\ s[n - 1] = "eol"
  BY <1>1, <1>2, <1>5
<1>7. \A k \in Blanks(s, i) \cup WrongLines(s, i) : k >= n
  BY <1>3, <1>4, <1>5
<1>8. LinesRead(s, i, n)
  BY <1>6, <1>7 DEF LinesRead
<1> QED
  BY <1>5, <1>8 DEF m

\* Past its first line a head has no line yet but the one that starts the next.
LEMMA OnlyStart ==
  ASSUME NEW s \in Seq(Text), NEW j \in Nat \ {0}, Finished(s, j),
         NEW k \in j + 1 .. LastOf(s, j)
  PROVE  s[k - 1] # "eol"
<1>1. LastOf(s, j) \in j .. Len(s) /\ \A m \in j .. LastOf(s, j) - 1 : s[m] # "eol"
  BY LastOfLine
<1>2. k - 1 \in j .. LastOf(s, j) - 1
  BY <1>1
<1> QED
  BY <1>1, <1>2

\* The request after its first line has a resource and nothing else.
LEMMA FirstLineRequest ==
  ASSUME NEW s \in Seq(Text), NEW i \in Nat \ {0}, Finished(s, i)
  PROVE  HeadRequest(s, i, LastOf(s, i) + 1)
         = [NoRequest EXCEPT !.resource = Target(LineText(s, i))]
<1>1. LastOf(s, i) \in i .. Len(s) /\ LastOf(s, i) + 1 - 1 = LastOf(s, i)
  BY LastOfLine
<1>2. \A k \in i + 1 .. LastOf(s, i) + 1 - 1 : s[k - 1] # "eol"
  BY <1>1, OnlyStart
<1>3. LengthTo(s, i, LastOf(s, i) + 1) = 0
  BY <1>1, <1>2 DEF LengthTo
<1>4. KeepsTo(s, i, LastOf(s, i) + 1) = {}
  BY <1>1, <1>2 DEF KeepsTo
<1>5. ConnectionTo(s, i, LastOf(s, i) + 1) = "none"
  BY <1>4 DEF ConnectionTo
<1> QED
  BY <1>3, <1>5 DEF HeadRequest, NoRequest

\* What SetHeader makes of the next line is what the longer head says.
LEMMA NextHeader ==
  ASSUME NEW s \in Seq(Text), NEW i \in Nat \ {0}, NEW j \in Nat, i < j, s[j - 1] = "eol",
         Finished(s, j), s[j] # "eol"
  PROVE  HeadRequest(s, i, LastOf(s, j) + 1)
         = WithHeader(HeadRequest(s, i, j), LineText(s, j))
<1> DEFINE m == LastOf(s, j)
           line == LineText(s, j)
<1>1. /\ j \in Nat \ {0} /\ Len(s) \in Nat /\ m \in j .. Len(s) /\ m + 1 - 1 = m
      /\ s[m] = "eol" /\ m # j
  BY LastOfLine
<1>2. Len(line) = m - j /\ line \in Seq(Text) /\ Len(line) >= 1 /\ line[1] = s[j]
  <2>1. Len(line) = m - j /\ line \in Seq(Text)
    BY <1>1, FirstLineType
  <2>2. line[1] = s[j]
    BY <1>1 DEF LineText
  <2> QED
    BY <1>1, <2>1, <2>2
<1> HIDE DEF m, line
<1>3. ASSUME NEW k \in i + 1 .. m, s[k - 1] = "eol" PROVE k \in i + 1 .. j
  <2>1. k \notin j + 1 .. m
    BY <1>1, <1>3, OnlyStart DEF m
  <2> QED
    BY <1>1, <2>1
<1>4. \A k \in i + 1 .. j : k \in i + 1 .. m /\ (k = j \/ k \in i + 1 .. j - 1)
  BY <1>1
<1>5. j \in i + 1 .. j
  BY <1>1
<1>6. LengthTo(s, i, m + 1) = IF s[j] = "length" THEN BodyLength ELSE LengthTo(s, i, j)
  <2>1. (\E k \in i + 1 .. m : s[k - 1] = "eol" /\ s[k] = "length")
        <=> (s[j] = "length" \/ \E k \in i + 1 .. j - 1 : s[k - 1] = "eol" /\ s[k] = "length")
    <3>1. \A k \in i + 1 .. j - 1 : k \in i + 1 .. m
      BY <1>1
    <3> QED
      BY <1>3, <1>4, <1>5, <3>1
  <2> QED
    BY <1>1, <2>1 DEF LengthTo
<1>7. KeepsTo(s, i, m + 1)
      = KeepsTo(s, i, j) \cup (IF s[j] = "keep" THEN {j} ELSE {})
  <2>1. \A k \in i + 1 .. j - 1 : k \in i + 1 .. m
    BY <1>1
  <2>2. ASSUME NEW k
        PROVE  k \in KeepsTo(s, i, m + 1)
               <=> (k \in KeepsTo(s, i, j) \/ (s[j] = "keep" /\ k = j))
    BY <1>1, <1>3, <1>4, <1>5, <2>1 DEF KeepsTo
  <2> QED
    BY <2>2
<1>8. s[j] = "keep" => (line = <<"keep">> <=> Len(line) = 1)
  BY <1>2
<1>9. ConnectionTo(s, i, m + 1)
      = IF s[j] = "keep" /\ ConnectionTo(s, i, j) = "none"
        THEN IF Len(line) = 1 THEN "keep-alive" ELSE "other"
        ELSE ConnectionTo(s, i, j)
  <2>1. CASE KeepsTo(s, i, j) = {} /\ s[j] = "keep"
    <3>1. KeepsTo(s, i, m + 1) = {j}
      BY <1>7, <2>1
    <3>2. First({j}) = j
      BY <1>1, FirstIs
    <3>3. ConnectionTo(s, i, j) = "none"
      BY <2>1 DEF ConnectionTo
    <3>4. ConnectionTo(s, i, m + 1) = IF line = <<"keep">> THEN "keep-alive" ELSE "other"
      BY <3>1, <3>2 DEF ConnectionTo, line
    <3> QED
      BY <1>8, <2>1, <3>3, <3>4
  <2>2. CASE KeepsTo(s, i, j) # {}
    <3> DEFINE f == First(KeepsTo(s, i, j))
    <3>1. KeepsTo(s, i, j) \in SUBSET Nat /\ KeepsTo(s, i, m + 1) \in SUBSET Nat
      BY DEF KeepsTo
    <3>2. f \in KeepsTo(s, i, j) /\ \A k \in KeepsTo(s, i, j) : f <= k
      BY <2>2, <3>1, FirstIsLeast
    <3>3. f <= j
      BY <3>2 DEF KeepsTo
    <3>4. f \in KeepsTo(s, i, m + 1) /\ \A k \in KeepsTo(s, i, m + 1) : f <= k
      BY <1>7, <3>2, <3>3
    <3> HIDE DEF f
    <3>5. First(KeepsTo(s, i, m + 1)) = f
      BY <3>1, <3>4, FirstIs
    <3>6. ConnectionTo(s, i, m + 1) = ConnectionTo(s, i, j)
      BY <2>2, <3>4, <3>5 DEF ConnectionTo, f
    <3>7. ConnectionTo(s, i, j) # "none"
      BY <2>2 DEF ConnectionTo
    <3> QED
      BY <3>6, <3>7
  <2>3. CASE KeepsTo(s, i, j) = {} /\ s[j] # "keep"
    BY <1>7, <2>3 DEF ConnectionTo
  <2> QED
    BY <2>1, <2>2, <2>3
<1>10. PICK res, c, c2, l, l2 :
          /\ res = Target(LineText(s, i))
          /\ c = ConnectionTo(s, i, j) /\ c2 = ConnectionTo(s, i, m + 1)
          /\ l = LengthTo(s, i, j) /\ l2 = LengthTo(s, i, m + 1)
  OBVIOUS
<1>11. PICK r : r = [resource |-> res, connection |-> c, length |-> l, body |-> <<>>]
  OBVIOUS
<1>12. HeadRequest(s, i, j) = r
       /\ HeadRequest(s, i, m + 1)
          = [resource |-> res, connection |-> c2, length |-> l2, body |-> <<>>]
  BY <1>10, <1>11 DEF HeadRequest
<1>13. PICK x, n : x = line[1] /\ n = Len(line)
  OBVIOUS
<1>14. WithHeader(r, line) =
         CASE x = "length" -> [r EXCEPT !.length = BodyLength]
           [] x = "keep" /\ r.connection = "none" ->
                 [r EXCEPT !.connection = IF n = 1 THEN "keep-alive" ELSE "other"]
           [] OTHER -> r
  BY <1>13 DEF WithHeader
<1>15. /\ l2 = IF x = "length" THEN BodyLength ELSE l
       /\ c2 = IF x = "keep" /\ c = "none"
               THEN IF n = 1 THEN "keep-alive" ELSE "other"
               ELSE c
  BY <1>2, <1>6, <1>9, <1>10, <1>13
<1>16. WithHeader(r, line)
       = [resource |-> res, connection |-> c2, length |-> l2, body |-> <<>>]
  <2>1. CASE x = "length"
    BY <1>11, <1>14, <1>15, <2>1
  <2>2. CASE x = "keep" /\ c = "none"
    BY <1>11, <1>14, <1>15, <2>2
  <2>3. CASE x # "length" /\ ~(x = "keep" /\ c = "none")
    BY <1>11, <1>14, <1>15, <2>3
  <2> QED
    BY <2>1, <2>2, <2>3
<1> QED
  BY <1>12, <1>16 DEF m, line

\* A blank next line ends the head.
LEMMA BlankNext ==
  ASSUME NEW s \in Seq(Text), NEW i \in Nat \ {0}, NEW j \in Nat, LinesRead(s, i, j),
         i < j, j <= Len(s), s[j] = "eol", ~TooLong(s, j)
  PROVE  Blanks(s, i) # {} /\ HeadEnd(s, i) = j /\ ~Faulty(s, i)
<1>1. /\ Len(s) \in Nat /\ s[j - 1] = "eol"
      /\ \A k \in Blanks(s, i) \cup WrongLines(s, i) : k >= j
  BY DEF LinesRead
<1>2. j # i + 1
  <2> SUFFICES ASSUME j = i + 1 PROVE FALSE
    OBVIOUS
  <2>1. i \in i .. Len(s) /\ s[i] = "eol"
    BY <1>1
  <2>2. ~Wrong(s, i, i) /\ Finished(s, i)
    BY <2>1, ReadInHead
  <2>3. LastOf(s, i) = i
    BY <2>1, LineEndsAt
  <2>4. LineText(s, i) = <<>>
    BY <2>1, <2>3 DEF LineText
  <2> QED
    BY <2>2, <2>4 DEF Wrong, IsRequestLine
<1>3. j \in Blanks(s, i) /\ Blanks(s, i) \in SUBSET Nat
  BY <1>1, <1>2 DEF Blanks, Eols
<1>4. HeadEnd(s, i) = j
  <2>1. \A k \in Blanks(s, i) : j <= k
    BY <1>1, <1>3
  <2> QED
    BY <1>3, <2>1, FirstIs DEF HeadEnd
<1>5. ASSUME NEW k \in WrongLines(s, i) PROVE FALSE
  <2>1. k \in i .. j /\ k >= j /\ Wrong(s, i, k)
    BY <1>1, <1>4, <1>5 DEF WrongLines, Starts
  <2>2. k = j
    BY <2>1
  <2> QED
    BY <2>1, <2>2 DEF Wrong
<1> QED
  BY <1>3, <1>4, <1>5 DEF Faulty

\* At the end of the head the lines read say what the head says.
LEMMA WholeHead ==
  ASSUME NEW s \in Seq(Text), NEW i \in Nat \ {0}, Blanks(s, i) # {}
  PROVE  /\ LengthTo(s, i, HeadEnd(s, i)) = BodySize(s, i)
         /\ (ConnectionTo(s, i, HeadEnd(s, i)) = "keep-alive") = Keep(s, i)
<1> DEFINE h == HeadEnd(s, i)
<1>1. h \in i + 2 .. Len(s) /\ s[h] = "eol"
  BY BlankLine
<1>2. \A k \in i + 1 .. h - 1 : s[k - 1] = "eol" => k \in Starts(s, i) /\ k > i
  BY <1>1 DEF Starts
<1>3. \A k \in Starts(s, i) : k > i /\ s[k] # "eol" => k \in i + 1 .. h - 1 /\ s[k - 1] = "eol"
  BY <1>1 DEF Starts
<1>4. LengthTo(s, i, h) = BodySize(s, i)
  <2> HIDE DEF h
  <2> QED
    BY <1>2, <1>3 DEF LengthTo, BodySize
<1>5. KeepsTo(s, i, h) = {k \in Starts(s, i) : k > i /\ s[k] = "keep"}
  <2> HIDE DEF h
  <2> QED
    BY <1>2, <1>3 DEF KeepsTo
<1>6. (ConnectionTo(s, i, h) = "keep-alive") = Keep(s, i)
  BY <1>5 DEF ConnectionTo, Keep
<1> QED
  BY <1>4, <1>6

-----------------------------------------------------------------------------
(* The parser in the stream. *)

\* What is left in the buffer is s from j on.
Buffered(s, j) == j \in 1 .. Len(s) + 1 /\ in_buffer = SubSeq(s, j, Len(s))

\* The lines of the request at i before j have been parsed.
ParsedHead(s, i, j) ==
    /\ recv_status \in {"LINE", "HEAD"} /\ resp_status = 200
    /\ LinesRead(s, i, j)
    /\ recv_status = "LINE" => j = i /\ request = NoRequest
    /\ recv_status = "HEAD" => i < j /\ request = HeadRequest(s, i, j)
    /\ pc = "OnMessage" => Open(s, i)

\* Its head has been, and what of its body stands before j.
ParsedBody(s, i, j) ==
    /\ recv_status \in {"BODY", "OVER"} /\ resp_status = 200
    /\ Blanks(s, i) # {} /\ ~Faulty(s, i)
    /\ HeadEnd(s, i) < j /\ j <= RequestEnd(s, i) + 1
    /\ request = [HeadRequest(s, i, HeadEnd(s, i)) EXCEPT
                      !.body = SubSeq(s, HeadEnd(s, i) + 1, j - 1)]
    /\ recv_status = "OVER" => pc = "OnMessage" /\ j = RequestEnd(s, i) + 1
    /\ recv_status = "BODY" /\ pc = "OnMessage" => Open(s, i)

\* One of its lines has been found wrong.
FoundFault(s, i) ==
    /\ recv_status = "ERROR" /\ pc = "OnMessage"
    /\ Faulty(s, i) /\ resp_status = FaultStatus(s, i)

\* The parser is inside the request that starts at i, and has taken what is before j.
Parsing(s, i, j) ==
    Buffered(s, j) /\ (ParsedHead(s, i, j) \/ ParsedBody(s, i, j) \/ FoundFault(s, i))

\* The line that Getline takes is the one that starts at j.
LEMMA BufferedLine ==
  ASSUME NEW s \in Seq(Text), NEW j \in Nat, Buffered(s, j),
         NEW n \in 1 .. Len(in_buffer), Getline(n)
  PROVE  /\ j \in Nat \ {0} /\ j <= Len(s) /\ j + n \in Nat
         /\ Finished(s, j) /\ LastOf(s, j) + 1 = j + n
         /\ LineText(s, j) = SubSeq(in_buffer, 1, n - 1)
         /\ TooLong(s, j) => n > MaxLine
         /\ n > MaxLine => TooLong(s, j)
         /\ s[j] = "eol" => SubSeq(in_buffer, 1, n - 1) = <<>>
         /\ SubSeq(in_buffer, 1, n - 1) = <<>> => s[j] = "eol"
         /\ Buffered(s, j + n)'
<1>1. /\ j \in 1 .. Len(s) + 1 /\ Len(s) \in Nat
      /\ Len(in_buffer) = Len(s) + 1 - j
      /\ \A k \in 1 .. Len(in_buffer) : in_buffer[k] = s[j + k - 1]
  BY DEF Buffered
<1>2. n \in Nat \ {0} /\ j + n - 1 \in j .. Len(s)
  BY <1>1
<1>3. /\ in_buffer[n] = "eol" /\ \A k \in 1 .. n - 1 : in_buffer[k] # "eol"
      /\ in_buffer' = SubSeq(in_buffer, n + 1, Len(in_buffer))
  BY DEF Getline
<1>4. s[j + n - 1] = "eol"
  BY <1>1, <1>3
<1>5. ASSUME NEW k \in j .. j + n - 1 - 1 PROVE s[k] # "eol"
  <2>1. k - j + 1 \in 1 .. n - 1 /\ k - j + 1 \in 1 .. Len(in_buffer) /\ j + (k - j + 1) - 1 = k
    BY <1>1, <1>2
  <2> QED
    BY <1>1, <1>3, <2>1
<1>6. Finished(s, j) /\ LastOf(s, j) = j + n - 1
  BY <1>1, <1>2, <1>4, <1>5, LineEndsAt
<1>7. SubSeq(s, j, j + n - 1 - 1) = SubSeq(in_buffer, 1, n - 1)
  BY <1>1, <1>2
<1>8. LineText(s, j) = SubSeq(in_buffer, 1, n - 1)
  BY <1>6, <1>7 DEF LineText
<1>9. (TooLong(s, j) => n > MaxLine) /\ (n > MaxLine => TooLong(s, j))
  BY <1>1, <1>2, <1>6, MaxLineAssumption DEF TooLong
<1>10. (s[j] = "eol" => n = 1) /\ (n = 1 => s[j] = "eol")
  BY <1>1, <1>2, <1>4, <1>5
<1>11. /\ SubSeq(in_buffer, 1, n - 1) = <<>> => n = 1
       /\ n = 1 => SubSeq(in_buffer, 1, n - 1) = <<>>
  <2>1. Len(SubSeq(in_buffer, 1, n - 1)) = n - 1
    BY <1>1, <1>2
  <2>2. n = 1 => SubSeq(in_buffer, 1, n - 1) = <<>>
    BY <1>2
  <2>3. Len(<<>>) = 0
    OBVIOUS
  <2> QED
    BY <1>2, <2>1, <2>2, <2>3
<1>12. SubSeq(in_buffer, n + 1, Len(in_buffer)) = SubSeq(s, j + n, Len(s))
  BY <1>1, <1>2
<1>13. Buffered(s, j + n)'
  BY <1>1, <1>2, <1>3, <1>12 DEF Buffered
<1> QED
  <2>1. j \in Nat \ {0} /\ j <= Len(s) /\ j + n \in Nat /\ LastOf(s, j) + 1 = j + n
    BY <1>1, <1>2, <1>6
  <2>2. /\ s[j] = "eol" => SubSeq(in_buffer, 1, n - 1) = <<>>
        /\ SubSeq(in_buffer, 1, n - 1) = <<>> => s[j] = "eol"
    BY <1>10, <1>11
  <2> QED
    BY <1>6, <1>8, <1>9, <1>13, <2>1, <2>2

\* If there is no line to take, the line at j is the last and unfinished.
LEMMA BufferedNoLine ==
  ASSUME NEW s \in Seq(Text), NEW j \in Nat, Buffered(s, j), NoLine
  PROVE  /\ j \in Nat \ {0} /\ j <= Len(s) + 1
         /\ ~Finished(s, j) /\ LastOf(s, j) = Len(s)
         /\ TooLong(s, j) <=> Len(in_buffer) > MaxLine
         /\ Len(in_buffer) > MaxLine => j <= Len(s)
<1>1. /\ j \in 1 .. Len(s) + 1 /\ Len(s) \in Nat
      /\ Len(in_buffer) = Len(s) + 1 - j
      /\ \A k \in 1 .. Len(in_buffer) : in_buffer[k] = s[j + k - 1]
  BY DEF Buffered
<1>2. ASSUME NEW k \in j .. Len(s) PROVE s[k] # "eol"
  <2>1. k - j + 1 \in 1 .. Len(in_buffer) /\ j + (k - j + 1) - 1 = k
    BY <1>1
  <2> QED
    BY <1>1, <2>1 DEF NoLine
<1>3. ~Finished(s, j)
  BY <1>1, <1>2 DEF Finished, Eols
<1>4. LastOf(s, j) = Len(s)
  BY <1>3 DEF LastOf
<1> QED
  BY <1>1, <1>3, <1>4, MaxLineAssumption DEF TooLong

\* AwaitLine leaves the request open, or finds its last line too long.
LEMMA AwaitLineParses ==
  ASSUME NEW s \in Seq(Text), NEW i \in Nat \ {0}, NEW j \in Nat, Buffered(s, j),
         ParsedHead(s, i, j), AwaitLine
  PROVE  Parsing(s, i, j)'
<1>1. NoLine /\ in_buffer' = in_buffer
  BY DEF AwaitLine
<1>2. Buffered(s, j)'
  BY <1>1 DEF Buffered
<1>3. LinesRead(s, i, j)
  BY DEF ParsedHead
<1>4. CASE Len(in_buffer) > MaxLine
  <2>1. recv_status' = "ERROR" /\ resp_status' = 414 /\ pc' = "OnMessage"
    BY <1>4 DEF AwaitLine, Fail
  <2>2. TooLong(s, j) /\ j <= Len(s)
    BY <1>1, <1>4, BufferedNoLine
  <2>3. Faulty(s, i) /\ FaultStatus(s, i) = 414
    BY <1>3, <2>2, WrongNext DEF Wrong
  <2> QED
    BY <1>2, <2>1, <2>3 DEF Parsing, FoundFault
<1>5. CASE ~(Len(in_buffer) > MaxLine)
  <2>1. pc' = "OnMessage" /\ UNCHANGED parser
    BY <1>5 DEF AwaitLine
  <2>2. Open(s, i)
    BY <1>1, <1>3, <1>5, BufferedNoLine, OpenNext
  <2>3. ParsedHead(s, i, j)'
    BY <2>1, <2>2 DEF ParsedHead, parser
  <2> QED
    BY <1>2, <2>3 DEF Parsing
<1> QED
  BY <1>4, <1>5

\* A line that is refused is the first wrong one.
LEMMA FailParses ==
  ASSUME NEW s \in Seq(Text), NEW i \in Nat \ {0}, NEW j \in Nat, Buffered(s, j),
         ParsedHead(s, i, j), NEW n \in 1 .. Len(in_buffer), Getline(n),
         NEW code, Fail(code), Wrong(s, i, j), code = IF n > MaxLine THEN 414 ELSE 400
  PROVE  Parsing(s, i, j + n)'
<1>1. Buffered(s, j + n)' /\ j <= Len(s) /\ (TooLong(s, j) <=> n > MaxLine)
  BY BufferedLine
<1>2. Faulty(s, i) /\ FaultStatus(s, i) = code
  BY <1>1, WrongNext DEF ParsedHead
<1>3. FoundFault(s, i)'
  BY <1>2 DEF Fail, FoundFault
<1> QED
  BY <1>1, <1>3 DEF Parsing

\* RecvHttpLine finds the request line that the stream has.
LEMMA LineParses ==
  ASSUME NEW s \in Seq(Text), NEW i \in Nat \ {0}, NEW j \in Nat, Parsing(s, i, j),
         RecvHttpLine
  PROVE  \E k \in Nat : Parsing(s, i, k)'
<1>1. pc = "RecvHttpRequest" /\ recv_status = "LINE"
  BY DEF RecvHttpLine
<1>2. Buffered(s, j) /\ ParsedHead(s, i, j)
  BY <1>1 DEF Parsing, ParsedBody, FoundFault
<1>3. LinesRead(s, i, j) /\ j = i /\ request = NoRequest /\ resp_status = 200
  BY <1>1, <1>2 DEF ParsedHead
<1>4. CASE AwaitLine
  BY <1>2, <1>4, AwaitLineParses
<1>5. ASSUME NEW n \in 1 .. Len(in_buffer), Getline(n)
      PROVE  /\ Finished(s, j) /\ j + n \in Nat /\ (TooLong(s, j) => n > MaxLine)
             /\ (n > MaxLine => TooLong(s, j))
             /\ LineText(s, j) = SubSeq(in_buffer, 1, n - 1) /\ LastOf(s, j) + 1 = j + n
             /\ Buffered(s, j + n)' /\ n \in Nat
  BY <1>2, <1>5, BufferedLine
<1>6. ASSUME NEW n \in 1 .. Len(in_buffer), Getline(n), n > MaxLine, Fail(414)
      PROVE  \E k \in Nat : Parsing(s, i, k)'
  <2>1. Wrong(s, i, j)
    BY <1>5, <1>6 DEF Wrong
  <2> QED
    BY <1>2, <1>5, <1>6, <2>1, FailParses
<1>7. ASSUME NEW n \in 1 .. Len(in_buffer), Getline(n), n <= MaxLine,
             ~IsRequestLine(SubSeq(in_buffer, 1, n - 1)), Fail(400)
      PROVE  \E k \in Nat : Parsing(s, i, k)'
  <2>0. /\ Finished(s, j) /\ LineText(s, j) = SubSeq(in_buffer, 1, n - 1)
        /\ ~(n > MaxLine)
    BY <1>5, <1>7, MaxLineAssumption
  <2>1. Wrong(s, i, j)
    BY <1>3, <1>7, <2>0 DEF Wrong
  <2> QED
    BY <1>2, <1>5, <1>7, <2>0, <2>1, FailParses
<1>8. ASSUME NEW n \in 1 .. Len(in_buffer), Getline(n), n <= MaxLine,
             IsRequestLine(SubSeq(in_buffer, 1, n - 1)),
             request' = [request EXCEPT !.resource = Target(SubSeq(in_buffer, 1, n - 1))],
             recv_status' = "HEAD", UNCHANGED <<resp_status, pc>>
      PROVE  \E k \in Nat : Parsing(s, i, k)'
  <2>0. ~TooLong(s, j) /\ LineText(s, j) = SubSeq(in_buffer, 1, n - 1)
    BY <1>5, <1>8, MaxLineAssumption
  <2>1. ~Wrong(s, i, j)
    BY <1>3, <1>8, <2>0 DEF Wrong
  <2>2. LinesRead(s, i, j + n)
    BY <1>3, <1>5, <1>8, <2>1, NextLine
  <2>3. request' = HeadRequest(s, i, j + n)
    BY <1>3, <1>5, <1>8, FirstLineRequest
  <2>4. i < j + n
    BY <1>3, <1>8
  <2>5. ParsedHead(s, i, j + n)'
    BY <1>1, <1>3, <1>8, <2>2, <2>3, <2>4 DEF ParsedHead
  <2> QED
    BY <1>5, <1>8, <2>5 DEF Parsing
<1> QED
  BY <1>4, <1>6, <1>7, <1>8 DEF RecvHttpLine

\* RecvHttpHeader finds the next header line, the blank line or the fault.
LEMMA HeaderParses ==
  ASSUME NEW s \in Seq(Text), NEW i \in Nat \ {0}, NEW j \in Nat, Parsing(s, i, j),
         RecvHttpHeader
  PROVE  \E k \in Nat : Parsing(s, i, k)'
<1>1. pc = "RecvHttpRequest" /\ recv_status = "HEAD"
  BY DEF RecvHttpHeader
<1>2. Buffered(s, j) /\ ParsedHead(s, i, j)
  BY <1>1 DEF Parsing, ParsedBody, FoundFault
<1>3. LinesRead(s, i, j) /\ i < j /\ request = HeadRequest(s, i, j) /\ resp_status = 200
      /\ s[j - 1] = "eol"
  BY <1>1, <1>2 DEF ParsedHead, LinesRead
<1>4. CASE AwaitLine
  BY <1>2, <1>4, AwaitLineParses
<1>5. ASSUME NEW n \in 1 .. Len(in_buffer), Getline(n)
      PROVE  /\ Finished(s, j) /\ j + n \in Nat /\ (TooLong(s, j) => n > MaxLine)
             /\ (n > MaxLine => TooLong(s, j))
             /\ LineText(s, j) = SubSeq(in_buffer, 1, n - 1) /\ LastOf(s, j) + 1 = j + n
             /\ Buffered(s, j + n)' /\ n \in Nat /\ j <= Len(s)
             /\ s[j] = "eol" => SubSeq(in_buffer, 1, n - 1) = <<>>
             /\ SubSeq(in_buffer, 1, n - 1) = <<>> => s[j] = "eol"
  <2>1. /\ Finished(s, j) /\ j + n \in Nat /\ (TooLong(s, j) => n > MaxLine)
        /\ (n > MaxLine => TooLong(s, j))
        /\ LineText(s, j) = SubSeq(in_buffer, 1, n - 1) /\ LastOf(s, j) + 1 = j + n
        /\ Buffered(s, j + n)' /\ n \in Nat /\ j <= Len(s)
    BY <1>2, <1>5, BufferedLine
  <2>2. s[j] = "eol" => SubSeq(in_buffer, 1, n - 1) = <<>>
    BY <1>2, <1>5, BufferedLine
  <2>3. SubSeq(in_buffer, 1, n - 1) = <<>> => s[j] = "eol"
    BY <1>2, <1>5, BufferedLine
  <2> QED
    BY <2>1, <2>2, <2>3
<1>6. ASSUME NEW n \in 1 .. Len(in_buffer), Getline(n), n > MaxLine, Fail(414)
      PROVE  \E k \in Nat : Parsing(s, i, k)'
  <2>1. Wrong(s, i, j)
    BY <1>5, <1>6 DEF Wrong
  <2> QED
    BY <1>2, <1>5, <1>6, <2>1, FailParses
<1>7. ASSUME NEW n \in 1 .. Len(in_buffer), Getline(n), n <= MaxLine,
             SubSeq(in_buffer, 1, n - 1) = <<>>, recv_status' = "BODY",
             UNCHANGED <<resp_status, request, pc>>
      PROVE  \E k \in Nat : Parsing(s, i, k)'
  <2>1. s[j] = "eol" /\ ~TooLong(s, j)
    BY <1>5, <1>7, MaxLineAssumption
  <2>2. Blanks(s, i) # {} /\ HeadEnd(s, i) = j /\ ~Faulty(s, i)
    BY <1>3, <1>5, <1>7, <2>1, BlankNext
  <2>3. LastOf(s, j) = j /\ n = 1
    <3>1. LastOf(s, j) = j
      BY <1>3, <1>5, <1>7, <2>1, LineEndsAt
    <3> QED
      BY <1>5, <1>7, <3>1
  <2>4. BodySize(s, i) \in Nat /\ RequestEnd(s, i) = j + BodySize(s, i)
    BY <2>2, BodyLengthAssumption DEF BodySize, RequestEnd
  <2>5. PICK k \in Nat : k = j + 1
    OBVIOUS
  <2>6. request' = [HeadRequest(s, i, j) EXCEPT !.body = SubSeq(s, j + 1, k - 1)]
    <3>1. SubSeq(s, j + 1, k - 1) = <<>>
      BY <1>3, <2>5
    <3>2. HeadRequest(s, i, j) = [HeadRequest(s, i, j) EXCEPT !.body = <<>>]
      BY DEF HeadRequest
    <3> QED
      BY <1>3, <1>7, <3>1, <3>2
  <2>7. j < k /\ k <= RequestEnd(s, i) + 1
    BY <2>4, <2>5
  <2>8. resp_status' = 200 /\ pc' = "RecvHttpRequest" /\ recv_status' = "BODY"
    BY <1>1, <1>3, <1>7
  <2>9. ParsedBody(s, i, k)'
    BY <2>2, <2>6, <2>7, <2>8 DEF ParsedBody
  <2> QED
    BY <1>5, <1>7, <2>3, <2>5, <2>9 DEF Parsing
<1>8. ASSUME NEW n \in 1 .. Len(in_buffer), Getline(n), n <= MaxLine,
             SubSeq(in_buffer, 1, n - 1) # <<>>,
             ~IsHeader(SubSeq(in_buffer, 1, n - 1)), Fail(400)
      PROVE  \E k \in Nat : Parsing(s, i, k)'
  <2>0. /\ Finished(s, j) /\ LineText(s, j) = SubSeq(in_buffer, 1, n - 1)
        /\ s[j] # "eol"
    BY <1>5, <1>8
  <2>2. ~(n > MaxLine)
    BY <1>8, MaxLineAssumption
  <2>1. Wrong(s, i, j)
    BY <1>3, <1>8, <2>0 DEF Wrong
  <2> QED
    BY <1>2, <1>5, <1>8, <2>0, <2>1, <2>2, FailParses
<1>9. ASSUME NEW n \in 1 .. Len(in_buffer), Getline(n), n <= MaxLine,
             SubSeq(in_buffer, 1, n - 1) # <<>>, IsHeader(SubSeq(in_buffer, 1, n - 1)),
             request' = WithHeader(request, SubSeq(in_buffer, 1, n - 1)),
             UNCHANGED <<recv_status, resp_status, pc>>
      PROVE  \E k \in Nat : Parsing(s, i, k)'
  <2>0. /\ Finished(s, j) /\ LineText(s, j) = SubSeq(in_buffer, 1, n - 1)
        /\ s[j] # "eol" /\ ~TooLong(s, j)
    BY <1>5, <1>9, MaxLineAssumption
  <2>1. ~Wrong(s, i, j) /\ s[j] # "eol"
    BY <1>3, <1>9, <2>0 DEF Wrong
  <2>2. LinesRead(s, i, j + n)
    BY <1>3, <1>5, <1>9, <2>1, NextLine
  <2>3. request' = HeadRequest(s, i, j + n)
    BY <1>3, <1>5, <1>9, <2>1, NextHeader
  <2>4. i < j + n
    BY <1>3, <1>9
  <2>5. ParsedHead(s, i, j + n)'
    BY <1>1, <1>3, <1>9, <2>2, <2>3, <2>4 DEF ParsedHead
  <2> QED
    BY <1>5, <1>9, <2>5 DEF Parsing
<1> QED
  BY <1>4, <1>6, <1>7, <1>8, <1>9 DEF RecvHttpHeader

\* RecvHttpBody takes the part of the body that has come, and no more.
LEMMA BodyParses ==
  ASSUME NEW s \in Seq(Text), NEW i \in Nat \ {0}, NEW j \in Nat, Parsing(s, i, j),
         RecvHttpBody
  PROVE  \E k \in Nat : Parsing(s, i, k)'
<1>1. pc = "RecvHttpRequest" /\ recv_status = "BODY" /\ pc' = "OnMessage"
      /\ resp_status' = resp_status
  BY DEF RecvHttpBody
<1>2. Buffered(s, j) /\ ParsedBody(s, i, j)
  BY <1>1 DEF Parsing, ParsedHead, FoundFault
<1>3. PICK h, r, e : h = HeadEnd(s, i) /\ r = HeadRequest(s, i, h) /\ e = RequestEnd(s, i)
  OBVIOUS
<1>4. /\ Blanks(s, i) # {} /\ ~Faulty(s, i) /\ resp_status = 200
      /\ h < j /\ j <= e + 1
      /\ request = [r EXCEPT !.body = SubSeq(s, h + 1, j - 1)]
  BY <1>2, <1>3 DEF ParsedBody
<1>5. /\ h \in Nat \ {0} /\ h <= Len(s) /\ Len(s) \in Nat
      /\ e = h + BodySize(s, i) /\ BodySize(s, i) \in Nat
      /\ j \in 1 .. Len(s) + 1
      /\ in_buffer = SubSeq(s, j, Len(s))
  <2>1. BodySize(s, i) \in Nat
    BY BodyLengthAssumption DEF BodySize
  <2>2. h \in i + 2 .. Len(s) /\ Len(s) \in Nat
    BY <1>3, <1>4, BlankLine
  <2>3. e = h + BodySize(s, i)
    BY <1>3 DEF RequestEnd
  <2> QED
    BY <1>2, <2>1, <2>2, <2>3 DEF Buffered
<1>6. /\ r.length = BodySize(s, i)
      /\ r = [resource |-> r.resource, connection |-> r.connection, length |-> r.length,
              body |-> r.body]
  BY <1>3, <1>4, WholeHead DEF HeadRequest
<1>7. /\ request.length = BodySize(s, i) /\ request.body = SubSeq(s, h + 1, j - 1)
  BY <1>4, <1>6
<1>8. Len(SubSeq(s, h + 1, j - 1)) = j - 1 - h /\ Len(in_buffer) = Len(s) + 1 - j
  BY <1>4, <1>5
<1>9. Lacking = e + 1 - j /\ e \in Nat
  <2>1. Lacking = BodySize(s, i) - (j - 1 - h)
    BY <1>7, <1>8 DEF Lacking
  <2> QED
    BY <1>5, <2>1
<1>10. PICK n : n = IF Len(in_buffer) < Lacking THEN Len(in_buffer) ELSE Lacking
  OBVIOUS
<1>11. /\ n \in Nat /\ n <= Len(in_buffer) /\ n <= e + 1 - j
       /\ n = Lacking => j + n = e + 1
       /\ n # Lacking => j + n = Len(s) + 1 /\ Len(s) < e
  <2>1. PICK b, l : b = Len(in_buffer) /\ l = Lacking
    OBVIOUS
  <2>2. b = Len(s) + 1 - j /\ l = e + 1 - j /\ n = (IF b < l THEN b ELSE l)
    BY <1>8, <1>9, <1>10, <2>1
  <2>3. b \in Nat /\ l \in Nat
    BY <1>4, <1>5, <1>9, <2>2
  <2>4. /\ n \in Nat /\ n <= b /\ n <= e + 1 - j
        /\ n = l => j + n = e + 1
        /\ n # l => j + n = Len(s) + 1 /\ Len(s) < e
    BY <1>4, <1>5, <1>9, <2>2, <2>3
  <2> QED
    BY <2>1, <2>4
<1>12. /\ request' = [request EXCEPT !.body = @ \o SubSeq(in_buffer, 1, n)]
       /\ in_buffer' = SubSeq(in_buffer, n + 1, Len(in_buffer))
       /\ recv_status' = IF n = Lacking THEN "OVER" ELSE "BODY"
  BY <1>10 DEF RecvHttpBody
<1>13. PICK k \in Nat : k = j + n
  BY <1>11
<1>14. Buffered(s, k)'
  <2>1. SubSeq(in_buffer, n + 1, Len(in_buffer)) = SubSeq(s, k, Len(s))
    BY <1>5, <1>8, <1>11, <1>13
  <2>2. k \in 1 .. Len(s) + 1
    BY <1>5, <1>8, <1>11, <1>13
  <2> QED
    BY <1>12, <2>1, <2>2 DEF Buffered
<1>15. request' = [r EXCEPT !.body = SubSeq(s, h + 1, k - 1)]
  <2>1. SubSeq(in_buffer, 1, n) = SubSeq(s, j, k - 1)
    BY <1>5, <1>8, <1>11, <1>13
  <2>2. SubSeq(s, h + 1, j - 1) \o SubSeq(s, j, k - 1) = SubSeq(s, h + 1, k - 1)
    <3>1. /\ h + 1 \in 1 .. Len(s) + 1 /\ j \in h + 1 .. Len(s) + 1
          /\ k - 1 \in j - 1 .. Len(s)
      <4>1. h \in Nat /\ j \in Nat /\ h < j /\ j <= Len(s) + 1 /\ n \in Nat
            /\ n <= Len(s) + 1 - j
        BY <1>4, <1>5, <1>8, <1>11
      <4> QED
        BY <1>5, <1>13, <4>1
    <3> QED
      BY <3>1, Adjoin
  <2> QED
    BY <1>4, <1>6, <1>7, <1>12, <2>1, <2>2
<1>16. h < k /\ k <= e + 1
  BY <1>4, <1>5, <1>11, <1>13
<1>17. n # Lacking => Open(s, i)
  <2>1. n # Lacking => ~(e <= Len(s))
    BY <1>5, <1>11
  <2> QED
    BY <1>3, <1>4, <2>1 DEF Open, Complete
<1>18. ParsedBody(s, i, k)'
  BY <1>1, <1>3, <1>4, <1>11, <1>12, <1>13, <1>15, <1>16, <1>17 DEF ParsedBody
<1> QED
  BY <1>13, <1>14, <1>18 DEF Parsing

\* What has been parsed is still what the stream says when more of it has come.
LEMMA ReadParses ==
  ASSUME NEW s \in Seq(Text), NEW t \in Seq(Text), Extends(s, t),
         NEW i \in Nat \ {0}, NEW j \in Nat, Parsing(s, i, j), pc = "idle",
         in_buffer' = in_buffer \o SubSeq(t, Len(s) + 1, Len(t)),
         pc' = "RecvHttpRequest", UNCHANGED parser
  PROVE  Parsing(t, i, j)'
<1>1. /\ j \in 1 .. Len(s) + 1 /\ in_buffer = SubSeq(s, j, Len(s))
      /\ ParsedHead(s, i, j) \/ ParsedBody(s, i, j)
  BY DEF Parsing, FoundFault, Buffered
<1>2. /\ Len(s) \in Nat /\ Len(t) \in Nat /\ Len(s) <= Len(t)
      /\ \A k \in 1 .. Len(s) : t[k] = s[k]
  BY DEF Extends
<1>3. recv_status' = recv_status /\ resp_status' = resp_status /\ request' = request
  BY DEF parser
<1>4. Buffered(t, j)'
  <2>1. SubSeq(s, j, Len(s)) = SubSeq(t, j, Len(s))
    BY <1>1, <1>2
  <2>2. j \in 1 .. Len(t) + 1 /\ Len(s) \in j - 1 .. Len(t) /\ Len(t) \in Len(s) .. Len(t)
    BY <1>1, <1>2
  <2>3. SubSeq(t, j, Len(s)) \o SubSeq(t, Len(s) + 1, Len(t)) = SubSeq(t, j, Len(t))
    BY <2>2, ConcatAdjacentSubSeq
  <2> QED
    BY <1>1, <2>1, <2>2, <2>3 DEF Buffered
<1>5. CASE ParsedHead(s, i, j)
  <2>1. LinesRead(t, i, j)
    BY <1>5, LinesReadKept DEF ParsedHead
  <2>2. recv_status = "HEAD" => request = HeadRequest(t, i, j)
    <3>1. LinesRead(s, i, j)
      BY <1>5 DEF ParsedHead
    <3>2. ASSUME recv_status = "HEAD" PROVE HeadRequest(t, i, j) = HeadRequest(s, i, j)
      <4>1. i < j /\ j <= Len(s) + 1 /\ s[j - 1] = "eol"
        BY <1>5, <3>1, <3>2 DEF ParsedHead, LinesRead
      <4> QED
        BY <4>1, HeadRequestKept
    <3> QED
      BY <1>5, <3>2 DEF ParsedHead
  <2>3. ParsedHead(t, i, j)'
    BY <1>3, <1>5, <2>1, <2>2 DEF ParsedHead
  <2> QED
    BY <1>4, <2>3 DEF Parsing
<1>6. CASE ParsedBody(s, i, j)
  <2>1. Blanks(s, i) # {} /\ ~Faulty(s, i)
    BY <1>6 DEF ParsedBody
  <2>2. PICK h : h = HeadEnd(s, i)
    OBVIOUS
  <2>3. h \in i + 2 .. Len(s) /\ s[h] = "eol" /\ s[h - 1] = "eol"
    BY <2>1, <2>2, BlankLine
  <2>4. Blanks(t, i) # {} /\ HeadEnd(t, i) = h /\ ~Faulty(t, i)
        /\ RequestEnd(t, i) = RequestEnd(s, i)
    BY <2>1, <2>2, HeadKept, SoundKept, HeadersKept DEF RequestEnd
  <2>5. HeadRequest(t, i, h) = HeadRequest(s, i, h)
    <3>1. i < h /\ h <= Len(s) + 1 /\ h \in Nat
      BY <1>2, <2>3
    <3> QED
      BY <2>3, <3>1, HeadRequestKept
  <2>6. h < j /\ SubSeq(t, h + 1, j - 1) = SubSeq(s, h + 1, j - 1)
    <3>1. h < j
      BY <1>6, <2>2 DEF ParsedBody
    <3> QED
      BY <1>1, <1>2, <2>3, <3>1
  <2>7. recv_status = "BODY"
    BY <1>6 DEF ParsedBody
  <2>8. ParsedBody(t, i, j)'
    BY <1>3, <1>6, <2>2, <2>4, <2>5, <2>6, <2>7 DEF ParsedBody
  <2> QED
    BY <1>4, <2>8 DEF Parsing
<1> QED
  BY <1>1, <1>5, <1>6

\* A request that OnMessage routes is the one of the stream.
LEMMA ParsedRequest ==
  ASSUME NEW s \in Seq(Text), NEW i \in Nat \ {0}, NEW j \in Nat, Parsing(s, i, j),
         recv_status = "OVER"
  PROVE  /\ Complete(s, i) /\ Done(request) = RequestAt(s, i) /\ j = RequestEnd(s, i) + 1
<1>1. Buffered(s, j) /\ ParsedBody(s, i, j)
  BY DEF Parsing, ParsedHead, FoundFault
<1>2. PICK h, r, e : h = HeadEnd(s, i) /\ r = HeadRequest(s, i, h) /\ e = RequestEnd(s, i)
  OBVIOUS
<1>3. /\ Blanks(s, i) # {} /\ ~Faulty(s, i) /\ j = e + 1
      /\ request = [r EXCEPT !.body = SubSeq(s, h + 1, j - 1)]
  BY <1>1, <1>2 DEF ParsedBody
<1>4. e \in Nat /\ h \in Nat /\ e <= Len(s)
  <2>1. BodySize(s, i) \in Nat /\ h \in Nat
    BY <1>2, BlankLine, BodyLengthAssumption DEF BodySize
  <2>2. e \in Nat
    BY <1>2, <2>1 DEF RequestEnd
  <2> QED
    BY <1>1, <1>3, <2>1, <2>2 DEF Buffered
<1>5. Complete(s, i)
  BY <1>2, <1>3, <1>4 DEF Complete
<1>6. /\ r.resource = Target(LineText(s, i)) /\ r.connection = ConnectionTo(s, i, h)
      /\ r = [resource |-> r.resource, connection |-> r.connection, length |-> r.length,
              body |-> r.body]
  BY <1>2 DEF HeadRequest
<1>7. /\ request.resource = Target(LineText(s, i))
      /\ request.connection = ConnectionTo(s, i, h)
      /\ request.body = SubSeq(s, h + 1, e)
  <2>1. j - 1 = e
    BY <1>3, <1>4
  <2> QED
    BY <1>3, <1>6, <2>1
<1>8. (ConnectionTo(s, i, h) = "keep-alive") = Keep(s, i)
  BY <1>2, <1>3, WholeHead
<1>9. Done(request) = RequestAt(s, i)
  BY <1>2, <1>7, <1>8 DEF Done, RequestAt
<1> QED
  BY <1>2, <1>3, <1>5, <1>9

\* The parser after Reset is at the start of a request.
LEMMA ResetParses ==
  ASSUME NEW s \in Seq(Text), NEW j \in Nat \ {0}, Buffered(s, j)', Reset,
         pc' # "OnMessage"
  PROVE  Parsing(s, j, j)'
<1>1. j <= Len(s) + 1 /\ Len(s) \in Nat
  BY DEF Buffered
<1>2. \A k \in Blanks(s, j) \cup WrongLines(s, j) : k >= j
  BY DEF Blanks, Eols, WrongLines, Starts
<1>3. LinesRead(s, j, j)
  BY <1>1, <1>2 DEF LinesRead
<1>4. ParsedHead(s, j, j)'
  BY <1>3 DEF ParsedHead, Reset
<1> QED
  BY <1>4 DEF Parsing

-----------------------------------------------------------------------------
(* The server in the stream. *)

\* What has arrived is a stream.
LEMMA ArrivedType ==
  ASSUME TypeOK
  PROVE  Arrived \in Seq(Text) /\ Len(Arrived) = arrived /\ arrived \in Nat
<1>1. stream \in Seq(Text) /\ arrived \in 0 .. Len(stream) /\ Len(stream) \in Nat
  BY DEF TypeOK
<1> QED
  BY <1>1 DEF Arrived

\* The requests before position i of s have been routed, and no other.
Routed(s, i) ==
    /\ Requests(s) = served \o RequestsFrom(s)[i]
    /\ Remainder(s) = RemainderFrom(s)[i]

\* The context stands where the stream does: at one of its requests, or at its fault.
Followed ==
    \E i \in 1 .. Len(Arrived) + 1 :
        /\ Routed(Arrived, i)
        /\ failed = 0 => \E j \in Nat : Parsing(Arrived, i, j)
        /\ failed # 0 => Faulty(Arrived, i) /\ failed = FaultStatus(Arrived, i)

\* A step that routes nothing and leaves the parser at the same request.
LEMMA FollowedKept ==
  ASSUME TypeOK, Followed, UNCHANGED <<stream, arrived, served, failed>>,
         \A s \in Seq(Text), i \in Nat \ {0}, j \in Nat :
            Parsing(s, i, j) => \E k \in Nat : Parsing(s, i, k)'
  PROVE  Followed'
<1>1. PICK s : s = Arrived
  OBVIOUS
<1>2. Arrived' = s /\ s \in Seq(Text)
  BY <1>1, ArrivedType DEF Arrived
<1>3. PICK i \in 1 .. Len(s) + 1 :
        /\ Routed(s, i)
        /\ failed = 0 => \E j \in Nat : Parsing(s, i, j)
        /\ failed # 0 => Faulty(s, i) /\ failed = FaultStatus(s, i)
  BY <1>1 DEF Followed
<1>4. Routed(s, i)'
  BY <1>3 DEF Routed
<1>5. failed' = 0 => \E k \in Nat : Parsing(s, i, k)'
  BY <1>2, <1>3
<1> QED
  BY <1>2, <1>3, <1>4, <1>5 DEF Followed

\* Outside OnMessage, and when it returns, the parser rests.
LEMMA ParserRests ==
  ASSUME NEW s \in Seq(Text), NEW i \in Nat \ {0}, NEW j \in Nat, Parsing(s, i, j),
         UNCHANGED <<in_buffer, parser>>, pc' # "OnMessage",
         pc = "OnMessage" => resp_status < 400 /\ recv_status # "OVER"
  PROVE  Parsing(s, i, j)'
<1>1. ~FoundFault(s, i)
  BY DEF FoundFault, FaultStatus
<1>2. Buffered(s, j)'
  BY DEF Parsing, Buffered
<1>3. CASE ParsedHead(s, i, j)
  <2>1. ParsedHead(s, i, j)'
    BY <1>3 DEF ParsedHead, parser
  <2> QED
    BY <1>2, <2>1 DEF Parsing
<1>4. CASE ParsedBody(s, i, j)
  <2>1. recv_status = "BODY"
    BY <1>4 DEF ParsedBody
  <2>2. ParsedBody(s, i, j)'
    BY <1>4, <2>1 DEF ParsedBody, parser
  <2> QED
    BY <1>2, <2>2 DEF Parsing
<1> QED
  BY <1>1, <1>3, <1>4 DEF Parsing

\* A read lengthens the stream, and changes nothing of what it held.
LEMMA ReadFollowed ==
  ASSUME TypeOK, Followed, NEW n \in 1 .. Len(stream), HandleRead(n)
  PROVE  Followed'
<1>1. PICK s, t : s = Arrived /\ t = Arrived'
  OBVIOUS
<1>2. /\ stream \in Seq(Text) /\ arrived \in Nat /\ n \in Nat /\ arrived + n <= Len(stream)
      /\ arrived' = arrived + n /\ stream' = stream
      /\ in_buffer' = in_buffer \o SubSeq(stream, arrived + 1, arrived + n)
      /\ pc = "idle" /\ pc' = "RecvHttpRequest" /\ UNCHANGED <<parser, history>>
  BY DEF HandleRead, TypeOK
<1>3. s = SubSeq(stream, 1, arrived) /\ t = SubSeq(stream, 1, arrived + n)
  BY <1>1, <1>2 DEF Arrived
<1>4. /\ s \in Seq(Text) /\ t \in Seq(Text) /\ Len(s) = arrived /\ Len(t) = arrived + n
      /\ Extends(s, t)
  BY <1>2, <1>3 DEF Extends
<1>5. SubSeq(stream, arrived + 1, arrived + n) = SubSeq(t, Len(s) + 1, Len(t))
  BY <1>2, <1>3, <1>4
<1>6. PICK i \in 1 .. Len(s) + 1 :
        /\ Routed(s, i)
        /\ failed = 0 => \E j \in Nat : Parsing(s, i, j)
        /\ failed # 0 => Faulty(s, i) /\ failed = FaultStatus(s, i)
  BY <1>1 DEF Followed
<1>7. i \in Nat \ {0} /\ i \in 1 .. Len(t) + 1 /\ served' = served /\ failed' = failed
      /\ 1 \in 1 .. Len(s) + 1
  BY <1>2, <1>4, <1>6 DEF history
<1>8. Routed(t, i)'
  <2>1. PICK m, x, y : m = RemainderFrom(s)[i] /\ x = RequestsFrom(s)[i]
                       /\ y = RequestsFrom(t)[m]
    OBVIOUS
  <2>2. Requests(s) = served \o x /\ Remainder(s) = m
    BY <1>6, <2>1 DEF Routed
  <2>3. Requests(t) = Requests(s) \o y /\ Remainder(t) = RemainderFrom(t)[m]
    <3>1. RequestsFrom(s)[1] = Requests(s) /\ RemainderFrom(s)[1] = m
      BY <2>2, FromFirst
    <3>2. Requests(t) = RequestsFrom(t)[1] /\ Remainder(t) = RemainderFrom(t)[1]
      BY FromFirst
    <3>3. /\ RequestsFrom(t)[1] = RequestsFrom(s)[1] \o RequestsFrom(t)[RemainderFrom(s)[1]]
          /\ RemainderFrom(t)[1] = RemainderFrom(t)[RemainderFrom(s)[1]]
      BY <1>4, <1>7, FromExtends
    <3> QED
      BY <2>1, <3>1, <3>2, <3>3
  <2>4. RequestsFrom(t)[i] = x \o y /\ RemainderFrom(t)[i] = RemainderFrom(t)[m]
    BY <1>4, <1>6, <2>1, FromExtends
  <2>5. x \in Seq(Served) /\ y \in Seq(Served) /\ served \in Seq(Served)
    <3>1. x \in Seq(Served) /\ m \in 1 .. Len(s) + 1
      BY <1>4, <1>6, <2>1, FromType
    <3>2. m \in 1 .. Len(t) + 1
      BY <1>2, <1>4, <3>1
    <3> QED
      BY <1>4, <2>1, <3>1, <3>2, FromType DEF TypeOK
  <2>6. (served \o x) \o y = served \o (x \o y)
    BY <2>5, ConcatAssociative
  <2> QED
    BY <1>7, <2>2, <2>3, <2>4, <2>6 DEF Routed
<1>9. ASSUME failed' = 0 PROVE \E j \in Nat : Parsing(t, i, j)'
  <2>1. PICK j \in Nat : Parsing(s, i, j)
    BY <1>6, <1>7, <1>9
  <2>2. in_buffer' = in_buffer \o SubSeq(t, Len(s) + 1, Len(t))
    BY <1>2, <1>5
  <2>3. Parsing(t, i, j)'
    BY <1>2, <1>4, <1>7, <2>1, <2>2, ReadParses
  <2> QED
    BY <2>3
<1>10. failed' # 0 => Faulty(t, i) /\ failed' = FaultStatus(t, i)
  BY <1>4, <1>6, <1>7, FaultKept
<1> QED
  BY <1>1, <1>7, <1>8, <1>9, <1>10 DEF Followed

\* An error that is answered is one of the stream.
LEMMA AnswerErrorFollowed ==
  ASSUME TypeOK, Followed, AnswerError
  PROVE  Followed'
<1>1. PICK s : s = Arrived
  OBVIOUS
<1>2. Arrived' = s /\ s \in Seq(Text) /\ served' = served
  BY <1>1, ArrivedType DEF Arrived, AnswerError
<1>3. PICK i \in 1 .. Len(s) + 1 :
        /\ Routed(s, i)
        /\ failed = 0 => \E j \in Nat : Parsing(s, i, j)
        /\ failed # 0 => Faulty(s, i) /\ failed = FaultStatus(s, i)
  BY <1>1 DEF Followed
<1>4. resp_status >= 400 /\ failed' = (IF failed = 0 THEN resp_status ELSE failed)
  BY DEF AnswerError
<1>5. Faulty(s, i) /\ failed' = FaultStatus(s, i)
  <2>1. CASE failed # 0
    BY <1>3, <1>4, <2>1
  <2>2. CASE failed = 0
    <3>1. PICK j \in Nat : Parsing(s, i, j)
      BY <1>3, <2>2
    <3>2. FoundFault(s, i)
      BY <1>4, <3>1 DEF Parsing, ParsedHead, ParsedBody
    <3> QED
      BY <1>4, <2>2, <3>2 DEF FoundFault
  <2> QED
    BY <2>1, <2>2
<1>6. failed' # 0
  BY <1>5 DEF FaultStatus
<1>7. Routed(s, i)'
  BY <1>2, <1>3 DEF Routed
<1> QED
  BY <1>2, <1>3, <1>5, <1>6, <1>7 DEF Followed

\* The request that is routed is the next of the stream, and the parser goes on
\* behind it.
LEMMA AnswerRequestFollowed ==
  ASSUME TypeOK, Followed, AnswerRequest
  PROVE  Followed'
<1>1. PICK s : s = Arrived
  OBVIOUS
<1>2. Arrived' = s /\ s \in Seq(Text) /\ failed' = failed /\ in_buffer' = in_buffer
  BY <1>1, ArrivedType DEF Arrived, AnswerRequest
<1>3. PICK i \in 1 .. Len(s) + 1 :
        /\ Routed(s, i)
        /\ failed = 0 => \E j \in Nat : Parsing(s, i, j)
        /\ failed # 0 => Faulty(s, i) /\ failed = FaultStatus(s, i)
  BY <1>1 DEF Followed
<1>4. CASE failed # 0
  <2>1. Routed(s, i)'
    BY <1>3, <1>4 DEF Routed, AnswerRequest
  <2> QED
    BY <1>2, <1>3, <1>4, <2>1 DEF Followed
<1>5. CASE failed = 0
  <2>1. PICK j \in Nat : Parsing(s, i, j)
    BY <1>3, <1>5
  <2>2. i \in Nat \ {0} /\ recv_status = "OVER"
    BY <1>3 DEF AnswerRequest
  <2>3. Complete(s, i) /\ Done(request) = RequestAt(s, i) /\ j = RequestEnd(s, i) + 1
    BY <1>2, <2>1, <2>2, ParsedRequest
  <2>4. j \in 1 .. Len(s) + 1 /\ j \in Nat \ {0} /\ Buffered(s, j)'
    BY <1>2, <2>1 DEF Parsing, Buffered
  <2>5. \E k \in Nat : Parsing(s, j, k)'
    <3>1. Reset /\ pc' # "OnMessage"
      BY DEF AnswerRequest
    <3> QED
      BY <1>2, <2>4, <3>1, ResetParses
  <2>6. Routed(s, j)'
    <3>1. PICK r, x : r = Done(request) /\ x = RequestsFrom(s)[j]
      OBVIOUS
    <3>2. Requests(s) = served \o (<<r>> \o x) /\ Remainder(s) = RemainderFrom(s)[j]
      BY <1>2, <1>3, <2>3, <3>1, FromStep DEF Routed
    <3>3. served \in Seq(Served) /\ r \in Served /\ x \in Seq(Served)
      BY <1>2, <2>4, <3>1, DoneType, FromType DEF TypeOK
    <3>4. <<r>> \in Seq(Served) /\ Append(served, r) = served \o <<r>>
      BY <3>3, OneType, AppendIsConcat
    <3>5. (served \o <<r>>) \o x = served \o (<<r>> \o x)
      BY <3>3, <3>4, ConcatAssociative
    <3>6. served' = Append(served, r)
      BY <1>5, <3>1 DEF AnswerRequest
    <3> QED
      BY <3>1, <3>2, <3>4, <3>5, <3>6 DEF Routed
  <2> QED
    BY <1>2, <1>5, <2>4, <2>5, <2>6 DEF Followed
<1> QED
  BY <1>4, <1>5

-----------------------------------------------------------------------------
(* What is complete but not answered. *)

\* What is complete or wrong in the input, beyond what has been answered: nothing between
\* the calls of OnMessage, and one request or fault during a call, unless one read brought
\* two.
Few ==
    ~burst /\ failed = 0 => Units(Arrived) <= Len(served) + (IF pc = "idle" THEN 0 ELSE 1)

\* The types of what counts as complete or wrong.
LEMMA UnitsType ==
  ASSUME NEW s \in Seq(Text)
  PROVE  Units(s) \in Nat /\ Requests(s) \in Seq(Served) /\ Remainder(s) \in 1 .. Len(s) + 1
<1>1. 1 \in 1 .. Len(s) + 1
  OBVIOUS
<1>2. RequestsFrom(s)[1] \in Seq(Served) /\ RemainderFrom(s)[1] \in 1 .. Len(s) + 1
  BY <1>1, FromType
<1>3. Requests(s) \in Seq(Served) /\ Remainder(s) \in 1 .. Len(s) + 1
  BY <1>2, FromFirst
<1> QED
  BY <1>3 DEF Units

\* Nothing is complete or wrong beyond what has been routed.
LEMMA OpenUnits ==
  ASSUME NEW s \in Seq(Text), NEW i \in 1 .. Len(s) + 1, Routed(s, i), Open(s, i),
         served \in Seq(Served)
  PROVE  Units(s) = Len(served)
<1>1. RequestsFrom(s)[i] = <<>> /\ RemainderFrom(s)[i] = i
  BY FromStep DEF Open
<1>2. Requests(s) = served /\ Remainder(s) = i
  BY <1>1, ConcatEmptySeq DEF Routed
<1> QED
  BY <1>2 DEF Units, Open

\* When OnMessage waits for more, everything that is complete has been routed.
LEMMA AwaitMoreOpen ==
  ASSUME TypeOK, Followed, AwaitMore, failed = 0
  PROVE  Units(Arrived) = Len(served)
<1>1. PICK s : s = Arrived
  OBVIOUS
<1>2. s \in Seq(Text) /\ served \in Seq(Served)
  BY <1>1, ArrivedType DEF TypeOK
<1>3. PICK i \in 1 .. Len(s) + 1 : Routed(s, i) /\ \E j \in Nat : Parsing(s, i, j)
  BY <1>1 DEF Followed
<1>4. PICK j \in Nat : Parsing(s, i, j)
  BY <1>3
<1>5. pc = "OnMessage" /\ resp_status < 400 /\ recv_status # "OVER"
  BY DEF AwaitMore
<1>6. Open(s, i)
  BY <1>4, <1>5 DEF Parsing, ParsedHead, ParsedBody, FoundFault, FaultStatus
<1> QED
  BY <1>1, <1>2, <1>3, <1>6, OpenUnits

\* A call of OnMessage routes one request or fault, and only a burst brings more.
LEMMA FewKept ==
  ASSUME TypeOK, Followed, Few, [Next]_vars
  PROVE  Few'
<1>0. /\ Units(Arrived) \in Nat /\ Len(served) \in Nat /\ served \in Seq(Served)
      /\ stream \in Seq(Text)
  BY ArrivedType, UnitsType DEF TypeOK
<1>1. ASSUME NEW n \in 1 .. Len(stream), HandleRead(n) PROVE Few'
  <2>1. /\ pc = "idle" /\ pc' # "idle" /\ served' = served /\ failed' = failed
        /\ arrived' = arrived + n /\ stream' = stream
        /\ burst' = (burst \/ Units(SubSeq(stream, 1, arrived + n)) > Units(Arrived) + 1)
    BY <1>1 DEF HandleRead, history
  <2>2. Arrived' = SubSeq(stream, 1, arrived + n)
    BY <2>1 DEF Arrived
  <2>3. PICK t : t = Arrived'
    OBVIOUS
  <2>4. t \in Seq(Text)
    <3>1. arrived \in Nat /\ n \in Nat /\ arrived + n <= Len(stream)
      BY <1>1 DEF HandleRead, TypeOK
    <3> QED
      BY <1>0, <2>2, <2>3, <3>1
  <2>5. Units(t) \in Nat /\ Units(SubSeq(stream, 1, arrived + n)) = Units(t)
    BY <2>2, <2>3, <2>4, UnitsType
  <2>6. ASSUME ~burst', failed' = 0 PROVE Units(t) <= Len(served) + 1
    <3>1. ~burst /\ ~(Units(t) > Units(Arrived) + 1)
      BY <2>1, <2>5, <2>6
    <3>2. Units(Arrived) <= Len(served)
      BY <1>0, <2>1, <2>6, <3>1 DEF Few
    <3> QED
      BY <1>0, <2>5, <3>1, <3>2
  <2> QED
    BY <2>1, <2>3, <2>6 DEF Few
<1>2. ASSUME UNCHANGED <<stream, arrived, burst, failed, served>>,
             pc = "idle" \/ pc' # "idle"
      PROVE  Few'
  <2>1. Arrived' = Arrived
    BY <1>2 DEF Arrived
  <2> QED
    BY <1>0, <1>2, <2>1 DEF Few
<1>3. CASE HandleEof
  BY <1>2, <1>3 DEF HandleEof, history
<1>4. CASE HandleWrite
  BY <1>2, <1>4 DEF HandleWrite, history
<1>5. CASE RecvHttpLine
  BY <1>2, <1>5 DEF RecvHttpLine, connection, history, AwaitLine, Fail
<1>6. CASE RecvHttpHeader
  BY <1>2, <1>6 DEF RecvHttpHeader, connection, history, AwaitLine, Fail
<1>7. CASE RecvHttpBody
  BY <1>2, <1>7 DEF RecvHttpBody, connection, history
<1>8. CASE AnswerError
  <2>1. failed' # 0
    BY <1>8 DEF AnswerError, TypeOK
  <2> QED
    BY <2>1 DEF Few
<1>9. CASE AwaitMore
  <2>1. Arrived' = Arrived /\ served' = served /\ failed' = failed
    BY <1>9 DEF AwaitMore, Arrived, history
  <2>2. failed = 0 => Units(Arrived) = Len(served)
    BY <1>9, AwaitMoreOpen
  <2> QED
    BY <1>0, <2>1, <2>2 DEF Few
<1>10. CASE AnswerRequest
  <2>1. /\ Arrived' = Arrived /\ failed' = failed /\ burst' = burst /\ pc = "OnMessage"
        /\ failed = 0 => served' = Append(served, Done(request))
    BY <1>10 DEF AnswerRequest, Arrived
  <2>2. failed = 0 => Len(served') = Len(served) + 1
    BY <1>0, <2>1, DoneType
  <2> QED
    BY <1>0, <2>1, <2>2 DEF Few
<1>11. CASE UNCHANGED vars
  BY <1>2, <1>11 DEF vars
<1> QED
  BY <1>1, <1>3, <1>4, <1>5, <1>6, <1>7, <1>8, <1>9, <1>10, <1>11 DEF Next, OnMessage

\* Before the first read the parser stands at the start of the stream.
LEMMA FollowedInit == Init => Followed
<1> SUFFICES ASSUME Init PROVE Followed
  OBVIOUS
<1>1. stream \in Seq(Text) /\ arrived = 0
  BY StreamsAssumption DEF Init
<1>2. PICK s : s = Arrived
  OBVIOUS
<1>3. s = <<>> /\ s \in Seq(Text) /\ Len(s) = 0
  BY <1>1, <1>2 DEF Arrived
<1>4. 1 \in 1 .. Len(s) + 1
  BY <1>3
<1>5. Routed(s, 1)
  <2>1. RequestsFrom(s)[1] \in Seq(Served)
    BY <1>3, <1>4, FromType
  <2>2. <<>> \o RequestsFrom(s)[1] = RequestsFrom(s)[1]
    BY <2>1, ConcatEmptySeq
  <2> QED
    BY <2>2, FromFirst DEF Routed, Init
<1>6. LinesRead(s, 1, 1)
  BY <1>3 DEF LinesRead, Blanks, Eols, WrongLines, Starts
<1>7. ParsedHead(s, 1, 1)
  BY <1>6 DEF ParsedHead, Init
<1>8. Buffered(s, 1)
  BY <1>3 DEF Buffered, Init
<1>9. Parsing(s, 1, 1)
  BY <1>7, <1>8 DEF Parsing
<1> QED
  BY <1>2, <1>4, <1>5, <1>9 DEF Followed, Init

\* No step of the server makes the context lose its place.
LEMMA FollowedNext ==
  ASSUME TypeOK, Followed, [Next]_vars
  PROVE  Followed'
<1>1. ASSUME NEW n \in 1 .. Len(stream), HandleRead(n) PROVE Followed'
  BY <1>1, ReadFollowed
<1>2. CASE HandleEof
  <2>1. /\ UNCHANGED <<stream, arrived, served, failed, in_buffer, parser>>
        /\ pc = "idle" /\ pc' # "OnMessage"
    BY <1>2 DEF HandleEof, history
  <2>2. \A s \in Seq(Text), i \in Nat \ {0}, j \in Nat :
            Parsing(s, i, j) => \E k \in Nat : Parsing(s, i, k)'
    BY <2>1, ParserRests
  <2> QED
    BY <2>1, <2>2, FollowedKept
<1>3. CASE HandleWrite
  <2>1. /\ UNCHANGED <<stream, arrived, served, failed, in_buffer, parser>>
        /\ pc = "idle" /\ pc' # "OnMessage"
    BY <1>3 DEF HandleWrite, history
  <2>2. \A s \in Seq(Text), i \in Nat \ {0}, j \in Nat :
            Parsing(s, i, j) => \E k \in Nat : Parsing(s, i, k)'
    BY <2>1, ParserRests
  <2> QED
    BY <2>1, <2>2, FollowedKept
<1>4. CASE RecvHttpLine
  <2>1. UNCHANGED <<stream, arrived, served, failed>>
    BY <1>4 DEF RecvHttpLine, connection, history
  <2> QED
    BY <1>4, <2>1, LineParses, FollowedKept
<1>5. CASE RecvHttpHeader
  <2>1. UNCHANGED <<stream, arrived, served, failed>>
    BY <1>5 DEF RecvHttpHeader, connection, history
  <2> QED
    BY <1>5, <2>1, HeaderParses, FollowedKept
<1>6. CASE RecvHttpBody
  <2>1. UNCHANGED <<stream, arrived, served, failed>>
    BY <1>6 DEF RecvHttpBody, connection, history
  <2> QED
    BY <1>6, <2>1, BodyParses, FollowedKept
<1>7. CASE AnswerError
  BY <1>7, AnswerErrorFollowed
<1>8. CASE AwaitMore
  <2>1. /\ UNCHANGED <<stream, arrived, served, failed, in_buffer, parser>>
        /\ resp_status < 400 /\ recv_status # "OVER" /\ pc' # "OnMessage"
    BY <1>8 DEF AwaitMore, history
  <2>2. \A s \in Seq(Text), i \in Nat \ {0}, j \in Nat :
            Parsing(s, i, j) => \E k \in Nat : Parsing(s, i, k)'
    BY <2>1, ParserRests
  <2> QED
    BY <2>1, <2>2, FollowedKept
<1>9. CASE AnswerRequest
  BY <1>9, AnswerRequestFollowed
<1>10. CASE UNCHANGED vars
  <2>1. \A s, i, j : Parsing(s, i, j) => Parsing(s, i, j)'
    BY <1>10 DEF vars, Parsing, Buffered, ParsedHead, ParsedBody, FoundFault
  <2>2. UNCHANGED <<stream, arrived, served, failed>>
    BY <1>10 DEF vars
  <2> QED
    BY <2>1, <2>2, FollowedKept
<1> QED
  BY <1>1, <1>2, <1>3, <1>4, <1>5, <1>6, <1>7, <1>8, <1>9, <1>10 DEF Next, OnMessage

\* However the reads cut the stream and the calls of OnMessage follow one another,
\* the context stands at a request of the stream, having parsed of it exactly what
\* has left the buffer, or at the first fault (RecvHttpRequest, Reset).
THEOREM ParserFollows == Safe => [](TypeOK /\ Followed)
<1>1. Init => Followed
  BY FollowedInit
<1>2. TypeOK /\ Followed /\ [Next]_vars => Followed'
  BY FollowedNext
<1> QED
  BY <1>1, <1>2, TypeCorrect, PTL DEF Safe

\* Hence the requests routed are the requests of the stream, in its order and with
\* their bodies.
THEOREM RequestsServedInOrder == Safe => []ServedInOrder
<1>1. TypeOK /\ Followed => ServedInOrder
  <2> SUFFICES ASSUME TypeOK, Followed PROVE ServedInOrder
    OBVIOUS
  <2>1. PICK s : s = Arrived
    OBVIOUS
  <2>2. s \in Seq(Text) /\ served \in Seq(Served)
    BY <2>1, ArrivedType DEF TypeOK
  <2>3. PICK i \in 1 .. Len(s) + 1 : Routed(s, i)
    BY <2>1 DEF Followed
  <2>4. PICK x \in Seq(Served) : x = RequestsFrom(s)[i]
    BY <2>2, FromType
  <2>5. PICK r : r = Requests(s)
    OBVIOUS
  <2>6. r = served \o x
    BY <2>3, <2>4, <2>5 DEF Routed
  <2>7. Len(served) <= Len(r) /\ served = SubSeq(r, 1, Len(served))
    BY <2>2, <2>6
  <2> QED
    BY <2>1, <2>5, <2>7 DEF ServedInOrder
<1> QED
  BY <1>1, ParserFollows, PTL

\* Hence an error is answered at the first fault of the stream, with its status, and
\* after every request before it.
THEOREM ErrorsAreReal == Safe => []ErrorIsReal
<1>1. TypeOK /\ Followed => ErrorIsReal
  <2> SUFFICES ASSUME TypeOK, Followed, failed # 0
               PROVE  /\ served = Requests(Arrived)
                      /\ Faulty(Arrived, Remainder(Arrived))
                      /\ failed = FaultStatus(Arrived, Remainder(Arrived))
    BY DEF ErrorIsReal
  <2>1. PICK s : s = Arrived
    OBVIOUS
  <2>2. s \in Seq(Text) /\ served \in Seq(Served)
    BY <2>1, ArrivedType DEF TypeOK
  <2>3. PICK i \in 1 .. Len(s) + 1 :
            Routed(s, i) /\ Faulty(s, i) /\ failed = FaultStatus(s, i)
    BY <2>1 DEF Followed
  <2>4. RequestsFrom(s)[i] = <<>> /\ RemainderFrom(s)[i] = i
    BY <2>2, <2>3, FromStep DEF Complete
  <2>5. Requests(s) = served /\ Remainder(s) = i
    BY <2>2, <2>3, <2>4, ConcatEmptySeq DEF Routed
  <2> QED
    BY <2>1, <2>3, <2>5
<1> QED
  BY <1>1, ParserFollows, PTL

\* Hence nothing complete waits between the calls, unless a burst has brought two at
\* once (OnMessage routes one request per call).
THEOREM NoRequestWaits == Safe => []NothingWaits
<1>1. Init => Few
  <2> SUFFICES ASSUME Init PROVE Few
    OBVIOUS
  <2>1. PICK s : s = Arrived
    OBVIOUS
  <2>2. s = <<>> /\ s \in Seq(Text) /\ Len(s) = 0 /\ 1 \in 1 .. Len(s) + 1
    BY <2>1, StreamsAssumption DEF Init, Arrived
  <2>3. Blanks(s, 1) = {} /\ WrongLines(s, 1) = {}
    BY <2>2 DEF Blanks, Eols, WrongLines, Starts, HeadEnd
  <2>4. ~Complete(s, 1) /\ ~Faulty(s, 1)
    BY <2>3 DEF Complete, Faulty
  <2>5. RequestsFrom(s)[1] = <<>> /\ RemainderFrom(s)[1] = 1
    BY <2>2, <2>4, FromStep
  <2>6. Requests(s) = <<>> /\ Remainder(s) = 1
    BY <2>2, <2>5, FromFirst
  <2>7. Units(s) = 0
    BY <2>4, <2>6 DEF Units
  <2>8. pc = "idle" /\ served = <<>>
    BY DEF Init
  <2> QED
    BY <2>1, <2>7, <2>8 DEF Few
<1>2. TypeOK /\ Followed /\ Few /\ [Next]_vars => Few'
  BY FewKept
<1>3. TypeOK /\ Followed /\ Few => NothingWaits
  <2> SUFFICES ASSUME TypeOK, Followed, Few, pc = "idle", ~burst, failed = 0
               PROVE  served = Requests(Arrived) /\ ~Faulty(Arrived, Remainder(Arrived))
    BY DEF NothingWaits
  <2>1. PICK s : s = Arrived
    OBVIOUS
  <2>2. s \in Seq(Text) /\ served \in Seq(Served)
    BY <2>1, ArrivedType DEF TypeOK
  <2>3. PICK i \in 1 .. Len(s) + 1 : Routed(s, i)
    BY <2>1 DEF Followed
  <2>4. PICK x \in Seq(Served) : x = RequestsFrom(s)[i]
    BY <2>2, FromType
  <2>5. Requests(s) = served \o x
    BY <2>3, <2>4 DEF Routed
  <2>6. Units(s) <= Len(served)
    BY <2>1, <2>2, UnitsType DEF Few
  <2>7. Len(Requests(s)) = Len(served) + Len(x) /\ Len(served) \in Nat /\ Len(x) \in Nat
    BY <2>2, <2>4, <2>5, ConcatProperties
  <2>8. ~Faulty(s, Remainder(s)) /\ Len(x) = 0
    BY <2>6, <2>7 DEF Units
  <2>9. Requests(s) = served
    BY <2>2, <2>4, <2>5, <2>8, ConcatEmptySeq
  <2> QED
    BY <2>1, <2>8, <2>9
<1> QED
  BY <1>1, <1>2, <1>3, ParserFollows, PTL DEF Safe
=============================================================================
