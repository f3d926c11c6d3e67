------------------------------ MODULE HttpRoute ------------------------------
(***************************************************************************)
(* HttpServer of http.hpp from a request line to the bytes of the response,*)
(* with the handlers of http/main.cc: the routes are registered and the    *)
(* server listens; then, one request of a connection at a time, the query  *)
(* is split and decoded (ParseHttpLine), the request routed (FileHandler,  *)
(* Dispatcher) and the response written.  What HttpServer shows of the     *)
(* parser is taken for granted here: requests arrive whole, one by one.    *)
(***************************************************************************)
EXTENDS Util, SequencesExt

CONSTANTS
    Patterns,       \* the patterns of routes, each the set of paths it matches
    Handlers,       \* of "Hello" (Login, DelFile) and "PutFile"
    Requests,       \* what clients send: [method, path, query, keep, body]
    Intended,       \* lists of parameters <<name, value>> that clients mean to send
    IndexHtml,      \* the bytes of "index.html"
    MaxRoutes,      \* bound: routes registered
    MaxRequests     \* bound: requests of a connection

Method == {"GET", "HEAD", "POST", "PUT", "DELETE"}

ASSUME HandlersAssumption == Handlers \subseteq {"Hello", "PutFile"}
ASSUME RequestsAssumption ==
    \A r \in Requests : /\ r.method \in Method /\ r.keep \in BOOLEAN
                        /\ r.path \in Seq(Byte) /\ r.path # <<>>
                        /\ r.query \in Seq(Byte) /\ r.body \in Seq({"data"})
ASSUME IntendedAssumption ==
    Intended \subseteq Seq(Seq(0 .. 127) \X Seq(0 .. 127))
ASSUME IndexAssumption == IndexHtml \in Seq(Byte)
ASSUME MaxRequestsAssumption == MaxRequests \in Nat

VARIABLES
    basedir,    \* SetBaseDir was called
    routes,     \* _get_route, _post_route, _put_route, _delete_route
    files,      \* the regular files below the base directory, with their contents
    pc,         \* where the server is
    request,    \* the request as it was sent
    path,       \* HttpRequest::_path
    pieces,     \* ParseHttpLine: query_string_array, not yet looked at
    params,     \* HttpRequest::_query_string
    rsp,        \* the HttpResponse
    wire,       \* what Send was given: heads, and the bytes of the bodies
    answers     \* history: the requests answered and their responses

setup == <<basedir, routes>>
parsed == <<path, pieces, params>>
vars == <<basedir, routes, files, pc, request, path, pieces, params, rsp, wire, answers>>

\* The routing table of a method; HEAD shares that of GET.
Table(m) == IF m = "HEAD" THEN "GET" ELSE m

NoRequest == [method |-> "GET", path |-> <<>>, query |-> <<>>, keep |-> FALSE, body |-> <<>>]

NoResponse == [status |-> 200, body |-> <<>>, headers |-> <<>>]

\* A file that is there from the start.
Index == <<Slash>> \o IndexHtml

Init ==
    /\ basedir = FALSE
    /\ routes = [m \in Method \ {"HEAD"} |-> <<>>]
    /\ files = [p \in {Index} |-> <<"file", "file">>]
    /\ pc = "setup"
    /\ request = NoRequest
    /\ path = <<>> /\ pieces = <<>> /\ params = <<>>
    /\ rsp = NoResponse
    /\ wire = <<>> /\ answers = <<>>

-----------------------------------------------------------------------------
(* main() before Listen: SetBaseDir, and Get, Post, Put and Delete.        *)

SetBaseDir ==
    /\ pc = "setup" /\ ~basedir
    /\ basedir' = TRUE
    /\ UNCHANGED <<routes, files, pc, request, parsed, rsp, wire, answers>>

Registered == Len(routes["GET"]) + Len(routes["POST"]) + Len(routes["PUT"]) + Len(routes["DELETE"])

Register(m, pattern, handler) ==
    /\ pc = "setup" /\ Registered < MaxRoutes
    /\ routes' = [routes EXCEPT ![m] = Append(@, <<pattern, handler>>)]
    /\ UNCHANGED <<basedir, files, pc, request, parsed, rsp, wire, answers>>

Listen ==
    /\ pc = "setup"
    /\ pc' = "idle"
    /\ UNCHANGED <<setup, files, request, parsed, rsp, wire, answers>>

-----------------------------------------------------------------------------
(* HttpContext::ParseHttpLine, after the regular expression has matched.   *)

ReceiveRequest(r) ==
    /\ pc = "idle" /\ Len(answers) < MaxRequests
    /\ request' = r
    /\ path' = UrlDecode(r.path, FALSE)
    /\ pieces' = Split(r.query, Amp)
    /\ params' = <<>>
    /\ rsp' = NoResponse
    /\ pc' = "ParseHttpLine"
    /\ UNCHANGED <<setup, files, wire, answers>>

\* insert keeps the first value of a name.
Insert(f, k, v) ==
    IF k \in DOMAIN f THEN f
    ELSE [x \in DOMAIN f \cup {k} |-> IF x = k THEN v ELSE f[x]]

\* The name and the value on the two sides of the first '='.
Param(piece) ==
    LET pos == Min(At(piece, Equals))
    IN  <<UrlDecode(SubSeq(piece, 1, pos - 1), TRUE),
          UrlDecode(SubSeq(piece, pos + 1, Len(piece)), TRUE)>>

ParseParam ==
    /\ pc = "ParseHttpLine" /\ pieces # <<>>
    /\ IF At(Head(pieces), Equals) = {}
       THEN /\ rsp' = [rsp EXCEPT !.status = 400]
            /\ pc' = "ErrorHandler"
            /\ UNCHANGED <<pieces, params>>
       ELSE /\ params' = Insert(params, Param(Head(pieces))[1], Param(Head(pieces))[2])
            /\ pieces' = Tail(pieces)
            /\ UNCHANGED <<rsp, pc>>
    /\ UNCHANGED <<setup, files, request, path, wire, answers>>

EndParse ==
    /\ pc = "ParseHttpLine" /\ pieces = <<>>
    /\ pc' = "Route"
    /\ UNCHANGED <<setup, files, request, parsed, rsp, wire, answers>>

-----------------------------------------------------------------------------
(* Route, and the handlers it calls.                                       *)

SetHeader(r, k, v) == [r EXCEPT !.headers = Insert(@, k, v)]

SetContent(r, body, type) == SetHeader([r EXCEPT !.body = body], "Content-Type", type)

\* The path with its index; IsRegular asks for a file below the base directory.
FilePath == IF Last(path) = Slash THEN path \o IndexHtml ELSE path

IsFileHandler ==
    /\ basedir
    /\ request.method \in {"GET", "HEAD"}
    /\ ValidPath(path)
    /\ FilePath \in DOMAIN files

\* Mutant: the file's length is announced here, before a handler replaces the body.
FileHandlerWithLength(r) ==
    SetHeader(SetHeader([r EXCEPT !.body = files[FilePath]], "Content-Type", Extension(FilePath)),
              "Content-Length", Len(files[FilePath]))

FileHandler(r) ==
    SetHeader([r EXCEPT !.body = files[FilePath]], "Content-Type", Extension(FilePath))

\* Route does not return after FileHandler: the request is dispatched as well.
Route ==
    /\ pc = "Route"
    /\ rsp' = IF IsFileHandler THEN FileHandler(rsp) ELSE rsp
    /\ pc' = "Dispatcher"
    /\ UNCHANGED <<setup, files, request, parsed, wire, answers>>

Matching == {i \in 1 .. Len(routes[Table(request.method)]) :
                path \in routes[Table(request.method)][i][1]}

\* The first route that matches is called.
CallFirst ==
    /\ pc = "Dispatcher" /\ Matching # {}
    /\ pc' = routes[Table(request.method)][Min(Matching)][2]
    /\ UNCHANGED <<setup, files, request, parsed, rsp, wire, answers>>

NotFound ==
    /\ pc = "Dispatcher" /\ Matching = {}
    /\ rsp' = [rsp EXCEPT !.status = 404]
    /\ pc' = "WriteResponse"
    /\ UNCHANGED <<setup, files, request, parsed, wire, answers>>

\* Hello, Login and DelFile of main.cc: the request as text.
Hello ==
    /\ pc = "Hello"
    /\ rsp' = SetContent(rsp, <<"text">>, "text/plain")
    /\ pc' = "WriteResponse"
    /\ UNCHANGED <<setup, files, request, parsed, wire, answers>>

\* PutFile of main.cc: the file is truncated and written, unless it cannot be
\* opened because the path is that of a directory; no content is set.
PutFile ==
    /\ pc = "PutFile"
    /\ files' = IF Last(path) = Slash THEN files
                ELSE [p \in DOMAIN files \cup {path} |->
                         IF p = path THEN request.body ELSE files[p]]
    /\ pc' = "WriteResponse"
    /\ UNCHANGED <<setup, request, parsed, rsp, wire, answers>>

ErrorHandler ==
    /\ pc = "ErrorHandler"
    /\ rsp' = SetContent(rsp, <<"page", "page">>, "text/html")
    /\ pc' = "WriteResponse"
    /\ UNCHANGED <<setup, files, request, parsed, wire, answers>>

-----------------------------------------------------------------------------
(* WriteResponse, and OnMessage after it.                                  *)

WithBodyHeaders(r) ==
    IF r.body = <<>> THEN r
    ELSE SetHeader(SetHeader(r, "Content-Length", Len(r.body)),
                   "Content-Type", "application/octet-stream")

\* HttpRequest::Close: an error in the request line comes before any header.
KeepAlive == request.keep /\ rsp.status # 400

Complete(r) ==
    WithBodyHeaders(SetHeader(r, "Connection", IF KeepAlive THEN "keep-alive" ELSE "close"))

\* A body as it is in the stream.
Bytes(body) == [i \in 1 .. Len(body) |-> [byte |-> body[i]]]

\* Shutdown follows if Connection says close, as it does after an error.
WriteResponse ==
    /\ pc = "WriteResponse"
    /\ LET r == Complete(rsp)
       IN  /\ wire' = wire \o <<[head |-> r.headers]>> \o Bytes(r.body)
           /\ answers' = Append(answers, [method |-> request.method, rsp |-> r])
           /\ pc' = IF r.headers["Connection"] = "close" THEN "closed" ELSE "idle"
    /\ rsp' = NoResponse /\ request' = NoRequest
    /\ path' = <<>> /\ pieces' = <<>> /\ params' = <<>>
    /\ UNCHANGED <<setup, files>>

Next ==
    \/ SetBaseDir \/ Listen
    \/ \E m \in Method \ {"HEAD"}, p \in Patterns, h \in Handlers : Register(m, p, h)
    \/ \E r \in Requests : ReceiveRequest(r)
    \/ ParseParam \/ EndParse
    \/ Route \/ CallFirst \/ NotFound
    \/ Hello \/ PutFile \/ ErrorHandler
    \/ WriteResponse

Spec == Init /\ [][Next]_vars
-----------------------------------------------------------------------------
(* Properties.                                                             *)

Content == {"file", "text", "page", "data"}

\* The types of the variables.
TypeOK ==
    /\ basedir \in BOOLEAN
    /\ \A m \in DOMAIN routes : Range(routes[m]) \subseteq Patterns \X Handlers
    /\ Range(files) \subseteq Seq(Content)
    /\ pc \in {"setup", "idle", "ParseHttpLine", "Route", "Dispatcher", "WriteResponse",
               "ErrorHandler", "closed"} \cup Handlers
    /\ path \in Seq(Byte)
    /\ Range(pieces) \subseteq Seq(Byte)
    /\ DOMAIN params \subseteq Seq(Byte) /\ Range(params) \subseteq Seq(Byte)
    /\ rsp.status \in {200, 400, 404} /\ rsp.body \in Seq(Content)
    /\ Len(answers) <= MaxRequests

\* A list of parameters as a query: encoded, with '=' and '&' between them.
Query(ps) ==
    LET item(p) == UrlEncode(p[1], TRUE) \o <<Equals>> \o UrlEncode(p[2], TRUE)
        from[i \in 1 .. Len(ps) + 1] ==
            IF i > Len(ps) THEN <<>>
            ELSE (IF i = 1 THEN <<>> ELSE <<Amp>>) \o item(ps[i]) \o from[i + 1]
    IN  from[1]

\* The l-th parameter is the first of its name.
IsFirst(ps, l) == \A k \in 1 .. l - 1 : ps[k][1] # ps[l][1]

\* What a client encodes, the server decodes (UrlEncode; ParseHttpLine with Split
\* and UrlDecode), for bytes below 128: every name of a query arrives and no other;
\* the value of a name's first parameter arrives whole, but what follows it in the
\* query may run on into it, as no value does that is the first or the last.
QueryUnderstood ==
    pc = "Route" =>
      \A ps \in Intended \ {<<>>} : request.query = Query(ps) =>
        /\ DOMAIN params = {p[1] : p \in Range(ps)}
        /\ \A l \in {k \in 1 .. Len(ps) : IsFirst(ps, k)} :
              /\ IsPrefix(ps[l][2], params[ps[l][1]])
              /\ l \in {1, Len(ps)} => params[ps[l][1]] = ps[l][2]

IsHead(i) == i <= Len(wire) /\ "head" \in DOMAIN wire[i]

\* What the client takes for the length of the k-th body when its head is at i: the
\* body of HEAD is empty, one without a Content-Length ends with the stream.
BodyLength(i, k) ==
    IF answers[k].method = "HEAD" THEN 0
    ELSE IF "Content-Length" \in DOMAIN wire[i].head
         THEN wire[i].head["Content-Length"]
         ELSE Len(wire) - i

\* Where the client looks for the responses, one after the other.
ReadFrom ==
    LET from[k \in 1 .. Len(answers) + 1] ==
            IF k = 1 THEN 1
            ELSE IF IsHead(from[k - 1])
                 THEN from[k - 1] + BodyLength(from[k - 1], k - 1) + 1
                 ELSE Len(wire) + 1
    IN  from

\* The end of the k-th response can be told: to HEAD it has no body, and to another
\* method it has one, unless it is the last.
Delimited(k) ==
    IF answers[k].method = "HEAD" THEN answers[k].rsp.body = <<>>
    ELSE answers[k].rsp.body # <<>> \/ k = Len(answers)

\* A client that reads by Content-Length finds the head of every response that comes
\* after none but delimited ones, and if it is delimited itself its body, whole and
\* not a byte more (WriteResponse, after FileHandler and the route's handler).
ResponsesFramed ==
    \A k \in 1 .. Len(answers) : (\A l \in 1 .. k - 1 : Delimited(l)) =>
      LET i == ReadFrom[k]
      IN  /\ IsHead(i)
          /\ Delimited(k) =>
                /\ i + BodyLength(i, k) <= Len(wire)
                /\ SubSeq(wire, i + 1, i + BodyLength(i, k)) = Bytes(answers[k].rsp.body)

\* Only what is neither a static resource nor a route is refused as not found.
StaticResourceFound ==
    pc = "WriteResponse" /\ rsp.status # 400 /\ IsFileHandler => rsp.status = 200
=============================================================================
