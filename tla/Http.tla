-------------------------------- MODULE Http --------------------------------
(***************************************************************************)
(* cnet/net/http and cnet/net/inspect: one connection of an HttpServer     *)
(* whose callback is Inspector::onRequest (or the default one), its peer,  *)
(* and a thread that adds and removes commands of the Inspector.           *)
(*                                                                         *)
(* The peer is HttpClient, or any other that writes the same lines.  A     *)
(* request line is a token of method, path, query and version, a header    *)
(* line one of field and value.  A path is a sequence of "/" and names.    *)
(* The loop thread handles a message in one step, except that it finds a   *)
(* command of the Inspector in one step and calls it in the next: nothing  *)
(* locks modules_ from the one to the other.                               *)
(***************************************************************************)
EXTENDS Wire, SequencesExt

CONSTANTS
    PeerRequests,   \* requests that peers other than HttpClient write
    Urls,           \* urls given to HttpClient::get and post
    Commands,       \* <<module, command>> of the Inspector
    Inspecting,     \* BOOLEAN: the callback is the Inspector's
    MaxRequests     \* bound: requests of the connection

VARIABLE web

NoHeaders == [f \in {} |-> ""]
NewRequest == [method |-> "kInvalid", version |-> "kUnknown", path |-> <<>>, query |-> "",
               headers |-> NoHeaders]
NewContext == [state |-> "kExpectRequestLine", request |-> NewRequest]

\* Server and peer once onConnection has given the connection its context.
WebStart ==
    web = [wire |-> <<>>, sent |-> <<>>,            \* the peer: unread bytes, requests written
           input |-> <<>>, context |-> NewContext,
           connected |-> TRUE,                       \* FALSE once shutdown() was called
           calling |-> FALSE,                        \* a command was found and is about to run
           served |-> <<>>, replies |-> <<>>,        \* requests handed on, responses sent
           merged |-> FALSE,                         \* one message ended two requests
           aborted |-> FALSE, modules |-> Commands]

-----------------------------------------------------------------------------
(***************************************************************************)
(* The client: a url to a request, a request to lines.                     *)
(***************************************************************************)

\* The address to connect to is left out.
parseURL(url, method) ==
    [method |-> method, version |-> "kUnknown", query |-> url.query,
     path |-> IF url.path = <<>> THEN <<"/">> ELSE url.path,
     headers |-> [f \in {"Host"} |-> url.host]]

HeaderLine(f, value) == <<[text |-> "header", field |-> f, value |-> value]>> \o CRLF

\* The lines of a request r as a peer writes it, the headers in the order of their names.
Lines(r) ==
    <<[text |-> "request", method |-> r.method, path |-> r.path, query |-> r.query,
       version |-> r.version]>> \o CRLF
    \o FlattenSeq([i \in 1 .. Cardinality(DOMAIN r.headers) |->
         LET f == SetToSortSeq(DOMAIN r.headers, LAMBDA x, y : x = "Connection" /\ x # y)[i]
         IN  HeaderLine(f, r.headers[f])])
    \o CRLF

methodString(m) ==
    CASE m = "kGet" -> "GET" [] m = "kPost" -> "POST" [] m = "kHead" -> "HEAD"
      [] m = "kPut" -> "PUT" [] m = "kDelete" -> "DELETE" [] OTHER -> "UNKNOWN"

\* What HttpClient writes: the path without its query, and version 1.1.
appendToBuffer(request) ==
    [request EXCEPT !.method = methodString(@), !.query = "", !.version = "HTTP/1.1"]

Send(r) ==
    /\ Len(web.sent) < MaxRequests
    /\ web' = [web EXCEPT !.wire = @ \o Lines(r), !.sent = Append(@, r)]

HttpClientSends ==
    \E url \in Urls, method \in {"kGet", "kPost"} : Send(appendToBuffer(parseURL(url, method)))
PeerSends == \E request \in PeerRequests : Send(request)

-----------------------------------------------------------------------------
(***************************************************************************)
(* HttpContext.  A context c comes with the bytes to read and the results  *)
(* ok and aborted; aborted is the assertion of setMethod.                  *)
(***************************************************************************)
setMethod(m) ==
    CASE m = "GET" -> "kGet" [] m = "POST" -> "kPost" [] m = "HEAD" -> "kHead"
      [] m = "PUT" -> "kPut" [] m = "DELETE" -> "kDelete" [] OTHER -> "kInvalid"

setVersion(v) ==
    CASE v = "HTTP/1.1" -> "kHttp11" [] v = "HTTP/1.0" -> "kHttp10" [] OTHER -> "kUnknown"

IsRequestLine(line) == Len(line) = 1 /\ line[1].text = "request"

\* Method, path and query are stored before the version is looked at.
processRequestLine(c, line) ==
    IF c.request.method # "kInvalid" THEN [c EXCEPT !.aborted = TRUE, !.ok = FALSE]
    ELSE IF ~IsRequestLine(line) \/ setMethod(line[1].method) = "kInvalid"
    THEN [c EXCEPT !.ok = FALSE]
    ELSE [c EXCEPT
            !.ok = setVersion(line[1].version) # "kUnknown",
            !.request = [@ EXCEPT !.method = setMethod(line[1].method), !.path = line[1].path,
                                  !.query = line[1].query,
                                  !.version = setVersion(line[1].version)]]

addHeader(headers, line) ==
    [f \in DOMAIN headers \cup {line.field} |-> IF f = line.field THEN line.value ELSE headers[f]]
getHeader(request, f) == IF f \in DOMAIN request.headers THEN request.headers[f] ELSE ""

HasColon(line) == Len(line) = 1 /\ line[1].text = "header"

RECURSIVE parseRequest(_)
parseRequest(c) ==
    LET line == Line(c.input)
        after == RetrieveLine(c.input)
        first == processRequestLine(c, line)
    IN  IF findCRLF(c.input) = 0 THEN c
        ELSE IF c.state = "kExpectRequestLine"
        THEN IF first.ok THEN parseRequest([first EXCEPT !.input = after, !.state = "kExpectHeaders"])
             ELSE first
        ELSE IF HasColon(line)
        THEN parseRequest([c EXCEPT !.input = after, !.request.headers = addHeader(@, line[1])])
        ELSE [c EXCEPT !.input = after, !.state = "kGotAll"]

-----------------------------------------------------------------------------
(***************************************************************************)
(* HttpServer and Inspector.                                               *)
(***************************************************************************)
split(path) == SelectSeq(path, LAMBDA name : name # "/")

IsCommand(path) == Inspecting /\ path # <<"/">> /\ Len(split(path)) >= 2
Found(path, modules) == SubSeq(split(path), 1, 2) \in modules

\* The status of what needs no command: the list of commands, the icon, or nothing known.
onRequest(path) ==
    IF Inspecting /\ (path = <<"/">> \/ split(path) = <<"favicon.ico">>) THEN 200 ELSE 404

\* HttpResponse(close), which the default callback sets to close.
Closes(request) ==
    \/ getHeader(request, "Connection") = "close"
    \/ request.version = "kHttp10" /\ getHeader(request, "Connection") # "Keep-Alive"
    \/ ~Inspecting

\* conn->send of a response, without effect after shutdown(), and shutdown() if it says close.
Reply(w, status, close) ==
    [w EXCEPT !.replies = IF w.connected THEN Append(@, [status |-> status, close |-> close]) ELSE @,
              !.connected = @ /\ ~close]

\* The reset forgets to swap the headers.
Respond_KeepsHeaders(w, request, status) ==
    [Reply(w, status, Closes(request)) EXCEPT
        !.served = Append(@, request), !.calling = FALSE,
        !.context = [NewContext EXCEPT !.request.headers = request.headers]]

\* onRequest and the reset of the context.
Respond(w, request, status) ==
    [Reply(w, status, Closes(request)) EXCEPT
        !.served = Append(@, request), !.context = NewContext, !.calling = FALSE]

\* The requests whose last byte is among the last n of the stream.
EndWithin(w, n) ==
    Min({k \in 0 .. Len(w.sent) :
            Len(FlattenSeq([i \in 1 .. k |-> Lines(w.sent[Len(w.sent) + 1 - i])])) >= n})

\* parseRequest is called once per message; a bad request is not an early return.
HttpMessage(w) ==
    LET parsed == parseRequest([state |-> w.context.state, request |-> w.context.request,
                                input |-> w.input, ok |-> TRUE, aborted |-> FALSE])
        read == [w EXCEPT !.input = parsed.input, !.aborted = parsed.aborted,
                          !.context = [state |-> parsed.state, request |-> parsed.request]]
        refused == IF parsed.ok THEN read ELSE Reply(read, 400, TRUE)
        path == parsed.request.path
    IN  IF parsed.state # "kGotAll" THEN refused
        ELSE IF IsCommand(path) /\ Found(path, w.modules) THEN [refused EXCEPT !.calling = TRUE]
        ELSE Respond(refused, parsed.request, IF IsCommand(path) THEN 404 ELSE onRequest(path))

MessageArrives ==
    /\ ~web.aborted /\ ~web.calling
    /\ \E n \in 1 .. Len(web.wire) :
        web' = HttpMessage([web EXCEPT
                    !.input = @ \o SubSeq(web.wire, 1, n), !.wire = Retrieve(@, n),
                    !.merged = @ \/ EndWithin(web, Len(web.wire) - n) + 1
                                      < EndWithin(web, Len(web.wire))])

\* The call of the command found.  Its entry may be gone, and anything may happen then.
CallCommand ==
    LET request == web.context.request IN
    /\ web.calling
    /\ \/ web' = Respond(web, request, 200)
       \/ /\ ~Found(request.path, web.modules)
          /\ web' = [web EXCEPT !.aborted = TRUE, !.calling = FALSE]

\* Inspector::add and remove, by another thread, under the mutex.
AddCommand == \E c \in Commands : web' = [web EXCEPT !.modules = @ \cup {c}]
RemoveCommand == \E c \in Commands : web' = [web EXCEPT !.modules = @ \ {c}]

WebNext ==
    HttpClientSends \/ PeerSends \/ MessageArrives \/ CallCommand \/ AddCommand \/ RemoveCommand

-----------------------------------------------------------------------------
\* The HttpRequest that stands for what a peer wrote, and whether the server takes it.
Meaning(r) == [r EXCEPT !.method = setMethod(@), !.version = setVersion(@)]
Good(r) == Meaning(r).method # "kInvalid" /\ Meaning(r).version # "kUnknown"

(***************************************************************************)
(* However the stream is cut into messages, the server hands on the        *)
(* requests that were sent, each whole and in order, up to the first one   *)
(* it refuses; once everything has arrived none is left over, unless one   *)
(* message ended two of them (onMessage parses one request per message).   *)
(* The responses are those of the requests served, until one that says     *)
(* that the server closes.                                                 *)
(***************************************************************************)
ServedAsSent ==
    LET refused == {i \in DOMAIN web.sent : ~Good(web.sent[i])}
        good == IF refused = {} THEN Len(web.sent) ELSE Min(refused) - 1
        count == Len(web.replies)
    IN  /\ Len(web.served) <= good
        /\ \A i \in DOMAIN web.served : web.served[i] = Meaning(web.sent[i])
        /\ (web.wire = <<>> /\ ~web.merged /\ ~web.aborted /\ ~web.calling)
             => Len(web.served) = good
        /\ web.connected => count = Len(web.served)
        /\ \A i \in 1 .. count : web.replies[i].close <=> i = count /\ ~web.connected
=============================================================================
