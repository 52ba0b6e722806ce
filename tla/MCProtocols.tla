----------------------------- MODULE MCProtocols -----------------------------
(***************************************************************************)
(* TLC instance of the byte-stream components: Buffer, Http and Memcache.  *)
(* They share nothing; a behaviour runs one of them, which the initial     *)
(* state chooses, and the others stay as they start.                       *)
(***************************************************************************)
EXTENDS Buffer, Http, Memcache

VARIABLE system

\* Requests of peers: every kind of reply, and two lines that the server refuses.
Request(method, path, version, headers) ==
    [method |-> method, path |-> path, query |-> "", version |-> version, headers |-> headers]
Connection(value) == [f \in {"Connection"} |-> value]
MCPeerRequests ==
    {Request("GET", <<"/", "proc", "/", "pid">>, "HTTP/1.1", NoHeaders),
     Request("PUT", <<"/", "favicon.ico">>, "HTTP/1.0", Connection("Keep-Alive")),
     Request("HEAD", <<"/", "/">>, "HTTP/1.1", Connection("close")),
     Request("DELETE", <<"/", "proc">>, "HTTP/2.0", NoHeaders),
     Request("OPTIONS", <<"/">>, "HTTP/1.1", NoHeaders)}
MCUrls == {[path |-> <<>>, query |-> "?q", host |-> "h"]}
MCCommands == {<<"proc", "pid">>}

\* Commands of memcached clients, on one key; a second one is looked up and never there.
Byte(b) == <<[text |-> b]>>
CommandLine(op, keys, good, bytes) ==
    <<[text |-> "command", op |-> op, keys |-> keys, good |-> good, bytes |-> bytes, cas |-> 1,
       noreply |-> op = "cas"]>> \o CRLF
Update(op, b) == CommandLine(op, <<"k">>, TRUE, 1) \o Byte(b) \o CRLF
Gets(key) == CommandLine("gets", <<"k", key>>, TRUE, 0)
TooLarge == CommandLine("set", <<"k">>, TRUE, 2) \o Byte("a") \o Byte("b") \o CRLF
WrongSize == CommandLine("set", <<"k">>, TRUE, 0) \o Byte("a") \o CRLF
Plain(op) == CommandLine(op, <<"k">>, TRUE, 0)
Malformed(op) == CommandLine(op, <<"k">>, FALSE, 0)

\* Commands without a key, a line without end, and sizes that an int does not hold: below zero,
\* taken for one below zero, taken for a smaller one, and without two more.
Keyless(op) == CommandLine(op, <<>>, TRUE, 1)
Endless == Byte("a") \o Byte("a") \o Byte("a")
Unheld(bytes) == CommandLine("set", <<"k">>, TRUE, bytes) \o Byte("a") \o CRLF

MCScripts ==
    {<<x \o y, z>> :
        x \in {Update("set", "a"), TooLarge, Plain("quit")},
        y \in {Update(op, "b") : op \in {"append", "prepend", "add", "replace", "cas"}}
              \cup {TooLarge, WrongSize, Malformed("set"), Malformed("delete"), Plain("version"),
                    Gets("j")},
        z \in {Gets("j"), Update("set", "b"), Plain("delete"), Plain("unknown"), Plain("shutdown")}}
    \cup
    {<<Update("set", "a") \o x, y>> :
        x \in {Keyless("set"), Keyless("delete"), Plain("version") \o Endless}
              \cup {Unheld(bytes) : bytes \in {-300, -2, 9, 17, 6}},
        y \in {Gets("long") \o Gets("j"), Update("append", "b")}}

ASSUME ScriptsAreWritten == \A scripts \in MCScripts : \A s \in Sessions : Written(scripts[s])

allVars == <<system, buffer, unread, got, web, cache>>

Init ==
    /\ system \in {"Buffer", "Http", "Memcache"}
    /\ BufferStart /\ WebStart
    /\ \/ system = "Memcache" /\ \E scripts \in MCScripts : CacheStart(scripts)
       \/ system # "Memcache" /\ CacheStart(<< <<>>, <<>> >>)

Next ==
    \/ system = "Buffer" /\ BufferNext /\ UNCHANGED <<system, web, cache>>
    \/ system = "Http" /\ WebNext /\ UNCHANGED <<system, buffer, unread, got, cache>>
    \/ system = "Memcache" /\ CacheNext /\ UNCHANGED <<system, buffer, unread, got, web>>

Spec == Init /\ [][Next]_allVars
=============================================================================
