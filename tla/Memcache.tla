------------------------------ MODULE Memcache ------------------------------
(***************************************************************************)
(* examples/memcached/server: a MemcacheServer whose sessions run in       *)
(* several loop threads and share the hash table.                          *)
(*                                                                         *)
(* A command line is one token: op, keys, good (the key of an update or a  *)
(* delete is short enough and the numbers parse), bytes as it is written,  *)
(* cas and noreply.  A byte of a value is one token, so that bytes + 2     *)
(* counts the value with its CR LF.  Flags and expiry times are kept by    *)
(* the code and never read; they are left out, and so is the binary        *)
(* protocol, which the code does not implement.                            *)
(*                                                                         *)
(* The code takes bytes into an int.  A size that an int does not hold, or *)
(* not with two more, is another size to the session, and what comes after *)
(* it is cut at other places than its client means: misread records that.  *)
(* Assertions are in the Debug build only; where one of them fails, the    *)
(* process ends, or goes on as the Release build does.                     *)
(*                                                                         *)
(* A step is one turn of the loop of Session::onMessage, or one key of a   *)
(* get: storeItem, getItem and deleteItem each lock the shard of one key,  *)
(* and between them another session runs.                                  *)
(***************************************************************************)
EXTENDS Integers, Wire, Functions, SequencesExt

CONSTANTS
    Sessions,       \* connections
    MaxItemBytes,   \* 1024 * 1024: a longer value is refused
    MaxLineLength,  \* 1024: as much is read in search of the end of a line
    LongKeys,       \* keys of more than kLongestKeySize bytes
    IntLimit,       \* 2^31: an int is less
    SizeModulus     \* 2^64: a size_t and a uint64_t are less

ASSUME ItemLimit ==
    /\ MaxItemBytes \in Nat /\ MaxLineLength \in Nat /\ IntLimit \in Nat /\ SizeModulus \in Nat
    /\ MaxItemBytes + 2 < IntLimit /\ 2 * IntLimit <= SizeModulus

VARIABLE cache

NoCommand == [text |-> "command", op |-> "", keys |-> <<>>, good |-> TRUE, bytes |-> 0, cas |-> 0,
              noreply |-> FALSE]

NewSession(script) ==
    [wire |-> script, sent |-> script, input |-> <<>>,
     state |-> "kNewCommand", command |-> NoCommand,
     value |-> <<>>, valuelen |-> 0,          \* of currItem_
     bytesToDiscard |-> 0,                    \* of a value too large
     outputBuf |-> <<>>, output |-> <<>>,     \* of a get, and replies
     connected |-> TRUE,                      \* FALSE once shutdown() was called
     alive |-> TRUE,                          \* in sessions_
     misread |-> FALSE, done |-> <<>>]        \* for the properties: a size that did not fit was
                                              \* read, and the commands carried out

\* onConnection has made a session for every connection, and client s writes scripts[s].
CacheStart(scripts) ==
    cache = [items |-> [k \in {} |-> 0],   \* key -> value and cas
             g_cas |-> 0, stopping |-> FALSE, quit |-> FALSE,   \* quit: the process has ended
             seen |-> {},                  \* <<key, cas, value>> that gets returned
             session |-> [s \in Sessions |-> NewSession(scripts[s])]]

-----------------------------------------------------------------------------
(***************************************************************************)
(* MemcacheServer and Item.  c is the cache, and a stored value ends with  *)
(* its CR LF.                                                              *)
(***************************************************************************)
Without(items, key) == Restrict(items, DOMAIN items \ {key})
WithItem(items, key, item) == [k \in DOMAIN items \cup {key} |-> IF k = key THEN item ELSE items[k]]

ButCRLF(value) == SubSeq(value, 1, Len(value) - 2)
endsWithCRLF(value) == Len(value) >= 2 /\ SubSeq(value, Len(value) - 1, Len(value)) = CRLF

Put(c, key, value) ==
    [c EXCEPT !.g_cas = @ + 1,
              !.items = WithItem(@, key, [value |-> value, cas |-> c.g_cas + 1])]

\* Whether storeItem stores, and what it stores.
Stores(items, command, key) ==
    \/ command.op = "set"
    \/ command.op = "add" /\ key \notin DOMAIN items
    \/ command.op \in {"replace", "append", "prepend"} /\ key \in DOMAIN items
    \/ command.op = "cas" /\ key \in DOMAIN items /\ items[key].cas = command.cas

NewValue(items, command, key, value) ==
    CASE command.op = "append" -> ButCRLF(items[key].value) \o value
      [] command.op = "prepend" -> ButCRLF(value) \o items[key].value
      [] OTHER -> value

\* The item made for an append takes the old item's cas.
storeItem_OldCas(c, command, value) ==
    LET key == command.keys[1] IN
    IF ~Stores(c.items, command, key) THEN c
    ELSE IF command.op \in {"append", "prepend"}
    THEN [c EXCEPT !.items[key].value = NewValue(c.items, command, key, value)]
    ELSE Put(c, key, NewValue(c.items, command, key, value))

storeItem(c, command, value) ==
    LET key == command.keys[1] IN
    IF ~Stores(c.items, command, key) THEN c
    ELSE Put(c, key, NewValue(c.items, command, key, value))

StoreReply(items, command) ==
    IF Stores(items, command, command.keys[1]) THEN "STORED"
    ELSE IF command.op = "cas" /\ command.keys[1] \in DOMAIN items THEN "EXISTS" ELSE "NOT_FOUND"

deleteItem(c, key) == [c EXCEPT !.items = Without(@, key)]

-----------------------------------------------------------------------------
(***************************************************************************)
(* Reader::read: the number x is written, and strtoull and static_cast     *)
(* make an int of it.  An int as a size_t is below SizeModulus again.      *)
(***************************************************************************)
strtoull(x) ==
    CASE x \in 0 .. SizeModulus - 1 -> x
      [] x \in 1 - SizeModulus .. -1 -> x + SizeModulus
      [] OTHER -> SizeModulus - 1
AsInt(x) == IF x < IntLimit THEN x ELSE ((x + IntLimit) % (2 * IntLimit)) - IntLimit
AsSize(n) == IF n >= 0 THEN n ELSE n + SizeModulus

\* The sizes that are read as they are written, with two more.
Fits(x) == x >= 0 /\ x + 2 < IntLimit

-----------------------------------------------------------------------------
(***************************************************************************)
(* Session.  Each operator takes a session to what it is after the call.   *)
(***************************************************************************)
Output(ss, msg) == [ss EXCEPT !.output = IF ss.connected THEN Append(@, msg) ELSE @]
reply(ss, msg) == IF ss.command.noreply THEN ss ELSE Output(ss, msg)

\* send(&outputBuf_), which takes its bytes.  After shutdown() they are sent only if earlier ones
\* still wait in the connection, ahead of its FIN.
sendOutputBuf(ss, sent) ==
    [ss EXCEPT !.output = IF sent THEN @ \o ss.outputBuf ELSE @, !.outputBuf = <<>>]

resetRequest(ss) ==
    [ss EXCEPT !.state = "kNewCommand", !.command = NoCommand, !.value = <<>>, !.valuelen = 0,
               !.bytesToDiscard = 0]

\* The command is over: what was done, with the value that came with it.
Finish(ss) == resetRequest([ss EXCEPT !.done = Append(@, [command |-> ss.command, value |-> ss.value])])

\* A turn of the loop for session s leaves the session ss and the rest of the cache c.
Turn(s, c, ss) == cache' = [c EXCEPT !.session[s] = ss]

CanRun(s) == cache.session[s].alive /\ ~cache.quit

\* An assertion fails.
Aborts == cache' = [cache EXCEPT !.quit = TRUE]

\* The line that processRequest gets; anything but a command is an unknown one.
RequestOf(line) ==
    IF Len(line) = 1 /\ line[1].text = "command" THEN line[1]
    ELSE [NoCommand EXCEPT !.op = "unknown", !.good = FALSE]

Updates == {"set", "add", "replace", "append", "prepend", "cas"}

\* bytes + 2 for discardValue: an int that overflows may wrap around or not.
BytesToDiscard(bytes) ==
    IF bytes + 2 < IntLimit THEN {bytes + 2} ELSE {bytes + 2, AsSize(bytes + 2 - 2 * IntLimit)}

\* doUpdate.  Without a key there is no number to read either, and dereferencing the tokenizer is
\* asserted against; so is an item of less than two bytes, in its constructor.
doUpdate(s, ss) ==
    LET command == ss.command
        good == command.good /\ command.keys # <<>>
        bytes == AsInt(strtoull(command.bytes))
        next == [ss EXCEPT !.misread = @ \/ ~Fits(command.bytes)] IN
    \/ command.keys = <<>> /\ Aborts
    \/ ~good /\ Turn(s, cache, Finish(reply(ss, "CLIENT_ERROR")))
    \/ /\ good /\ bytes > MaxItemBytes
       /\ \E n \in BytesToDiscard(bytes) :
            Turn(s, deleteItem(cache, command.keys[1]),
                 [reply(next, "SERVER_ERROR") EXCEPT !.bytesToDiscard = n, !.state = "kDiscardValue"])
    \/ good /\ bytes < 0 /\ Aborts
    \/ /\ good /\ bytes <= MaxItemBytes
       /\ Turn(s, cache, [next EXCEPT !.valuelen = bytes + 2, !.state = "kReceiveValue"])

\* doDelete; without a key, which is asserted against, it looks for an empty one.
doDelete(s, ss) ==
    LET command == ss.command
        found == command.keys # <<>> /\ command.keys[1] \in DOMAIN cache.items IN
    \/ command.keys = <<>> /\ Aborts
    \/ ~command.good /\ Turn(s, cache, Finish(reply(ss, "CLIENT_ERROR")))
    \/ command.good /\ ~found /\ Turn(s, cache, Finish(reply(ss, "NOT_FOUND")))
    \/ /\ command.good /\ found
       /\ Turn(s, deleteItem(cache, command.keys[1]), Finish(reply(ss, "DELETED")))

\* processRequest with the line it got, which the loop then retrieves.
processRequest(s) ==
    LET before == cache.session[s]
        ss == [before EXCEPT !.input = RetrieveLine(@), !.command = RequestOf(Line(before.input))]
        op == ss.command.op
    IN  /\ CanRun(s) /\ before.state = "kNewCommand" /\ findCRLF(before.input) # 0
        /\ \/ op \in Updates /\ doUpdate(s, ss)
           \/ op \in {"get", "gets"} /\ Turn(s, cache, [ss EXCEPT !.state = "get"])
           \/ op = "delete" /\ doDelete(s, ss)
           \/ op = "quit" /\ Turn(s, cache, Finish([ss EXCEPT !.connected = FALSE]))
           \/ /\ op = "shutdown"
              /\ Turn(s, [cache EXCEPT !.stopping = TRUE], Finish([ss EXCEPT !.connected = FALSE]))
           \/ op = "version" /\ Turn(s, cache, Finish(reply(ss, "VERSION")))
           \/ op = "unknown" /\ Turn(s, cache, Finish(reply(ss, "ERROR")))

\* The loop over the keys of get and gets: item->output, and END at the end.  A key that is too
\* long ends it, and the items found so far stay in outputBuf_ for the next get.
getItem(s) ==
    LET ss == cache.session[s]
        keys == ss.command.keys
        key == Head(keys)
        item == cache.items[key]
        next == [ss EXCEPT !.command.keys = Tail(@)]
        learnt == IF ss.command.op = "gets" THEN {<<key, item.cas, item.value>>} ELSE {} IN
    /\ CanRun(s) /\ ss.state = "get"
    /\ \/ /\ keys = <<>>
          /\ \E sent \in {ss.connected, TRUE} :
               Turn(s, cache, Finish(sendOutputBuf([ss EXCEPT !.outputBuf = Append(@, "END")], sent)))
       \/ keys # <<>> /\ key \in LongKeys /\ Turn(s, cache, Finish(reply(ss, "CLIENT_ERROR")))
       \/ /\ keys # <<>> /\ key \notin LongKeys /\ key \notin DOMAIN cache.items
          /\ Turn(s, cache, next)
       \/ /\ keys # <<>> /\ key \notin LongKeys /\ key \in DOMAIN cache.items
          /\ Turn(s, [cache EXCEPT !.seen = @ \cup learnt], [next EXCEPT !.outputBuf = Append(@, "VALUE")])

\* As many bytes as there are and as the item needs; the last one stores it.
receiveValue(s) ==
    LET ss == cache.session[s]
        needed == AsSize(ss.valuelen - Len(ss.value))
        avail == Min({Len(ss.input), needed})
        read == [ss EXCEPT !.input = Retrieve(@, avail), !.value = @ \o SubSeq(ss.input, 1, avail)]
    IN  /\ CanRun(s) /\ ss.state = "kReceiveValue" /\ ss.input # <<>>
        /\ \/ avail < needed /\ Turn(s, cache, read)
           \/ /\ avail = needed /\ endsWithCRLF(read.value)
              /\ Turn(s, storeItem(cache, ss.command, read.value),
                      Finish(reply(read, StoreReply(cache.items, ss.command))))
           \/ /\ avail = needed /\ ~endsWithCRLF(read.value)
              /\ Turn(s, cache, Finish(reply(read, "CLIENT_ERROR")))

\* The CR LF behind the value is forgotten.
discardValue_ButCRLF(s) ==
    LET ss == cache.session[s] IN
    /\ CanRun(s) /\ ss.state = "kDiscardValue" /\ ss.input # <<>>
    /\ IF Len(ss.input) < ss.bytesToDiscard - 2
       THEN Turn(s, cache, [ss EXCEPT !.input = <<>>, !.bytesToDiscard = @ - Len(ss.input)])
       ELSE Turn(s, cache, Finish([ss EXCEPT !.input = Retrieve(@, ss.bytesToDiscard - 2)]))

discardValue(s) ==
    LET ss == cache.session[s] IN
    /\ CanRun(s) /\ ss.state = "kDiscardValue" /\ ss.input # <<>>
    /\ IF Len(ss.input) < ss.bytesToDiscard
       THEN Turn(s, cache, [ss EXCEPT !.input = <<>>, !.bytesToDiscard = @ - Len(ss.input)])
       ELSE Turn(s, cache, Finish([ss EXCEPT !.input = Retrieve(@, ss.bytesToDiscard)]))

\* Too much is read without the end of a line: shutdown, which does nothing the second time.
TooLong(ss) ==
    ss.connected /\ ss.state = "kNewCommand" /\ findCRLF(ss.input) = 0 /\ Len(ss.input) > MaxLineLength
lineTooLong(s) ==
    LET ss == cache.session[s] IN
    CanRun(s) /\ TooLong(ss) /\ Turn(s, cache, [ss EXCEPT !.connected = FALSE])

\* The loop of onMessage is at its end: nothing to read, or half a command line.
Idle(s) ==
    LET ss == cache.session[s] IN
    \/ ss.input = <<>> /\ ss.state # "get"
    \/ ss.state = "kNewCommand" /\ findCRLF(ss.input) = 0 /\ ~TooLong(ss)

\* The next n tokens arrive, and onMessage starts.
ReadMessage(s) ==
    LET ss == cache.session[s] IN
    /\ CanRun(s) /\ Idle(s)
    /\ \E n \in 1 .. Len(ss.wire) :
        Turn(s, cache, [ss EXCEPT !.input = @ \o SubSeq(ss.wire, 1, n), !.wire = Retrieve(@, n)])

\* The connection is lost: onConnection takes the session out of sessions_.
Disconnected(s) ==
    /\ CanRun(s) /\ Idle(s)
    /\ Turn(s, cache, [cache.session[s] EXCEPT !.alive = FALSE])

\* MemcacheServer::stop: three seconds after the command shutdown the loop quits.
stopServer == cache.stopping /\ ~cache.quit /\ cache' = [cache EXCEPT !.quit = TRUE]

CacheNext ==
    \/ \E s \in Sessions :
        \/ ReadMessage(s) \/ processRequest(s) \/ getItem(s) \/ receiveValue(s) \/ discardValue(s)
        \/ lineTooLong(s) \/ Disconnected(s)
    \/ stopServer

-----------------------------------------------------------------------------
(***************************************************************************)
(* What a cas relies on: as long as the item of a key has the cas that a   *)
(* client learnt from gets, it has the value that came with it, whatever   *)
(* the other sessions set, appended, deleted or added in between.          *)
(***************************************************************************)
CasSound ==
    \A k \in DOMAIN cache.items : \A known \in cache.seen :
        (known[1] = k /\ known[2] = cache.items[k].cas) => known[3] = cache.items[k].value

(***************************************************************************)
(* What a client writes: a line for each command, and after a good update  *)
(* as many tokens as it says and two more.  Then comes the next command,   *)
(* or no further line.  Of what comes behind a size that does not fit,     *)
(* nothing is said.  The value is kept unless it is too large.             *)
(***************************************************************************)
CommandAt(script, j) == script[j].text = "command"
CommandsUpTo(script, j) == {k \in 1 .. j : CommandAt(script, k)}
HasValue(command) == command.op \in Updates /\ command.good /\ command.keys # <<>>
Unfit(command) == HasValue(command) /\ ~Fits(command.bytes)
EndOf(script, j) == j + 2 + (IF HasValue(script[j]) THEN script[j].bytes + 2 ELSE 0)
ValueSent(script, j) ==
    IF HasValue(script[j]) /\ script[j].bytes <= MaxItemBytes
    THEN SubSeq(script, j + 3, j + 4 + script[j].bytes) ELSE <<>>
NextAfter(script, e) ==
    \/ e + 1 \in 1 .. Len(script) /\ CommandAt(script, e + 1)
    \/ \A k \in e + 1 .. Len(script) :
         ~CommandAt(script, k) /\ ~(k < Len(script) /\ script[k] = CR /\ script[k + 1] = LF)
Written(script) ==
    /\ NextAfter(script, 0)
    /\ \A j \in CommandsUpTo(script, Len(script)) :
         /\ j + 2 <= Len(script) /\ script[j + 1] = CR /\ script[j + 2] = LF
         /\ \/ Unfit(script[j])
            \/ /\ EndOf(script, j) <= Len(script)
               /\ \A k \in j + 3 .. EndOf(script, j) : ~CommandAt(script, k)
               /\ NextAfter(script, EndOf(script, j))

(***************************************************************************)
(* However the stream is cut into messages, a session carries out the      *)
(* commands that its client sent, in order and with the value bytes that   *)
(* were sent for each, and never takes a byte of a value, discarded ones   *)
(* included, for a command: the i-th that is done is the i-th that was     *)
(* sent, and when all is read, all are done.  This holds until the session *)
(* reads a size that does not fit, which only a client that sent one can   *)
(* make it do: every size from 0 to 2^31 - 3 is taken as it is.            *)
(***************************************************************************)
CommandsAsSent ==
    \A s \in Sessions :
        LET ss == cache.session[s]
            script == ss.sent
            commands == CommandsUpTo(script, Len(script))
        IN  IF ss.misread THEN \E j \in commands : Unfit(script[j])
            ELSE /\ \A i \in DOMAIN ss.done : \E j \in commands :
                     /\ Cardinality(CommandsUpTo(script, j)) = i
                     /\ ss.done[i].command.op = script[j].op
                     /\ ss.done[i].value = ValueSent(script, j)
                 /\ ss.wire = <<>> /\ ss.alive /\ Idle(s) /\ ~cache.quit =>
                      Len(ss.done) = Cardinality(commands)
=============================================================================
