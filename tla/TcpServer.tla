----------------------------- MODULE TcpServer -----------------------------
(***************************************************************************)
(* cnet/net/TcpServer, Acceptor and EventLoopThreadPool: one thread runs   *)
(* the base loop with the listening socket, the others run I/O loops.      *)
(*                                                                         *)
(* A connection goes through the phases none, backlog (the kernel has it), *)
(* new (in connections_), up, down (handleClose or connectDestroyed) and   *)
(* gone, or it is refused.  What TcpConnection does in between is in the   *)
(* module TcpConnection.  Loops run their functors in order, one a step.   *)
(* The process may have Limit descriptors open, its other threads open and *)
(* close some too, and the kernel hands out the connections of the backlog *)
(* in their order.                                                         *)
(***************************************************************************)
EXTENDS Naturals, Sequences, FiniteSets, SequencesExt

CONSTANTS
    Conns, BaseLoop, IoLoops,   \* connections in the order of their ids; loops
    Limit,                      \* descriptors that the process may open
    MaxOthers                   \* bound: those that other threads open

\* The base loop is none of the pool's, and the idle descriptor is open at the start.
ASSUME ServerSizes ==
    IsFiniteSet(Conns) /\ BaseLoop \notin IoLoops /\ Limit \in Nat \ {0} /\ MaxOthers \in Nat

VARIABLE server

ServerStart(threads) ==      \* threads: the loops of the pool, in order
    server = [loops |-> threads, next |-> 1,
              listening |-> FALSE, backlog |-> <<>>,
              phase |-> [c \in Conns |-> "none"], loop |-> [c \in Conns |-> BaseLoop],
              map |-> {},                                    \* connections_
              functors |-> [l \in {BaseLoop} \cup IoLoops |-> <<>>],
              idleFd |-> TRUE, others |-> 0,                 \* idleFd_ is open; other descriptors
              handling |-> "no",                             \* where handleRead is, after EMFILE
              destroyed |-> FALSE, quit |-> {}, touched |-> FALSE,
              accepts |-> [l \in {BaseLoop} \cup IoLoops |-> 0]]

Queued(sv, c) == \E l \in DOMAIN sv.functors : \E i \in DOMAIN sv.functors[l] : sv.functors[l][i][2] = c

\* A socket is open as long as a functor or connections_ refers to its connection.
Open(sv) == {c \in Conns : sv.phase[c] \in {"new", "up", "down"} \/ Queued(sv, c)}
FreeFds(sv) == Limit - Cardinality(Open(sv)) - sv.others - (IF sv.idleFd THEN 1 ELSE 0)

queueInLoop(sv, l, functor) == [sv EXCEPT !.functors[l] = Append(@, functor)]

-----------------------------------------------------------------------------
(***************************************************************************)
(* Functors, and TcpServer's callbacks.                                    *)
(***************************************************************************)
connectEstablished(sv, c) == [sv EXCEPT !.phase[c] = "up"]
connectDestroyed(sv, c) == [sv EXCEPT !.phase[c] = "gone"]

removeConnectionInLoop_KeepsEntry(sv, c) ==
    IF sv.destroyed THEN [sv EXCEPT !.touched = TRUE]
    ELSE queueInLoop(sv, sv.loop[c], <<"destroyed", c>>)

\* By way of a server that is gone, all bets are off.
removeConnectionInLoop(sv, c) ==
    IF sv.destroyed THEN [sv EXCEPT !.touched = TRUE]
    ELSE queueInLoop([sv EXCEPT !.map = @ \ {c}], sv.loop[c], <<"destroyed", c>>)

removeConnection(sv, l, c) ==
    IF l = BaseLoop THEN removeConnectionInLoop(sv, c) ELSE queueInLoop(sv, BaseLoop, <<"remove", c>>)

Do(sv, functor) ==
    CASE functor[1] = "established" -> connectEstablished(sv, functor[2])
      [] functor[1] = "remove" -> removeConnectionInLoop(sv, functor[2])
      [] functor[1] = "destroyed" -> connectDestroyed(sv, functor[2])

Lives(l) == l \notin server.quit /\ ~server.touched

RunFunctor(l) ==
    /\ Lives(l) /\ server.functors[l] # <<>> /\ ~(l = BaseLoop /\ server.handling # "no")
    /\ server' = Do([server EXCEPT !.functors[l] = Tail(@)], Head(server.functors[l]))

\* handleClose of a connection that is up, in its loop.
Close(c) ==
    LET l == server.loop[c] IN
    /\ server.phase[c] = "up" /\ Lives(l) /\ ~(l = BaseLoop /\ server.handling # "no")
    /\ server' = removeConnection([server EXCEPT !.phase[c] = "down"], l, c)

-----------------------------------------------------------------------------
(***************************************************************************)
(* The base loop: start, accept, destroy.                                  *)
(***************************************************************************)
CanServe == ~server.destroyed /\ ~server.touched /\ server.handling = "no"

\* start() and listen(); every call but the first does nothing.
start == CanServe /\ ~server.listening /\ server' = [server EXCEPT !.listening = TRUE]

\* getNextLoop: the loop, and the index for the next call.
getNextLoop(sv) ==
    IF sv.loops = <<>> THEN [loop |-> BaseLoop, next |-> sv.next]
    ELSE [loop |-> sv.loops[sv.next], next |-> IF sv.next >= Len(sv.loops) THEN 1 ELSE sv.next + 1]

newConnection(sv, c) ==
    LET pick == getNextLoop(sv)
        made == [sv EXCEPT !.next = pick.next, !.loop[c] = pick.loop, !.map = @ \cup {c},
                           !.phase[c] = "new", !.accepts[pick.loop] = @ + 1]
    IN  IF pick.loop = BaseLoop THEN connectEstablished(made, c)
        ELSE queueInLoop(made, pick.loop, <<"established", c>>)

Ready == CanServe /\ server.listening /\ server.backlog # <<>>

\* handleRead with a descriptor to spare.
Accept ==
    /\ Ready /\ FreeFds(server) > 0
    /\ server' = newConnection([server EXCEPT !.backlog = Tail(@)], Head(server.backlog))

\* handleRead without one (EMFILE): close the idle descriptor ...
CloseIdle ==
    /\ Ready /\ FreeFds(server) = 0
    /\ server' = [server EXCEPT !.idleFd = FALSE, !.handling = "accept"]

AcceptToRefuse_Skipped ==
    /\ server.handling = "accept"
    /\ server' = [server EXCEPT !.handling = "open"]

\* ... accept and close at once, if nobody else took the descriptor ...
AcceptToRefuse ==
    /\ server.handling = "accept"
    /\ server' = IF FreeFds(server) = 0 THEN [server EXCEPT !.handling = "open"]
                 ELSE [server EXCEPT !.handling = "open", !.backlog = Tail(@),
                                     !.phase[Head(server.backlog)] = "refused"]

\* ... and open the idle one again.
OpenIdle ==
    /\ server.handling = "open"
    /\ server' = [server EXCEPT !.handling = "no", !.idleFd = FreeFds(server) > 0]

handleRead == Accept \/ CloseIdle \/ AcceptToRefuse \/ OpenIdle

\* ~TcpServer: runInLoop of connectDestroyed for every connection left, which is a call for those
\* of the base loop and a functor for the others; then the pool's loops quit.
LeftIn(sv, l) == {c \in sv.map : sv.loop[c] = l}
DestroyFunctors(sv, l) ==
    LET left == SetToSeq(LeftIn(sv, l)) IN [i \in DOMAIN left |-> <<"destroyed", left[i]>>]
DestroyAll(sv) ==
    [sv EXCEPT !.phase = [c \in Conns |-> IF c \in LeftIn(sv, BaseLoop) THEN "gone" ELSE @[c]],
               !.functors = [l \in DOMAIN @ |-> IF l = BaseLoop THEN @[l]
                                                ELSE @[l] \o DestroyFunctors(sv, l)]]
destroy ==
    /\ CanServe /\ server.listening
    /\ server' = [DestroyAll(server) EXCEPT !.destroyed = TRUE, !.map = {}, !.idleFd = FALSE,
                                            !.listening = FALSE]

\* The destructor of an EventLoopThread: the loop may leave functors behind.
LoopQuits(l) ==
    /\ server.destroyed /\ Lives(l) /\ l # BaseLoop
    /\ server' = [server EXCEPT !.quit = @ \cup {l}]

-----------------------------------------------------------------------------
\* The environment: clients, and other threads of the process that use descriptors.
ClientConnects(c) ==
    /\ server.listening /\ server.phase[c] = "none"
    /\ server' = [server EXCEPT !.phase[c] = "backlog", !.backlog = Append(@, c)]
OthersOpen == FreeFds(server) > 0 /\ server.others < MaxOthers /\ server' = [server EXCEPT !.others = @ + 1]
OthersClose == server.others > 0 /\ server' = [server EXCEPT !.others = @ - 1]

ServerNext ==
    \/ start \/ handleRead \/ destroy
    \/ \E c \in Conns : ClientConnects(c) \/ Close(c)
    \/ \E l \in {BaseLoop} \cup IoLoops : RunFunctor(l) \/ LoopQuits(l)
    \/ OthersOpen \/ OthersClose

\* Loops that have something to do go on; an iteration of a loop ends with its functors, so
\* that those of the base loop run though handleRead comes again and again.
ServerFairness ==
    /\ WF_server(handleRead) /\ SF_server(RunFunctor(BaseLoop))
    /\ \A l \in IoLoops : WF_server(RunFunctor(l))

-----------------------------------------------------------------------------
(***************************************************************************)
(* Until the destructor races with an I/O loop: a connection is in         *)
(* connections_ exactly from its creation to its removal, its functors are *)
(* never lost or run twice (each is in at most one queue, and              *)
(* connectDestroyed comes after the removal), a removal that is queued     *)
(* finds its connection (the assertion n==1 of removeConnectionInLoop),    *)
(* descriptors never exceed the limit, and the connections are spread      *)
(* evenly over the loops.                                                  *)
(***************************************************************************)
ConnectionsAccounted ==
    \/ server.touched
    \/ /\ \A c \in server.map :
            \/ server.phase[c] \in {"new", "up"}
            \/ server.phase[c] = "down" /\ <<"remove", c>> \in ToSet(server.functors[BaseLoop])
       /\ \A c \in Conns \ server.map :
            \/ server.phase[c] \in {"none", "backlog", "refused", "gone"}
            \/ /\ <<"destroyed", c>> \in ToSet(server.functors[server.loop[c]])
               /\ server.phase[c] \in {"new", "up"} => server.destroyed
       /\ \A l \in DOMAIN server.functors : \A i, j \in DOMAIN server.functors[l] :
            server.functors[l][i] = server.functors[l][j] => i = j
       /\ \A c \in Conns :
            <<"remove", c>> \in ToSet(server.functors[BaseLoop]) => c \in server.map \/ server.destroyed
       /\ FreeFds(server) >= 0
       /\ \A k, l \in ToSet(server.loops) : server.accepts[k] <= server.accepts[l] + 1

(***************************************************************************)
(* At the limit of descriptors a pending connection is still dealt with:   *)
(* accepted, or accepted and refused by the handleRead that ran into the   *)
(* limit, rather than left to wake the loop for ever.  The exceptions are  *)
(* those of another thread taking the descriptor that handleRead freed:    *)
(* before its accept(), or after it, so that handleRead returns without an *)
(* idle descriptor.  A connection that closed is destroyed, unless the     *)
(* server is.                                                              *)
(***************************************************************************)
TakenByOthers ==
    \/ server.handling = "accept" /\ FreeFds(server) = 0
    \/ server.handling = "no" /\ ~server.idleFd

ServerDrains ==
    \A c \in Conns :
        /\ (server.phase[c] = "backlog")
             ~> (server.phase[c] # "backlog" \/ server.destroyed \/ server.touched \/ TakenByOthers)
        /\ (server.phase[c] = "down") ~> (server.phase[c] = "gone" \/ server.destroyed)
=============================================================================
