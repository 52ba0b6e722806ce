------------------------------ MODULE TcpClient ------------------------------
(***************************************************************************)
(* cnet/net/TcpClient.{h,cc} on its Connector: one connection at a time,   *)
(* reconnection, and destruction, with the calls of the loop thread and of *)
(* one other thread.  A call of the other thread takes two steps where the *)
(* code has two accesses the loop thread can come between.                 *)
(*                                                                         *)
(* The TcpConnection is reduced to what a client sees of it (the           *)
(* TcpConnection module has the rest): it is up, it goes down once, and    *)
(* its socket is closed by connectDestroyed.                               *)
(***************************************************************************)
EXTENDS Connector

CONSTANT MaxCalls   \* bound: calls of connect, disconnect and stop

ASSUME MaxCallsAssumption == MaxCalls \in Nat

VARIABLES
    retry_, clientConnect_,   \* TcpClient::retry_ and TcpClient::connect_
    connection_,              \* the socket of connection_, if it is set
    closeCallback,            \* per socket: whom the TcpConnection calls on close
    doing,                    \* what the loop thread is in the middle of
    call,                     \* the call the other thread is in the middle of
    client,                   \* the TcpClient object: "alive" or "gone"
    keepalive,                \* the one-second timer that holds the Connector
    calls, starts,            \* calls so far, and those of connect()
    stopped,                  \* history: stop() is the last word, and found no restart() decided
    dtor,                     \* history: destroyed with "safe" or "racing" timing
    touched                   \* history: a destroyed object was used

clientVars == <<retry_, clientConnect_, connection_, closeCallback, client, keepalive,
                dtor, touched>>
callVars == <<call, calls, starts, stopped>>
vars == <<connect_, attemptVars, ripe, queue, batch, clientVars, callVars, doing>>

Nothing == [k |-> "nothing", s |-> NoSocket]
LoopIdle == doing = Nothing /\ batch = <<>>
ConnectorGone == client = "gone" /\ timers = 0 /\ ~keepalive

Init ==
    /\ ConnectorInit
    /\ retry_ \in BOOLEAN /\ clientConnect_ = TRUE
    /\ connection_ = NoSocket /\ closeCallback = [s \in Sockets |-> "client"]
    /\ doing = Nothing /\ call = Nothing
    /\ client = "alive" /\ keepalive = FALSE
    /\ calls = 0 /\ starts = 0
    /\ stopped = FALSE /\ dtor = "none" /\ touched = FALSE

-----------------------------------------------------------------------------
\* The loop thread.

\* The channel's events; a socket that connected goes on to newConnection.
Attempt ==
    /\ LoopIdle
    /\ \/ handleWrite /\ doing' = IF connect_ THEN [k |-> "newConnection", s |-> channel_]
                                              ELSE Nothing
       \/ handleError /\ doing' = Nothing
    /\ touched' = (touched \/ ConnectorGone)
    /\ UNCHANGED <<ripe, batch, callVars, retry_, clientConnect_, connection_, closeCallback,
                   client, keepalive, dtor>>

newConnection ==
    /\ doing.k = "newConnection"
    /\ connection_' = doing.s
    /\ closeCallback' = [closeCallback EXCEPT ![doing.s] = "client"]
    /\ fd' = [fd EXCEPT ![doing.s] = "new"]
    /\ doing' = Nothing
    /\ touched' = (touched \/ client = "gone")
    /\ UNCHANGED <<ripe, connect_, state_, channel_, retryDelay_, timers, asserted, gaveUp, queue,
                   batch, callVars, retry_, clientConnect_, client, keepalive, dtor>>

(***************************************************************************)
(* handleClose of the connection at s: the client forgets it and, if it is *)
(* to reconnect, goes on to restart(); connect_ is tested here and stored  *)
(* there.  A detached connection is only destroyed.                        *)
(***************************************************************************)
removeConnection(s) ==
    /\ fd[s] = "up"
    /\ fd' = [fd EXCEPT ![s] = "down"]
    /\ Post(<<Functor("connectDestroyed", s)>>)
    /\ IF closeCallback[s] = "client"
       THEN /\ connection_' = NoSocket
            /\ doing' = IF retry_ /\ clientConnect_ THEN [k |-> "restart", s |-> s]
                                                    ELSE Nothing
            /\ touched' = (touched \/ client = "gone")
       ELSE UNCHANGED <<connection_, doing, touched>>

ConnectionCloses ==
    /\ LoopIdle
    /\ \E s \in Sockets : removeConnection(s)
    /\ UNCHANGED <<ripe, connect_, state_, channel_, retryDelay_, timers, asserted, gaveUp, batch,
                   callVars, retry_, clientConnect_, closeCallback, client, keepalive, dtor>>

Restart ==
    /\ doing.k = "restart"
    /\ restart
    /\ doing' = Nothing
    /\ touched' = (touched \/ ConnectorGone)
    /\ UNCHANGED <<ripe, queue, batch, callVars, retry_, clientConnect_, connection_,
                   closeCallback, client, keepalive, dtor>>

(***************************************************************************)
(* A retry timer expires; it holds a shared pointer to the Connector.  An  *)
(* iteration of the loop is taken to last less than kInitRetryDelayMs.     *)
(***************************************************************************)
RetryTimer ==
    /\ LoopIdle /\ ripe > 0
    /\ startInLoop([Now EXCEPT !.timers = @ - 1], connect_)
    /\ ripe' = ripe - 1
    /\ UNCHANGED <<connect_, queue, batch, clientVars, callVars, doing>>

(***************************************************************************)
(* The one-second timer of the destructor.  An iteration of the loop is    *)
(* taken to last less than that: the Connector's functors queued before    *)
(* it, and the one they queue, have run.                                   *)
(***************************************************************************)
KeepaliveTimer ==
    /\ LoopIdle /\ keepalive /\ ~ConnectorQueued
    /\ keepalive' = FALSE
    /\ UNCHANGED <<ripe, connect_, attemptVars, queue, batch, callVars, doing, retry_,
                   clientConnect_, connection_, closeCallback, client, dtor, touched>>

\* The end of an iteration: doPendingFunctors swaps, and then runs one functor at a time.
\* The next poll() is the first that can report a new connection's channel.
SwapFunctors ==
    /\ LoopIdle /\ (queue # <<>> \/ ripe # timers)
    /\ batch' = queue /\ queue' = <<>>
    /\ ripe' = timers
    /\ fd' = [s \in Sockets |-> IF fd[s] = "new" THEN "up" ELSE fd[s]]
    /\ UNCHANGED <<connect_, state_, channel_, retryDelay_, timers, asserted, gaveUp, clientVars, callVars, doing>>

RunConnectorFunctor ==
    LET f == Head(batch).f IN
    /\ doing = Nothing /\ batch # <<>> /\ f \in ConnectorFunctors
    /\ \/ f = "startInLoop" /\ startInLoop(Now, connect_)
          /\ UNCHANGED queue
       \/ f = "stopInLoop" /\ stopInLoop
       \/ f = "resetChannel" /\ resetChannel /\ UNCHANGED queue
    /\ batch' = Tail(batch)
    /\ touched' = (touched \/ ConnectorGone)
    /\ UNCHANGED <<ripe, connect_, callVars, doing, retry_, clientConnect_, connection_,
                   closeCallback, client, keepalive, dtor>>

RunConnectionFunctor ==
    LET f == Head(batch).f  s == Head(batch).s IN
    /\ doing = Nothing /\ batch # <<>> /\ f \notin ConnectorFunctors
    /\ batch' = Tail(batch)
    /\ \/ /\ f = "connectDestroyed"
          /\ fd' = [fd EXCEPT ![s] = "closed"]
          /\ UNCHANGED <<queue, connection_, closeCallback, doing, touched>>
       \/ /\ f = "setCloseCallback"
          /\ closeCallback' = [closeCallback EXCEPT ![s] = "detached"]
          /\ UNCHANGED <<fd, queue, connection_, doing, touched>>
       \/ /\ f = "forceClose" /\ fd[s] = "up"
          /\ removeConnection(s) /\ UNCHANGED closeCallback
       \/ /\ f = "forceClose" /\ fd[s] # "up"
          /\ UNCHANGED <<fd, queue, connection_, closeCallback, doing, touched>>
    /\ UNCHANGED <<ripe, connect_, state_, channel_, retryDelay_, timers, asserted, gaveUp,
                   callVars, retry_, clientConnect_, client, keepalive, dtor>>

-----------------------------------------------------------------------------
\* Calls: by a callback in the loop thread (here) and by another thread (below).

MayCall == client = "alive" /\ call = Nothing /\ calls < MaxCalls
Called == calls' = calls + 1 /\ UNCHANGED <<batch, doing>>

\* connect() in the loop thread starts at once.
connectHere ==
    /\ LoopIdle /\ MayCall /\ Called
    /\ clientConnect_' = TRUE /\ connect_' = TRUE
    /\ startInLoop(Now, TRUE)
    /\ starts' = starts + 1 /\ stopped' = FALSE
    /\ UNCHANGED <<ripe, queue, call, retry_, connection_, closeCallback, client, keepalive, dtor,
                   touched>>

stopHere ==
    /\ LoopIdle /\ MayCall /\ Called
    /\ clientConnect_' = FALSE /\ connect_' = FALSE
    /\ Post(<<Functor("stopInLoop", NoSocket)>>)
    /\ stopped' = TRUE
    /\ UNCHANGED <<ripe, attemptVars, call, starts, retry_, connection_, closeCallback, client,
                   keepalive, dtor, touched>>

\* disconnect() in any thread; shutdown() leaves the close to the peer.
disconnect ==
    /\ MayCall /\ Called
    /\ clientConnect_' = FALSE
    /\ UNCHANGED <<ripe, connect_, attemptVars, queue, call, starts, stopped, retry_, connection_,
                   closeCallback, client, keepalive, dtor, touched>>

Leave_NoStop(s) ==
    /\ client' = "gone"
    /\ keepalive' = (s = NoSocket)
    /\ UNCHANGED connect_

(***************************************************************************)
(* The destructor in the loop thread.  With a connection it changes the    *)
(* close callback, closes it if nobody else holds it (unique) and lets the *)
(* Connector go; without one it stops the Connector and keeps it for a     *)
(* second.                                                                 *)
(***************************************************************************)
Leave(s) ==
    /\ client' = "gone"
    /\ keepalive' = (s = NoSocket)
    /\ connect_' = IF s = NoSocket THEN FALSE ELSE connect_

destroyHere ==
    /\ LoopIdle /\ client = "alive" /\ call = Nothing
    /\ \E unique \in BOOLEAN :
        /\ Leave(connection_)
        /\ IF connection_ = NoSocket
           THEN Post(<<Functor("stopInLoop", NoSocket)>>) /\ UNCHANGED closeCallback
           ELSE /\ closeCallback' = [closeCallback EXCEPT ![connection_] = "detached"]
                /\ Post(IF unique THEN <<Functor("forceClose", connection_)>> ELSE <<>>)
    /\ dtor' = IF connection_ # NoSocket /\ ConnectorQueued THEN "racing" ELSE "safe"
    /\ UNCHANGED <<ripe, attemptVars, batch, doing, callVars, retry_, clientConnect_, connection_,
                   touched>>

\* The first half of a call of the other thread: its stores, or the destructor's look.
Begin ==
    /\ client = "alive" /\ call = Nothing
    /\ \/ /\ calls < MaxCalls /\ clientConnect_' = TRUE /\ connect_' = TRUE
          /\ call' = [k |-> "connect", s |-> NoSocket]
          /\ calls' = calls + 1 /\ starts' = starts + 1 /\ stopped' = FALSE
       \/ /\ calls < MaxCalls /\ clientConnect_' = FALSE
          /\ call' = [k |-> "stop", s |-> NoSocket]
          /\ calls' = calls + 1 /\ UNCHANGED <<connect_, starts, stopped>>
       \/ /\ call' = [k |-> "destroy", s |-> connection_]
          /\ UNCHANGED <<clientConnect_, connect_, calls, starts, stopped>>
    /\ UNCHANGED <<ripe, attemptVars, queue, batch, doing, retry_, connection_, closeCallback,
                   client, keepalive, dtor, touched>>

\* The second half: the functors for the loop.
Finish ==
    /\ call # Nothing
    /\ call' = Nothing
    /\ \/ /\ call.k = "connect"
          /\ Post(<<Functor("startInLoop", NoSocket)>>)
          /\ UNCHANGED <<connect_, stopped, client, keepalive, dtor>>
       \/ /\ call.k = "stop"
          /\ connect_' = FALSE /\ stopped' = (doing.k # "restart")
          /\ Post(<<Functor("stopInLoop", NoSocket)>>)
          /\ UNCHANGED <<client, keepalive, dtor>>
       \/ /\ call.k = "destroy"
          /\ dtor' = "racing" /\ UNCHANGED stopped
          /\ \E unique \in BOOLEAN :
              /\ Leave(call.s)
              /\ Post(IF call.s = NoSocket THEN <<Functor("stopInLoop", NoSocket)>>
                      ELSE <<Functor("setCloseCallback", call.s)>>
                           \o IF unique THEN <<Functor("forceClose", call.s)>> ELSE <<>>)
    /\ UNCHANGED <<ripe, attemptVars, batch, doing, calls, starts, retry_, clientConnect_,
                   connection_, closeCallback, touched>>

-----------------------------------------------------------------------------
LoopThread ==
    \/ newConnection \/ Restart \/ RetryTimer \/ KeepaliveTimer
    \/ SwapFunctors \/ RunConnectorFunctor \/ RunConnectionFunctor

Next ==
    \/ Attempt \/ ConnectionCloses \/ LoopThread
    \/ connectHere \/ stopHere \/ disconnect \/ destroyHere \/ Begin \/ Finish

\* The loop runs, timers expire, the kernel reports the outcome of an attempt, and a
\* call that began ends.
Fairness == WF_vars(LoopThread) /\ SF_vars(RetryTimer) /\ WF_vars(Attempt) /\ WF_vars(Finish)
Spec == Init /\ [][Next]_vars /\ Fairness

-----------------------------------------------------------------------------
(***************************************************************************)
(* Until an assertion of startInLoop or connecting fails, no socket is     *)
(* lost: one that is connecting is the one the registered channel watches, *)
(* one that is up is connection_'s unless the client was destroyed, and    *)
(* one that is down has its connectDestroyed queued once.  At most one     *)
(* attempt is under way.                                                   *)
(***************************************************************************)
Pending == batch \o queue
SocketsAccounted ==
    asserted \/ \A s \in Sockets :
        /\ fd[s] = "connecting" <=> (Watched /\ channel_ = s)
        /\ fd[s] = "claimed" <=> (doing.k = "newConnection" /\ doing.s = s)
        /\ fd[s] \in {"new", "up"} => connection_ = s \/ client = "gone"
        /\ Cardinality({i \in DOMAIN Pending : Pending[i] = Functor("connectDestroyed", s)})
           = (IF fd[s] = "down" THEN 1 ELSE 0)

(***************************************************************************)
(* One call of connect() is safe whatever stop(), disconnect(), the        *)
(* destructor, the peer and the reconnections do: startInLoop finds        *)
(* kDisconnected and connecting finds no channel, so the queued            *)
(* resetChannel never meets the channel of a newer attempt.                *)
(***************************************************************************)
OneStartIsSafe == starts <= 1 => ~asserted

(***************************************************************************)
(* A client destroyed in its loop thread, with no functor of its Connector *)
(* queued if it has a connection, leaves nothing behind that uses the      *)
(* client or the Connector.                                                *)
(***************************************************************************)
DeadClientUntouched == dtor = "safe" /\ ~asserted => ~touched

(***************************************************************************)
(* When stop() is the last word, attempts, retry timers and the channel    *)
(* come to an end, although stop() cancels no timer and a connection may   *)
(* close after it.  Only the restart() of a removeConnection that has read *)
(* connect_ already when stop() stores comes after it nevertheless, and    *)
(* takes connect_ back: see stopped.                                       *)
(***************************************************************************)
Quiet == timers = 0 /\ channel_ = NoSocket /\ \A s \in Sockets : fd[s] # "connecting"
StopQuiesces == <>[](stopped /\ ~asserted) => <>[]Quiet

(***************************************************************************)
(* A Connector that stays disconnected and wanted tries again and again,   *)
(* as long as no error it does not retry came.                             *)
(***************************************************************************)
Wanting ==
    /\ connect_ /\ state_ = "kDisconnected" /\ call = Nothing /\ client = "alive"
    /\ ~asserted /\ ~gaveUp
RetryGoesOn == <>[]Wanting => []<><<RetryTimer>>_vars
=============================================================================
