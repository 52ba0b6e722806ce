---------------------------- MODULE TcpConnection ----------------------------
(***************************************************************************)
(* One connection of cnet/net/TcpConnection.{h,cc} in its I/O loop: the    *)
(* handlers of its channel, the functors queued for it, the calls its      *)
(* callbacks and other threads make, the socket, and the server that       *)
(* removes it when it closes.                                              *)
(*                                                                         *)
(* Bytes are numbered in the order sendInLoop takes them; wire is what the *)
(* kernel accepted.  The epoll registration of the channel follows         *)
(* EPollPoller.  A batch of functors and the poll between two batches are  *)
(* kept apart: what is queued by a functor waits for a poll.               *)
(***************************************************************************)
EXTENDS Channel, Naturals, FiniteSets

CONSTANTS
    Threads,         \* threads other than the I/O loop's that hold the pointer
    LoopOps,         \* what callbacks in the I/O loop call
    OffLoopOps,      \* what other threads call
    MsgLen,          \* bytes in one message
    HighWaterMark,
    MaxCalls,        \* bound: calls made on the connection in its loop
    MaxOffCalls,     \* bound: calls made by other threads
    MaxQueue         \* bound: functors queued by other threads

Ops == {"send", "sendBuffer", "shutdown", "forceClose", "forceCloseWithDelay",
        "startRead", "stopRead"}

ASSUME OpsAssumption == LoopOps \subseteq Ops /\ OffLoopOps \subseteq Ops
ASSUME SizesAssumption == MsgLen \in Nat \ {0} /\ HighWaterMark \in Nat \ {0}
ASSUME BoundsAssumption == MaxCalls \in Nat /\ MaxOffCalls \in Nat /\ MaxQueue \in Nat

VARIABLES
    state_, reading_,
    outputBuffer_,  \* bytes waiting
    events_,        \* channel_'s mask
    index_,         \* channel_'s registration: kAdded is in the epoll set
    queue, batch,   \* the loop's pending functors, and those being run
    todo,           \* channel callbacks left of the event being handled
    phase,          \* "poll", "active", "handle" or "functors"
    user,           \* the user callback running in the loop thread
    racing,         \* per thread: the check of state_ made, the rest to do
    delayed,        \* the timer of forceCloseWithDelay is pending
    removing,       \* closeCallback_ calls the server has not acted on
    server,         \* the server "owns" or "erased" the connection, or is "gone"
    calls, offCalls,  \* calls made so far
    accepted,       \* bytes sendInLoop took
    wire,           \* bytes the kernel took
    finSent,        \* shutdownWrite was called
    peerFin,        \* the peer sent FIN
    broken,         \* the connection was reset
    ups, closes, destroyed,  \* history: callbacks "up", handleClose, connectDestroyed
    revived         \* history: the close was undone by what came late

dataVars == <<outputBuffer_, accepted, wire>>
chanVars == <<events_, index_, revived>>
netVars == <<peerFin, broken>>
histVars == <<ups, closes, destroyed>>
callVars == <<racing, calls, offCalls>>
loopVars == <<batch, todo, phase, user>>
vars == <<state_, reading_, dataVars, chanVars, netVars, finSent, histVars, callVars,
          loopVars, queue, delayed, removing, server>>

StateE == {"kDisconnected", "kConnecting", "kConnected", "kDisconnecting"}
Open == {"kConnected", "kDisconnecting"}

\* The constructor, and TcpServer::newConnection's runInLoop(connectEstablished).
Init ==
    /\ state_ = "kConnecting" /\ reading_ = TRUE
    /\ outputBuffer_ = <<>> /\ accepted = 0 /\ wire = <<>>
    /\ events_ = kNoneEvent /\ index_ = "kNew" /\ revived = FALSE
    /\ queue = <<"connectEstablished">> /\ batch = <<>> /\ todo = <<>>
    /\ phase = "poll" /\ user = "none"
    /\ racing = [t \in Threads |-> "none"] /\ calls = 0 /\ offCalls = 0
    /\ delayed = FALSE /\ removing = 0 /\ server = "owns"
    /\ finSent = FALSE /\ peerFin = FALSE /\ broken = FALSE
    /\ ups = 0 /\ closes = 0 /\ destroyed = 0

-----------------------------------------------------------------------------
(* Channel::update with EPollPoller: an event set that becomes empty is      *)
(* taken out of the epoll set, any other update puts the channel into it.    *)

Closed == state_ = "kDisconnected" \/ destroyed > 0

register(ev) ==
    /\ events_' = ev
    /\ index_' = IF index_ = "kAdded" /\ isNoneEvent(ev) THEN "kDeleted" ELSE "kAdded"

\* revived notes what undoes a close: reported events wait while it is made, or
\* the channel, closed or with no events left, is put into the epoll set, which
\* reports POLLHUP for it.
Revives(ev) == phase = "active" \/ ((Closed \/ isNoneEvent(ev)) /\ index_' = "kAdded")

updateChannel(ev) == register(ev) /\ revived' = (revived \/ Revives(ev))

-----------------------------------------------------------------------------
(* The parts of TcpConnection that run in the loop *)

Bytes(n) == [i \in 1..n |-> accepted + i]

Crosses(oldLen, n) == oldLen + n >= HighWaterMark /\ oldLen < HighWaterMark

\* Mutant of DirectWrite: bytes that wait are overtaken.
DirectWrite_Always == TRUE

\* The direct write of sendInLoop: k bytes, none of them if the socket is dead
\* (EPIPE or ECONNRESET) or its buffer is full.
DirectWrite == ~isWriting(events_) /\ outputBuffer_ = <<>>
SocketDead == broken \/ finSent

\* sendInLoop; rest is the queue without the functor that called it.
sendInLoop(rest) ==
    \/ /\ state_ = "kDisconnected"
       /\ queue' = rest
       /\ UNCHANGED <<dataVars, chanVars>>
    \/ /\ state_ # "kDisconnected"
       /\ DirectWrite /\ SocketDead
       /\ accepted' = accepted + MsgLen
       /\ queue' = rest
       /\ UNCHANGED <<outputBuffer_, wire, chanVars>>
    \/ /\ state_ # "kDisconnected"
       /\ ~(DirectWrite /\ SocketDead)
       /\ \E k \in 0..(IF DirectWrite THEN MsgLen ELSE 0) :
             LET left == SubSeq(Bytes(MsgLen), k + 1, MsgLen) IN
             /\ wire' = wire \o SubSeq(Bytes(MsgLen), 1, k)
             /\ outputBuffer_' = outputBuffer_ \o left
             /\ IF left # <<>> /\ ~isWriting(events_)
                THEN updateChannel(enableWriting(events_)) ELSE UNCHANGED chanVars
             /\ queue' = rest \o
                    (IF left = <<>> THEN <<"writeComplete">>
                     ELSE IF Crosses(Len(outputBuffer_), Len(left)) THEN <<"highWater">>
                     ELSE <<>>)
       /\ accepted' = accepted + MsgLen

\* Mutants of FinIfIdle: the test is missing, or negated.
FinIfIdle_Always == finSent' = TRUE
FinIfIdle_Negated == finSent' = (finSent \/ isWriting(events_))

\* shutdownInLoop
FinIfIdle == finSent' = (finSent \/ ~isWriting(events_))

\* Mutant of handleClose: disableAll is missing.
handleClose_KeepsEvents ==
    /\ state_' = "kDisconnected"
    /\ closes' = closes + 1
    /\ user' = "down"
    /\ UNCHANGED <<chanVars, ups, destroyed>>

\* handleClose up to the "down" callback; closeCallback_ follows when that
\* returns.  Its assert is not part of a release build.
handleClose ==
    /\ state_' = "kDisconnected"
    /\ register(disableAll(events_))
    /\ revived' = (revived \/ (state_ \in Open /\ Revives(kNoneEvent)))
    /\ closes' = closes + 1
    /\ user' = "down"
    /\ UNCHANGED <<ups, destroyed>>

\* Mutant of forceCloseInLoop: the test of state_ is missing.
forceCloseInLoop_Unchecked == handleClose

forceCloseInLoop ==
    \/ state_ \in Open /\ handleClose
    \/ state_ \notin Open /\ UNCHANGED <<state_, chanVars, histVars, user>>

startReadInLoop ==
    /\ IF ~reading_ \/ ~isReading(events_)
       THEN updateChannel(enableReading(events_)) ELSE UNCHANGED chanVars
    /\ reading_' = TRUE

\* Mutant of stopReadInLoop: all events are disabled.
stopReadInLoop_All ==
    /\ IF reading_ \/ isReading(events_)
       THEN updateChannel(disableAll(events_)) ELSE UNCHANGED chanVars
    /\ reading_' = FALSE

stopReadInLoop ==
    /\ IF reading_ \/ isReading(events_)
       THEN updateChannel(disableReading(events_)) ELSE UNCHANGED chanVars
    /\ reading_' = FALSE

readInLoop(op) == IF op = "startRead" THEN startReadInLoop ELSE stopReadInLoop

-----------------------------------------------------------------------------
(* Calls from user code in the I/O loop: runInLoop runs at once. *)

InLoop(op) ==
    /\ user # "none"
    /\ op \in LoopOps
    /\ calls < MaxCalls
    /\ calls' = calls + 1

UserSend ==
    /\ \/ InLoop("send") /\ state_ = "kConnected"
       \/ InLoop("sendBuffer")
    /\ sendInLoop(queue)
    /\ UNCHANGED <<state_, reading_, netVars, finSent, histVars, racing, offCalls,
                   loopVars, delayed, removing, server>>

UserShutdown ==
    /\ InLoop("shutdown")
    /\ state_ = "kConnected"
    /\ state_' = "kDisconnecting"
    /\ FinIfIdle
    /\ UNCHANGED <<reading_, dataVars, chanVars, netVars, histVars, racing, offCalls,
                   loopVars, queue, delayed, removing, server>>

UserForceClose ==
    /\ state_ \in Open
    /\ \E op \in {"forceClose", "forceCloseWithDelay"} :
          /\ InLoop(op)
          /\ IF op = "forceClose"
             THEN queue' = Append(queue, "forceClose") /\ UNCHANGED delayed
             ELSE delayed' = TRUE /\ UNCHANGED queue
    /\ state_' = "kDisconnecting"
    /\ UNCHANGED <<reading_, dataVars, chanVars, netVars, finSent, histVars, racing, offCalls,
                   loopVars, removing, server>>

UserRead ==
    /\ \E op \in {"startRead", "stopRead"} : InLoop(op) /\ readInLoop(op)
    /\ UNCHANGED <<state_, dataVars, netVars, finSent, histVars, racing, offCalls,
                   loopVars, queue, delayed, removing, server>>

\* The rest of handleClose and of connectDestroyed come after their callback.
UserReturns ==
    /\ user # "none"
    /\ user' = "none"
    /\ removing' = removing + (IF user = "down" THEN 1 ELSE 0)
    /\ index_' = IF user = "destroy" THEN "kNew" ELSE index_
    /\ UNCHANGED <<state_, reading_, dataVars, events_, revived, netVars, finSent, histVars,
                   callVars, batch, todo, phase, queue, delayed, server>>

-----------------------------------------------------------------------------
(* Calls from other threads: state_ is read now, the rest happens later. *)

Begin(t, op) ==
    /\ racing[t] = "none"
    /\ op \in OffLoopOps
    /\ offCalls < MaxOffCalls
    /\ offCalls' = offCalls + 1
    /\ CASE op = "send" -> state_ = "kConnected"
         [] op = "sendBuffer" -> state_ # "kConnected"
         [] op = "shutdown" -> state_ = "kConnected"
         [] op \in {"forceClose", "forceCloseWithDelay"} -> state_ \in Open
         [] OTHER -> TRUE
    /\ racing' = [racing EXCEPT ![t] = op]
    /\ UNCHANGED <<state_, reading_, dataVars, chanVars, netVars, finSent, histVars, loopVars,
                   calls, queue, delayed, removing, server>>

\* send and sendBuffer queue the same functor.
FunctorOf(op) == IF op = "sendBuffer" THEN "send" ELSE op

Finish(t) ==
    /\ racing[t] # "none"
    /\ Len(queue) < MaxQueue
    /\ state_' = IF racing[t] \in {"shutdown", "forceClose", "forceCloseWithDelay"}
                 THEN "kDisconnecting" ELSE state_
    /\ revived' = (revived \/ (state_ = "kDisconnected" /\ state_' # state_))
    /\ IF racing[t] = "forceCloseWithDelay"
       THEN delayed' = TRUE /\ UNCHANGED queue
       ELSE queue' = Append(queue, FunctorOf(racing[t])) /\ UNCHANGED delayed
    /\ racing' = [racing EXCEPT ![t] = "none"]
    /\ UNCHANGED <<reading_, dataVars, events_, index_, netVars, finSent, histVars, calls, offCalls,
                   loopVars, removing, server>>

-----------------------------------------------------------------------------
(* The channel's events *)

Hup == broken \/ (peerFin /\ finSent)

\* What epoll can report: requested events, HUP whenever it holds (and then IN
\* if requested), ERR on a reset.
PossibleEvents ==
    {r \in SUBSET (events_ \cup Unasked) :
        /\ "HUP" \in r <=> Hup
        /\ "ERR" \in r => broken
        /\ Hup /\ isReading(events_) => "IN" \in r}

Poll(r) ==
    /\ phase = "poll" /\ user = "none"
    /\ index_ = "kAdded"
    /\ r \in PossibleEvents
    /\ todo' = Callbacks(r)
    /\ phase' = "active"
    /\ UNCHANGED <<state_, reading_, dataVars, chanVars, netVars, finSent, histVars, callVars,
                   batch, user, queue, delayed, removing, server>>

\* poll() returns for other reasons: a wakeup, another channel, the timeout.
PollOther ==
    /\ phase = "poll" /\ user = "none"
    /\ phase' = "handle"
    /\ UNCHANGED <<state_, reading_, dataVars, chanVars, netVars, finSent, histVars, callVars,
                   batch, todo, user, queue, delayed, removing, server>>

\* handleEvent of this channel begins; channels before it in activeChannels_
\* have been handled.
handleEvent ==
    /\ phase = "active" /\ user = "none"
    /\ phase' = "handle"
    /\ UNCHANGED <<state_, reading_, dataVars, chanVars, netVars, finSent, histVars, callVars,
                   batch, todo, user, queue, delayed, removing, server>>

Handling(cb) ==
    /\ phase = "handle" /\ user = "none"
    /\ todo # <<>> /\ Head(todo) = cb
    /\ todo' = Tail(todo)
    /\ UNCHANGED <<batch, phase>>

\* handleRead: data, end of file, or an error (which is only logged).
ReadData ==
    /\ Handling("read")
    /\ ~broken
    /\ user' = "callback"
    /\ UNCHANGED <<state_, reading_, dataVars, chanVars, netVars, finSent, histVars, callVars,
                   queue, delayed, removing, server>>

ReadEof ==
    /\ Handling("read")
    /\ peerFin \/ broken
    /\ handleClose
    /\ UNCHANGED <<reading_, dataVars, netVars, finSent, callVars, queue, delayed, removing, server>>

ReadError ==
    /\ Handling("read")
    /\ UNCHANGED <<state_, reading_, dataVars, chanVars, netVars, finSent, histVars, callVars,
                   user, queue, delayed, removing, server>>

\* handleWrite: at least one byte goes out unless the socket is dead; when the
\* buffer is empty writing stops and a postponed shutdown is done.
handleWrite ==
    /\ Handling("write")
    /\ isWriting(events_) /\ ~SocketDead
    /\ \E k \in 1..Len(outputBuffer_) :
          /\ wire' = wire \o SubSeq(outputBuffer_, 1, k)
          /\ outputBuffer_' = SubSeq(outputBuffer_, k + 1, Len(outputBuffer_))
    /\ IF outputBuffer_' = <<>>
       THEN /\ updateChannel(disableWriting(events_))
            /\ queue' = Append(queue, "writeComplete")
            /\ finSent' = (finSent \/ state_ = "kDisconnecting")
       ELSE UNCHANGED <<chanVars, queue, finSent>>
    /\ UNCHANGED <<state_, reading_, accepted, netVars, histVars, callVars, user, delayed,
                   removing, server>>

WriteNothing ==
    /\ Handling("write")
    /\ ~isWriting(events_) \/ SocketDead
    /\ UNCHANGED <<state_, reading_, dataVars, chanVars, netVars, finSent, histVars, callVars,
                   user, queue, delayed, removing, server>>

HandleHup ==
    /\ Handling("close")
    /\ handleClose
    /\ UNCHANGED <<reading_, dataVars, netVars, finSent, callVars, queue, delayed, removing, server>>

handleError ==
    /\ Handling("error")
    /\ UNCHANGED <<state_, reading_, dataVars, chanVars, netVars, finSent, histVars, callVars,
                   user, queue, delayed, removing, server>>

\* The timer of forceCloseWithDelay runs forceCloseInLoop from its own channel,
\* which comes before or after the connection's.
DelayFires ==
    /\ user = "none"
    /\ phase = "active" \/ (phase = "handle" /\ todo = <<>>)
    /\ delayed
    /\ delayed' = FALSE
    /\ forceCloseInLoop
    /\ UNCHANGED <<reading_, dataVars, netVars, finSent, callVars, batch, todo, phase, queue,
                   removing, server>>

-----------------------------------------------------------------------------
(* The functors *)

SwapPending ==
    /\ phase = "handle" /\ user = "none" /\ todo = <<>>
    /\ batch' = queue
    /\ queue' = <<>>
    /\ phase' = "functors"
    /\ UNCHANGED <<state_, reading_, dataVars, chanVars, netVars, finSent, histVars, callVars,
                   todo, user, delayed, removing, server>>

EndFunctors ==
    /\ phase = "functors" /\ user = "none" /\ batch = <<>>
    /\ phase' = "poll"
    /\ UNCHANGED <<state_, reading_, dataVars, chanVars, netVars, finSent, histVars, callVars,
                   batch, todo, user, queue, delayed, removing, server>>

Functor(name) ==
    /\ phase = "functors" /\ user = "none"
    /\ batch # <<>> /\ Head(batch) = name
    /\ batch' = Tail(batch)
    /\ UNCHANGED <<todo, phase, callVars, netVars, delayed>>

connectEstablished ==
    /\ Functor("connectEstablished")
    /\ state_' = "kConnected"
    /\ updateChannel(enableReading(events_))
    /\ ups' = ups + 1
    /\ user' = "callback"
    /\ UNCHANGED <<reading_, dataVars, finSent, closes, destroyed, queue, removing, server>>

\* connectDestroyed: a connection that is still up (the server goes away) is
\* taken down first, and its channel leaves the poller after that callback.
connectDestroyed ==
    /\ Functor("connectDestroyed")
    /\ destroyed' = destroyed + 1
    /\ \/ /\ state_ = "kConnected"
          /\ state_' = "kDisconnected"
          /\ updateChannel(disableAll(events_))
          /\ user' = "destroy"
       \/ /\ state_ # "kConnected"
          /\ index_' = "kNew"
          /\ UNCHANGED <<state_, events_, revived, user>>
    /\ UNCHANGED <<reading_, dataVars, finSent, ups, closes, queue, removing, server>>

RunSend ==
    /\ Functor("send")
    /\ sendInLoop(queue)
    /\ UNCHANGED <<state_, reading_, finSent, histVars, user, removing, server>>

RunShutdown ==
    /\ Functor("shutdown")
    /\ FinIfIdle
    /\ UNCHANGED <<state_, reading_, dataVars, chanVars, histVars, user, queue, removing, server>>

RunForceClose ==
    /\ Functor("forceClose")
    /\ forceCloseInLoop
    /\ UNCHANGED <<reading_, dataVars, finSent, queue, removing, server>>

RunRead ==
    /\ \E op \in {"startRead", "stopRead"} : Functor(op) /\ readInLoop(op)
    /\ UNCHANGED <<state_, dataVars, finSent, histVars, user, queue, removing, server>>

\* writeCompleteCallback_ and highWaterMarkCallback_: user code.
RunCallback ==
    /\ Functor("writeComplete") \/ Functor("highWater")
    /\ user' = "callback"
    /\ UNCHANGED <<state_, reading_, dataVars, chanVars, finSent, histVars, queue, removing, server>>

\* Mutant of RemoveConnection: the connection is only erased from the map.
RemoveConnection_OnlyErases ==
    /\ removing > 0 /\ server # "gone"
    /\ removing' = removing - 1
    /\ server' = "erased"
    /\ UNCHANGED <<state_, reading_, dataVars, chanVars, netVars, finSent, histVars, callVars,
                   loopVars, queue, delayed>>

\* TcpServer::removeConnection and removeConnectionInLoop, in the base loop.
\* Through the pointer of a server that is gone nothing useful happens.
RemoveConnection ==
    /\ removing > 0 /\ server # "gone"
    /\ removing' = removing - 1
    /\ server' = "erased"
    /\ queue' = Append(queue, "connectDestroyed")
    /\ UNCHANGED <<state_, reading_, dataVars, chanVars, netVars, finSent, histVars, callVars,
                   loopVars, delayed>>

\* ~TcpServer, in the base loop, for a connection it still has.
ServerDies ==
    /\ server = "owns"
    /\ server' = "gone"
    /\ queue' = Append(queue, "connectDestroyed")
    /\ UNCHANGED <<state_, reading_, dataVars, chanVars, netVars, finSent, histVars, callVars,
                   loopVars, delayed, removing>>

-----------------------------------------------------------------------------
(* The peer *)

PeerFin ==
    /\ ~peerFin /\ ups > 0 /\ peerFin' = TRUE
    /\ UNCHANGED <<state_, reading_, dataVars, chanVars, broken, finSent, histVars, callVars,
                   loopVars, queue, delayed, removing, server>>

PeerReset ==
    /\ ~broken /\ ups > 0 /\ broken' = TRUE
    /\ UNCHANGED <<state_, reading_, dataVars, chanVars, peerFin, finSent, histVars, callVars,
                   loopVars, queue, delayed, removing, server>>

-----------------------------------------------------------------------------
UserCalls == UserSend \/ UserShutdown \/ UserForceClose \/ UserRead
Handlers == ReadData \/ ReadEof \/ ReadError \/ handleWrite \/ WriteNothing \/ HandleHup
            \/ handleError
Functors == connectEstablished \/ connectDestroyed \/ RunSend \/ RunShutdown
            \/ RunForceClose \/ RunRead \/ RunCallback

\* What the loop thread does unless it waits in poll().
LoopStep == UserReturns \/ handleEvent \/ Handlers \/ Functors \/ SwapPending \/ EndFunctors

PollWritable == \E r \in PossibleEvents : "OUT" \in r /\ Poll(r)

Next ==
    \/ LoopStep \/ PollOther \/ DelayFires \/ UserCalls \/ RemoveConnection \/ ServerDies
    \/ \E r \in PossibleEvents : Poll(r)
    \/ \E t \in Threads : (\E op \in OffLoopOps : Begin(t, op)) \/ Finish(t)
    \/ PeerFin \/ PeerReset

(***************************************************************************)
(* The loop thread and the base loop keep running, poll() returns for a    *)
(* pending functor (EventLoop's NoSleepOnFunctor), timers fire             *)
(* (TimerQueue), and a peer that is alive reads: a channel that waits to   *)
(* write is told again and again that it can.                              *)
(***************************************************************************)
SafetySpec == Init /\ [][Next]_vars
Spec ==
    /\ SafetySpec
    /\ WF_vars(LoopStep) /\ WF_vars(PollOther) /\ WF_vars(RemoveConnection)
    /\ SF_vars(DelayFires) /\ SF_vars(PollWritable)
    /\ \A t \in Threads : WF_vars(Finish(t))

-----------------------------------------------------------------------------
(* Properties *)


\* What reaches the peer is what was sent, in order and with no gap: the wire
\* and then the buffer hold the bytes sendInLoop took, from the first on, and
\* all of them while the socket lives.  A direct write never overtakes the
\* buffer (TcpConnection.cc:144).
StreamInOrder ==
    LET stream == wire \o outputBuffer_ IN
    /\ \A i \in 1..Len(stream) : stream[i] = i
    /\ ~SocketDead => Len(stream) = accepted

\* Up, and not brought back after a close.
Alive == state_ \in Open /\ ~revived

\* An open connection waits for the socket to be writable exactly while it has
\* bytes to write: no stalled output, no busy loop, through stopRead,
\* startRead, partial writes and a pending shutdown.
WritingIffBuffered == Alive => (isWriting(events_) <=> outputBuffer_ # <<>>)

\* shutdown() never cuts off bytes that were buffered before it: once the FIN
\* is out nothing is left behind it.
FinAfterData == Alive /\ finSent => outputBuffer_ = <<>>

\* However the peer, the callbacks, the delayed close and the server race, the
\* connection goes down once, is destroyed once and is quiet afterwards: only
\* what revives a closed connection can make it close again.
ClosesOnceUnlessRevived == revived \/ (ups <= 1 /\ closes <= ups /\ destroyed <= 1)

\* After the "down" callback no data is delivered, unless the connection was
\* revived.
QuietAfterDown == [][ReadData => ~Closed \/ revived]_vars

\* A shutdown() reaches the wire once the buffer has drained, or the connection
\* goes down or is reset or destroyed.
ShutdownCompletes ==
    (state_ = "kDisconnecting") ~> (finSent \/ Closed \/ broken)

\* A connection that went down is taken out of the poller and destroyed.
DownIsDestroyed == (state_ = "kDisconnected") ~> (destroyed > 0)

\* "connectDestroyed(); // should be called only once" (TcpConnection.h:108),
\* and handleClose, which asserts that the connection is still open
\* (TcpConnection.cc:375), leads to it.  When the timer of forceCloseWithDelay
\* and the connection's channel are reported by the same poll(), the timer
\* closes the connection and handleRead or the POLLHUP closes it again.
ClosesOnce == closes <= 1 /\ destroyed <= 1
=============================================================================
