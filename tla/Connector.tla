------------------------------ MODULE Connector ------------------------------
(***************************************************************************)
(* cnet/net/Connector.{h,cc}: one outgoing connection attempt after the    *)
(* other in an event loop, with a retry timer that is never cancelled and  *)
(* a channel that is destroyed by a functor queued for later.              *)
(*                                                                         *)
(* Handlers, timers and functors run in the loop thread.  A batch of       *)
(* functors is taken from the queue at once, so that what a functor queues *)
(* runs after the rest of its batch.  An operator with parameters takes    *)
(* the values that earlier statements of the same step have assigned.      *)
(***************************************************************************)
EXTENDS Naturals, Sequences, FiniteSets

CONSTANTS
    Sockets,          \* descriptor numbers, reused after close
    NoSocket,
    InitRetryDelay,   \* kInitRetryDelayMs
    MaxRetryDelay     \* kMaxRetryDelayMs

ASSUME NoSocketAssumption == NoSocket \notin Sockets
ASSUME DelayAssumption ==
    /\ InitRetryDelay \in Nat \ {0} /\ MaxRetryDelay \in Nat
    /\ InitRetryDelay <= MaxRetryDelay

VARIABLES
    connect_,      \* stored by start() and stop() of any thread
    state_,
    channel_,      \* the socket of the channel object, if there is one
    retryDelay_,
    fd,            \* "closed", "connecting" (its channel is registered), "claimed", or
                   \* a TcpConnection has it: "new" in this iteration, "up", "down"
    timers,        \* retry timers in the timer queue
    ripe,          \* those of them set before this iteration of the loop
    queue, batch,  \* the loop's pending functors, and those being run
    asserted,      \* history: an assertion of startInLoop or connecting failed
    gaveUp         \* history: connect() met an error that is not retried

attemptVars == <<state_, channel_, retryDelay_, fd, timers, asserted, gaveUp>>

\* A functor queued in the loop, bound to a socket or to none.
Functor(f, s) == [f |-> f, s |-> s]
ConnectorFunctors == {"startInLoop", "stopInLoop", "resetChannel"}
ConnectorQueued == \E i \in DOMAIN queue : queue[i].f \in ConnectorFunctors
Post(fs) == queue' = queue \o fs

ConnectorInit ==
    /\ connect_ = FALSE /\ state_ = "kDisconnected"
    /\ channel_ = NoSocket /\ retryDelay_ = InitRetryDelay
    /\ fd = [s \in Sockets |-> "closed"]
    /\ timers = 0 /\ ripe = 0 /\ queue = <<>> /\ batch = <<>>
    /\ asserted = FALSE /\ gaveUp = FALSE

\* What a step finds in the members that startInLoop and retry change.
Now == [delay |-> retryDelay_, state |-> state_, timers |-> timers]

\* retry() once the socket is closed: a timer, and twice the delay up to its maximum.
Doubled(d) == IF 2 * d < MaxRetryDelay THEN 2 * d ELSE MaxRetryDelay

retry(at, wanted) ==
    /\ state_' = "kDisconnected"
    /\ timers' = IF wanted THEN at.timers + 1 ELSE at.timers
    /\ retryDelay_' = IF wanted THEN Doubled(at.delay) ELSE at.delay

\* A new Channel waits for the socket to become writable.
connecting(s) ==
    /\ state_' = "kConnecting" /\ channel_' = s
    /\ fd' = [fd EXCEPT ![s] = "connecting"]

connect_NoTimer(at) ==
    \/ /\ \E s \in {x \in Sockets : fd[x] = "closed"} : connecting(s)
       /\ retryDelay_' = at.delay /\ timers' = at.timers /\ UNCHANGED gaveUp
    \/ retry(at, FALSE) /\ UNCHANGED <<channel_, fd, gaveUp>>

(***************************************************************************)
(* connect(): by errno the attempt is under way, is retried, or is given   *)
(* up.  A socket of the last two kinds is closed in the same step.         *)
(***************************************************************************)
connect(at) ==
    \/ /\ \E s \in {x \in Sockets : fd[x] = "closed"} : connecting(s)
       /\ retryDelay_' = at.delay /\ timers' = at.timers /\ UNCHANGED gaveUp
    \/ retry(at, TRUE) /\ UNCHANGED <<channel_, fd, gaveUp>>
    \/ /\ gaveUp' = TRUE
       /\ state_' = at.state /\ retryDelay_' = at.delay /\ timers' = at.timers
       /\ UNCHANGED <<channel_, fd>>

startInLoop_IgnoresStop(at, wanted) ==
    /\ asserted' = (asserted \/ at.state # "kDisconnected" \/ channel_ # NoSocket)
    /\ connect(at)

\* startInLoop() with what it finds; the assertions are its own and connecting's.
startInLoop(at, wanted) ==
    /\ asserted' = (asserted \/ at.state # "kDisconnected" \/ (wanted /\ channel_ # NoSocket))
    /\ IF wanted
       THEN connect(at)
       ELSE /\ retryDelay_' = at.delay /\ state_' = at.state /\ timers' = at.timers
            /\ UNCHANGED <<channel_, fd, gaveUp>>

\* restart() resets the delay and starts at once.
restart ==
    /\ connect_' = TRUE
    /\ startInLoop([Now EXCEPT !.delay = InitRetryDelay, !.state = "kDisconnected"], TRUE)

\* removeAndResetChannel() leaves the object for a functor to destroy.
removeAndResetChannel == Post(<<Functor("resetChannel", NoSocket)>>)

stopInLoop_KeepsSocket ==
    IF state_ = "kConnecting"
    THEN /\ removeAndResetChannel
         /\ retry(Now, connect_)
         /\ UNCHANGED <<channel_, fd, asserted, gaveUp>>
    ELSE UNCHANGED <<queue, attemptVars>>

stopInLoop ==
    IF state_ = "kConnecting"
    THEN /\ removeAndResetChannel
         /\ retry(Now, connect_)
         /\ fd' = [fd EXCEPT ![channel_] = "closed"]
         /\ UNCHANGED <<channel_, asserted, gaveUp>>
    ELSE UNCHANGED <<queue, attemptVars>>

resetChannel ==
    /\ channel_' = NoSocket
    /\ UNCHANGED <<state_, retryDelay_, fd, timers, asserted, gaveUp>>

\* The channel is registered: the kernel will report the outcome.
Watched == channel_ # NoSocket /\ fd[channel_] = "connecting" /\ state_ = "kConnecting"

handleWrite_NoQueue ==
    /\ Watched
    /\ state_' = "kConnected"
    /\ fd' = [fd EXCEPT ![channel_] = IF connect_ THEN "claimed" ELSE "closed"]
    /\ UNCHANGED <<connect_, channel_, retryDelay_, timers, asserted, gaveUp, queue>>

(***************************************************************************)
(* handleWrite() with no error: the socket goes to newConnectionCallback_, *)
(* or is closed when stop() came in between; state_ is kConnected either   *)
(* way.                                                                    *)
(***************************************************************************)
handleWrite ==
    /\ Watched
    /\ removeAndResetChannel
    /\ state_' = "kConnected"
    /\ fd' = [fd EXCEPT ![channel_] = IF connect_ THEN "claimed" ELSE "closed"]
    /\ UNCHANGED <<connect_, channel_, retryDelay_, timers, asserted, gaveUp>>

(***************************************************************************)
(* handleError(), and handleWrite() that finds SO_ERROR or a connection of *)
(* the socket with itself: close and try again.                            *)
(***************************************************************************)
handleError ==
    /\ Watched
    /\ removeAndResetChannel
    /\ retry(Now, connect_)
    /\ fd' = [fd EXCEPT ![channel_] = "closed"]
    /\ UNCHANGED <<connect_, channel_, asserted, gaveUp>>
=============================================================================
