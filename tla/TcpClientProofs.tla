-------------------------- MODULE TcpClientProofs --------------------------
(***************************************************************************)
(* Proofs about TcpClient for any number of sockets and calls and any      *)
(* delays.                                                                 *)
(***************************************************************************)
EXTENDS TcpClient, FiniteSetTheorems, SequenceTheorems, TLAPS

SocketOrNone == Sockets \cup {NoSocket}
ConnectionFunctors == {"connectDestroyed", "setCloseCallback", "forceClose"}
FunctorSet == [f : ConnectorFunctors, s : {NoSocket}] \cup [f : ConnectionFunctors, s : Sockets]
FdStates == {"closed", "connecting", "claimed", "new", "up", "down"}

\* The types of the variables.
TypeOK ==
    /\ connect_ \in BOOLEAN /\ asserted \in BOOLEAN /\ gaveUp \in BOOLEAN
    /\ retry_ \in BOOLEAN /\ clientConnect_ \in BOOLEAN /\ keepalive \in BOOLEAN
    /\ stopped \in BOOLEAN /\ touched \in BOOLEAN
    /\ state_ \in {"kDisconnected", "kConnecting", "kConnected"}
    /\ channel_ \in SocketOrNone /\ connection_ \in SocketOrNone
    /\ retryDelay_ \in Nat /\ timers \in Nat /\ ripe \in 0..timers
    /\ fd \in [Sockets -> FdStates]
    /\ queue \in Seq(FunctorSet) /\ batch \in Seq(FunctorSet)
    /\ closeCallback \in [Sockets -> {"client", "detached"}]
    /\ doing \in {Nothing} \cup [k : {"newConnection", "restart"}, s : Sockets]
    /\ call \in {Nothing} \cup [k : {"connect", "stop", "destroy"}, s : SocketOrNone]
    /\ client \in {"alive", "gone"} /\ dtor \in {"none", "safe", "racing"}
    /\ calls \in Nat /\ starts \in Nat

\* How often a functor waits: not at all, at most once, exactly once.
Absent(q, x) == \A i \in 1..Len(q) : q[i] # x
Once(q, x) == \A i, j \in 1..Len(q) : q[i] = x /\ q[j] = x => i = j
Exactly(q, x) == Once(q, x) /\ ~Absent(q, x)

Start == Functor("startInLoop", NoSocket)
Stop == Functor("stopInLoop", NoSocket)
Reset == Functor("resetChannel", NoSocket)
Destroy(s) == Functor("connectDestroyed", s)
Detach(s) == Functor("setCloseCallback", s)
ForceClose(s) == Functor("forceClose", s)

\* A socket is connecting exactly while the registered channel watches it, and a channel that
\* is not registered waits for its resetChannel.
ChannelInv ==
    /\ state_ = "kConnecting" => channel_ # NoSocket /\ fd[channel_] = "connecting"
    /\ \A s \in Sockets : fd[s] = "connecting" => state_ = "kConnecting" /\ channel_ = s
    /\ channel_ # NoSocket /\ state_ # "kConnecting" => Exactly(Pending, Reset)
    /\ channel_ = NoSocket \/ state_ = "kConnecting" => Absent(Pending, Reset)

\* A socket goes from the Connector to the client while the loop thread is between the two, and
\* a client that is alive knows the only one it has.
ConnectionInv ==
    /\ \A s \in Sockets : fd[s] = "claimed" <=> doing.k = "newConnection" /\ doing.s = s
    /\ doing.k = "newConnection" => batch = <<>> /\ state_ = "kConnected"
    /\ client = "alive" =>
         /\ \A s \in Sockets : fd[s] \in {"new", "up"} => connection_ = s
         /\ connection_ # NoSocket => state_ = "kConnected"
         /\ doing.k # "nothing" => connection_ = NoSocket

DownInv ==
    \A s \in Sockets :
        /\ fd[s] = "down" => Exactly(Pending, Destroy(s))
        /\ fd[s] # "down" => Absent(Pending, Destroy(s))

SocketInv == ~asserted => ChannelInv /\ ConnectionInv /\ DownInv

\* The call of connect() that has not reached startInLoop yet, or was not made.
Unstarted == starts = 0 \/ call.k = "connect" \/ ~Absent(Pending, Start)

\* With one call of connect() there is one token: the call, a retry timer, the attempt or the
\* connection.
TokenInv ==
    /\ Unstarted => state_ = "kDisconnected" /\ timers = 0 /\ channel_ = NoSocket
    /\ starts = 0 \/ call.k = "connect" => Absent(Pending, Start)
    /\ starts = 0 => call.k # "connect"
    /\ Once(Pending, Start)
    /\ timers <= 1 /\ (timers = 1 => state_ = "kDisconnected")

\* The sockets whose close can make the client reconnect.
Reconnects(s) == fd[s] = "claimed" \/ (fd[s] \in {"new", "up"} /\ closeCallback[s] = "client")

\* There is at most one such socket, in kConnected, and once its connection is up the channel is
\* about to be destroyed; a retry timer that may expire comes after that, too.
ReconnectInv ==
    /\ \A s \in Sockets : Reconnects(s) => state_ = "kConnected" /\ doing.k # "restart"
    /\ \A s, t \in Sockets : Reconnects(s) /\ Reconnects(t) => s = t
    /\ doing.k = "restart" => state_ = "kConnected" /\ channel_ = NoSocket
    /\ channel_ # NoSocket /\ ripe > 0 => ~Absent(batch, Reset)
    /\ \A s \in Sockets : fd[s] = "up" /\ closeCallback[s] = "client" /\ channel_ # NoSocket
                          => ~Absent(batch, Reset)

\* A client that was destroyed in its loop thread while it had the connection.
Stuck ==
    /\ client = "gone" /\ state_ = "kConnected" /\ doing.k = "nothing"
    /\ \A s \in Sockets : ~Reconnects(s)

\* A forced close of the destructor finds the close callback detached: the functor before it
\* detaches, or has run.
Fenced(q, ran) ==
    \A s \in Sockets : \A i \in 1..Len(q) :
        q[i] = ForceClose(s) => \/ i > 1 /\ q[i - 1] = Detach(s)
                                \/ i = 1 /\ s \in ran
Detached == {s \in Sockets : closeCallback[s] = "detached"}
ForceInv == Stuck \/ (Fenced(queue, {}) /\ Fenced(batch, Detached))

StartInv == starts <= 1 => ~asserted /\ TokenInv /\ ReconnectInv /\ ForceInv

NoneQueued == Absent(Pending, Start) /\ Absent(Pending, Stop) /\ Absent(Pending, Reset)

\* A client that was safely destroyed is out of reach: no socket leads to it, and its Connector
\* is held by the timer, or has nothing left to do.
SafeInv ==
    /\ client = "gone" /\ call = Nothing /\ doing = Nothing /\ ~touched
    /\ \A s \in Sockets : fd[s] \in {"new", "up"} => closeCallback[s] = "detached"
    /\ \/ /\ ~connect_ /\ (keepalive \/ NoneQueued)
          /\ state_ = "kConnecting" => ~Absent(Pending, Stop)
       \/ state_ = "kConnected" /\ NoneQueued

DeadInv ==
    /\ touched \/ dtor # "none" => client = "gone"
    /\ dtor = "safe" /\ ~asserted => SafeInv

-----------------------------------------------------------------------------
(* The functors that wait *)

\* Putting functors behind others.
LEMMA ConcatQueue ==
    ASSUME NEW p \in Seq(FunctorSet), NEW q \in Seq(FunctorSet), NEW x
    PROVE  /\ Absent(p \o q, x) <=> Absent(p, x) /\ Absent(q, x)
           /\ Once(p, x) /\ Absent(q, x) => Once(p \o q, x)
           /\ Absent(p, x) /\ Once(q, x) => Once(p \o q, x)
<1> DEFINE r == p \o q
<1>1. /\ Len(r) = Len(p) + Len(q) /\ Len(p) \in Nat /\ Len(q) \in Nat
      /\ \A i \in 1..Len(p) : r[i] = p[i] /\ i \in 1..Len(r)
      /\ \A i \in 1..Len(q) : r[Len(p) + i] = q[i] /\ Len(p) + i \in 1..Len(r)
      /\ \A i \in 1..Len(r) : i \in 1..Len(p) \/ (i - Len(p) \in 1..Len(q) /\ r[i] = q[i - Len(p)])
  BY ConcatProperties
<1> HIDE DEF r
<1>2. Absent(r, x) <=> Absent(p, x) /\ Absent(q, x)
  BY <1>1 DEF Absent
<1>3. Once(p, x) /\ Absent(q, x) => Once(r, x)
  BY <1>1 DEF Absent, Once
<1>4. Absent(p, x) /\ Once(q, x) => Once(r, x)
  <2> SUFFICES ASSUME Absent(p, x), Once(q, x), NEW i \in 1..Len(r), NEW j \in 1..Len(r),
                      r[i] = x, r[j] = x
               PROVE  i = j
    BY DEF Once
  <2>1. /\ i - Len(p) \in 1..Len(q) /\ q[i - Len(p)] = x
        /\ j - Len(p) \in 1..Len(q) /\ q[j - Len(p)] = x
    BY <1>1 DEF Absent
  <2>2. i - Len(p) = j - Len(p)
    BY <2>1 DEF Once
  <2> QED BY <1>1, <2>2
<1> QED BY <1>2, <1>3, <1>4 DEF r

\* Taking the first functor.
LEMMA TailQueue ==
    ASSUME NEW q \in Seq(FunctorSet), q # <<>>, NEW x
    PROVE  /\ Tail(q) \in Seq(FunctorSet)
           /\ Absent(q, x) => Absent(Tail(q), x) /\ Head(q) # x
           /\ Once(q, x) => Once(Tail(q), x)
           /\ Once(q, x) /\ Head(q) = x => Absent(Tail(q), x)
           /\ ~Absent(q, x) /\ Head(q) # x => ~Absent(Tail(q), x)
<1>1. /\ Tail(q) \in Seq(FunctorSet) /\ Len(Tail(q)) = Len(q) - 1 /\ Head(q) = q[1]
      /\ \A i \in 1..Len(Tail(q)) : Tail(q)[i] = q[i + 1] /\ i + 1 \in 1..Len(q) /\ i + 1 # 1
      /\ \A i \in 1..Len(q) : i = 1 \/ (i - 1 \in 1..Len(Tail(q)) /\ Tail(q)[i - 1] = q[i])
      /\ 1 \in 1..Len(q)
  OBVIOUS
<1>2. Absent(q, x) => Absent(Tail(q), x) /\ Head(q) # x
  BY <1>1 DEF Absent
<1>3. Once(q, x) => Once(Tail(q), x)
  <2> SUFFICES ASSUME Once(q, x), NEW i \in 1..Len(Tail(q)), NEW j \in 1..Len(Tail(q)),
                      Tail(q)[i] = x, Tail(q)[j] = x
               PROVE  i = j
    BY DEF Once
  <2>1. i + 1 = j + 1
    BY <1>1 DEF Once
  <2> QED BY <2>1
<1>4. Once(q, x) /\ Head(q) = x => Absent(Tail(q), x)
  BY <1>1 DEF Once, Absent
<1>5. ~Absent(q, x) /\ Head(q) # x => ~Absent(Tail(q), x)
  BY <1>1 DEF Absent
<1> QED BY <1>1, <1>2, <1>3, <1>4, <1>5

\* Queues of one functor.
LEMMA SingleQueue ==
    ASSUME NEW y, NEW x
    PROVE  /\ Once(<<y>>, x) /\ (Absent(<<y>>, x) <=> y # x) /\ Absent(<<>>, x)
  BY DEF Once, Absent

\* Two queues, the first of which is taken from and the second of which is added to.
LEMMA TwoQueues ==
    ASSUME NEW b \in Seq(FunctorSet), NEW q \in Seq(FunctorSet), NEW t \in Seq(FunctorSet)
    PROVE  /\ b \o q \in Seq(FunctorSet)
           /\ b \o (q \o t) = (b \o q) \o t
           /\ b # <<>> => /\ b \o q # <<>> /\ Head(b \o q) = Head(b)
                          /\ Tail(b) \o q = Tail(b \o q)
           /\ <<>> \o q = q /\ q \o <<>> = q
<1>1. b \o q \in Seq(FunctorSet)
  OBVIOUS
<1>2. b \o (q \o t) = (b \o q) \o t
  BY SMTT(30)
<1>3. <<>> \o q = q /\ q \o <<>> = q
  BY ConcatEmptySeq
<1>4. ASSUME b # <<>>
      PROVE  b \o q # <<>> /\ Head(b \o q) = Head(b) /\ Tail(b) \o q = Tail(b \o q)
  <2>1. Len(b) > 0 /\ Len(b \o q) = Len(b) + Len(q) /\ Len(q) \in Nat /\ Len(b) \in Nat
    BY <1>4
  <2>2. b \o q # <<>> /\ Head(b \o q) = (b \o q)[1] /\ (b \o q)[1] = b[1] /\ Head(b) = b[1]
    BY <2>1
  <2>3. Tail(b) \o q = Tail(b \o q)
    <3>1. /\ Tail(b) \in Seq(FunctorSet) /\ Len(Tail(b)) = Len(b) - 1
          /\ Tail(b \o q) \in Seq(FunctorSet) /\ Len(Tail(b \o q)) = Len(b \o q) - 1
      BY <1>1, <1>4, <2>2
    <3>2. Tail(b) \o q \in Seq(FunctorSet) /\ Len(Tail(b) \o q) = Len(Tail(b \o q))
      BY <2>1, <3>1
    <3>3. ASSUME NEW i \in 1..Len(Tail(b \o q))
          PROVE  (Tail(b) \o q)[i] = Tail(b \o q)[i]
      BY <1>1, <1>4, <2>1, <2>2, <3>1
    <3> QED BY <3>1, <3>2, <3>3, SeqEqual
  <2> QED BY <2>2, <2>3
<1> QED BY <1>1, <1>2, <1>3, <1>4

\* The functors of the Connector and of a connection are different ones.
LEMMA Distinct ==
    /\ Start # Stop /\ Start # Reset /\ Stop # Reset
    /\ \A s \in Sockets : \A x \in {Start, Stop, Reset} :
          x # Destroy(s) /\ x # Detach(s) /\ x # ForceClose(s)
    /\ \A s, t \in Sockets :
          /\ Destroy(s) # Detach(t) /\ Destroy(s) # ForceClose(t) /\ Detach(s) # ForceClose(t)
          /\ s # t => Destroy(s) # Destroy(t) /\ Detach(s) # Detach(t) /\ ForceClose(s) # ForceClose(t)
    /\ {Start, Stop, Reset} \subseteq FunctorSet
    /\ \A s \in Sockets : {Destroy(s), Detach(s), ForceClose(s)} \subseteq FunctorSet
  BY DEF Start, Stop, Reset, Destroy, Detach, ForceClose, Functor, FunctorSet, ConnectorFunctors,
         ConnectionFunctors

\* A functor waits as often after a step as before it.
Keeps(p, r, x) == (Absent(r, x) <=> Absent(p, x)) /\ (Once(p, x) => Once(r, x))

\* A step leaves all functors alone but those of X.
OthersKept(X) == \A x : x \notin X => Keeps(Pending, Pending', x)

\* Posting other functors keeps one.
LEMMA PostKeeps ==
    ASSUME NEW p \in Seq(FunctorSet), NEW t \in Seq(FunctorSet), NEW x, Absent(t, x)
    PROVE  Keeps(p, p \o t, x)
  BY ConcatQueue DEF Keeps

\* Running another functor keeps one.
LEMMA TakeKeeps ==
    ASSUME NEW p \in Seq(FunctorSet), p # <<>>, NEW x, Head(p) # x
    PROVE  Keeps(p, Tail(p), x)
  BY TailQueue DEF Keeps

\* A step that posts nothing and runs no functor.
LEMMA PostedNone ==
    ASSUME queue' = queue, batch' = batch
    PROVE  Pending' = Pending /\ OthersKept({})
  BY DEF Pending, OthersKept, Keeps

\* A step that posts one functor.
LEMMA PostedOne ==
    ASSUME queue \in Seq(FunctorSet), batch \in Seq(FunctorSet), batch' = batch,
           NEW y \in FunctorSet, Post(<<y>>)
    PROVE  /\ OthersKept({y}) /\ ~Absent(Pending', y)
           /\ Absent(Pending, y) => Exactly(Pending', y)
<1>1. <<y>> \in Seq(FunctorSet) /\ Pending \in Seq(FunctorSet)
  BY DEF Pending
<1>2. Pending' = Pending \o <<y>>
  BY <1>1, TwoQueues DEF Pending, Post
<1>3. ASSUME NEW x, x # y PROVE Keeps(Pending, Pending', x)
  BY <1>1, <1>2, <1>3, SingleQueue, PostKeeps
<1>4. ~Absent(Pending', y)
  BY <1>1, <1>2, SingleQueue, ConcatQueue
<1>5. Absent(Pending, y) => Once(Pending', y)
  BY <1>1, <1>2, SingleQueue, ConcatQueue
<1> QED BY <1>3, <1>4, <1>5 DEF OthersKept, Exactly

\* A step that runs the first functor of the batch.
LEMMA TakenNone ==
    ASSUME queue \in Seq(FunctorSet), batch \in Seq(FunctorSet), batch # <<>>,
           batch' = Tail(batch), queue' = queue
    PROVE  /\ OthersKept({Head(batch)}) /\ ~Absent(Pending, Head(batch))
           /\ Pending' = Tail(Pending)
           /\ Once(Pending, Head(batch)) => Absent(Pending', Head(batch))
<1>1. Pending \in Seq(FunctorSet) /\ Pending # <<>> /\ Head(Pending) = Head(batch)
  BY TwoQueues DEF Pending
<1>2. Pending' = Tail(Pending)
  BY TwoQueues DEF Pending
<1>3. ASSUME NEW x, x # Head(batch) PROVE Keeps(Pending, Pending', x)
  BY <1>1, <1>2, <1>3, TakeKeeps
<1>4. Once(Pending, Head(batch)) => Absent(Pending', Head(batch))
  BY <1>1, <1>2, TailQueue
<1>5. ~Absent(Pending, Head(batch))
  BY <1>1, TailQueue
<1> QED BY <1>2, <1>3, <1>4, <1>5 DEF OthersKept

\* A step that runs the first functor of the batch, which posts another.
LEMMA TakenOne ==
    ASSUME queue \in Seq(FunctorSet), batch \in Seq(FunctorSet), batch # <<>>,
           batch' = Tail(batch), NEW y \in FunctorSet, y # Head(batch), Post(<<y>>)
    PROVE  /\ OthersKept({y, Head(batch)}) /\ ~Absent(Pending, Head(batch)) /\ ~Absent(Pending', y)
           /\ Once(Pending, Head(batch)) => Absent(Pending', Head(batch))
           /\ Absent(Pending, y) => Exactly(Pending', y)
<1>1. Pending \in Seq(FunctorSet) /\ Pending # <<>> /\ Head(Pending) = Head(batch)
  BY TwoQueues DEF Pending
<1>2. <<y>> \in Seq(FunctorSet) /\ Tail(batch) \in Seq(FunctorSet) /\ Tail(Pending) \in Seq(FunctorSet)
  BY <1>1
<1>3. Pending' = Tail(Pending) \o <<y>>
  BY <1>2, TwoQueues DEF Pending, Post
<1>4. ASSUME NEW x, x # y, x # Head(batch) PROVE Keeps(Pending, Pending', x)
  <2>1. Keeps(Pending, Tail(Pending), x)
    BY <1>1, <1>4, TakeKeeps
  <2>2. Keeps(Tail(Pending), Pending', x)
    BY <1>2, <1>3, <1>4, SingleQueue, PostKeeps
  <2> QED BY <2>1, <2>2 DEF Keeps
<1>5. ~Absent(Pending', y)
  BY <1>2, <1>3, SingleQueue, ConcatQueue
<1>6. Absent(Pending, y) => Once(Pending', y)
  BY <1>1, <1>2, <1>3, SingleQueue, ConcatQueue, TailQueue
<1>7. ~Absent(Pending, Head(batch))
  BY <1>1, TailQueue
<1>8. ASSUME Once(Pending, Head(batch)) PROVE Absent(Pending', Head(batch))
  <2>1. Absent(Tail(Pending), Head(batch))
    BY <1>1, <1>8, TailQueue
  <2> QED BY <1>2, <1>3, <2>1, SingleQueue, ConcatQueue
<1> QED BY <1>4, <1>5, <1>6, <1>7, <1>8 DEF OthersKept, Exactly

-----------------------------------------------------------------------------
(* The types *)

States == {"kDisconnected", "kConnecting", "kConnected"}

\* startInLoop keeps the types and no retry timer is lost in it.
LEMMA StartTypes ==
    ASSUME TypeOK, NEW at \in [delay : Nat, state : States, timers : Nat], NEW wanted \in BOOLEAN,
           startInLoop(at, wanted)
    PROVE  /\ asserted' \in BOOLEAN /\ gaveUp' \in BOOLEAN /\ (asserted => asserted')
           /\ state_' \in States /\ channel_' \in SocketOrNone /\ retryDelay_' \in Nat
           /\ timers' \in Nat /\ timers' >= at.timers
           /\ fd' \in [Sockets -> FdStates]
<1> DEFINE F == [Sockets -> FdStates]
<1>1. /\ asserted \in BOOLEAN /\ gaveUp \in BOOLEAN /\ channel_ \in SocketOrNone
      /\ fd \in F /\ at.delay \in Nat /\ at.state \in States /\ at.timers \in Nat
  BY DEF TypeOK
<1>2. asserted' \in BOOLEAN /\ (asserted => asserted')
  BY <1>1 DEF startInLoop
<1>3. Doubled(at.delay) \in Nat
  BY <1>1, DelayAssumption DEF Doubled
<1>4. \A s \in Sockets : [fd EXCEPT ![s] = "connecting"] \in F
  BY <1>1 DEF FdStates
<1>5. \/ \E s \in Sockets : connecting(s) /\ retryDelay_' = at.delay /\ timers' = at.timers /\ gaveUp' = gaveUp
      \/ retry(at, TRUE) /\ UNCHANGED <<channel_, fd, gaveUp>>
      \/ /\ gaveUp' \in BOOLEAN /\ state_' = at.state /\ retryDelay_' = at.delay
         /\ timers' = at.timers /\ UNCHANGED <<channel_, fd>>
  BY <1>1 DEF startInLoop, connect
<1>6. CASE \E s \in Sockets : connecting(s) /\ retryDelay_' = at.delay /\ timers' = at.timers /\ gaveUp' = gaveUp
  BY <1>1, <1>2, <1>4, <1>6 DEF connecting, SocketOrNone, States
<1>7. CASE retry(at, TRUE) /\ UNCHANGED <<channel_, fd, gaveUp>>
  BY <1>1, <1>2, <1>3, <1>7 DEF retry, States
<1>8. CASE /\ gaveUp' \in BOOLEAN /\ state_' = at.state /\ retryDelay_' = at.delay
           /\ timers' = at.timers /\ UNCHANGED <<channel_, fd>>
  BY <1>1, <1>2, <1>8
<1> QED BY <1>5, <1>6, <1>7, <1>8

\* What a step finds has its type.
LEMMA NowTypes ==
    ASSUME TypeOK
    PROVE  /\ Now \in [delay : Nat, state : States, timers : Nat]
           /\ Now.delay = retryDelay_ /\ Now.state = state_ /\ Now.timers = timers
           /\ ripe > 0 => LET at == [Now EXCEPT !.timers = @ - 1] IN
                 /\ at \in [delay : Nat, state : States, timers : Nat]
                 /\ at.state = state_ /\ at.timers = timers - 1
           /\ LET at == [Now EXCEPT !.delay = InitRetryDelay, !.state = "kDisconnected"] IN
                 /\ at \in [delay : Nat, state : States, timers : Nat]
                 /\ at.state = "kDisconnected" /\ at.timers = timers
<1>1. retryDelay_ \in Nat /\ state_ \in States /\ timers \in Nat /\ ripe \in 0..timers
  BY DEF TypeOK, States
<1>2. ripe > 0 => timers - 1 \in Nat
  BY <1>1
<1> QED BY <1>1, <1>2, DelayAssumption DEF Now, States

\* A functor of the queue is of the Connector with no socket, or of a connection with its own.
LEMMA HeadTypes ==
    ASSUME TypeOK, batch # <<>>
    PROVE  /\ Head(batch) \in FunctorSet /\ Tail(batch) \in Seq(FunctorSet)
           /\ Head(batch).f \in ConnectorFunctors => Head(batch) \in {Start, Stop, Reset}
           /\ Head(batch).f \notin ConnectorFunctors =>
                /\ Head(batch).s \in Sockets
                /\ Head(batch) \in {Destroy(Head(batch).s), Detach(Head(batch).s), ForceClose(Head(batch).s)}
           /\ Head(batch) = Functor(Head(batch).f, Head(batch).s)
<1>1. batch \in Seq(FunctorSet)
  BY DEF TypeOK
<1>2. Head(batch) \in FunctorSet /\ Tail(batch) \in Seq(FunctorSet)
  BY <1>1
<1> QED BY <1>2 DEF FunctorSet, ConnectorFunctors, ConnectionFunctors, Functor, Start, Stop, Reset,
                    Destroy, Detach, ForceClose

\* Every step keeps the types.
LEMMA TypeInductive == TypeOK /\ [Next]_vars => TypeOK'
<1> SUFFICES ASSUME TypeOK, [Next]_vars PROVE TypeOK'
  OBVIOUS
<1>a. ASSUME NEW y \in FunctorSet, Post(<<y>>) PROVE queue' \in Seq(FunctorSet)
  BY <1>a DEF Post, TypeOK
<1>b. Reset \in FunctorSet /\ Stop \in FunctorSet /\ Start \in FunctorSet
  BY Distinct
<1>c. \A s \in Sockets : {Destroy(s), Detach(s), ForceClose(s)} \subseteq FunctorSet
  BY Distinct
<1>d. Doubled(retryDelay_) \in Nat
  BY DelayAssumption DEF TypeOK, Doubled
<1>1. CASE Attempt
  <2>a. Post(<<Reset>>) /\ touched' \in BOOLEAN
    BY <1>1 DEF Attempt, handleWrite, handleError, removeAndResetChannel, Reset, TypeOK
  <2>1. /\ touched' \in BOOLEAN /\ state_' \in States /\ timers' \in Nat /\ timers' >= timers
        /\ retryDelay_' \in Nat /\ queue' \in Seq(FunctorSet) /\ fd' \in [Sockets -> FdStates]
    <3>0. queue' \in Seq(FunctorSet)
      BY <1>a, <1>b, <2>a
    <3>1. CASE handleWrite
      <4>1. fd' \in [Sockets -> FdStates]
        BY <3>1 DEF TypeOK, handleWrite, FdStates
      <4> QED BY <2>a, <3>0, <3>1, <4>1 DEF TypeOK, handleWrite, States
    <3>2. CASE handleError
      <4>1. fd' \in [Sockets -> FdStates]
        BY <3>2 DEF TypeOK, handleError, FdStates
      <4>2. timers' \in {timers, timers + 1} /\ retryDelay_' \in {retryDelay_, Doubled(retryDelay_)}
        BY <3>2, NowTypes DEF handleError, retry
      <4> QED BY <1>d, <2>a, <3>0, <3>2, <4>1, <4>2 DEF TypeOK, handleError, States, retry
    <3> QED BY <1>1, <3>1, <3>2 DEF Attempt
  <2>2. doing' \in {Nothing} \cup [k : {"newConnection", "restart"}, s : Sockets]
    BY <1>1 DEF Attempt, handleWrite, handleError, Watched, TypeOK, SocketOrNone
  <2>3. UNCHANGED <<connect_, channel_, asserted, gaveUp>>
    BY <1>1 DEF Attempt, handleWrite, handleError
  <2>4. UNCHANGED <<ripe, batch, callVars, retry_, clientConnect_, connection_, closeCallback,
                    client, keepalive, dtor>>
    BY <1>1 DEF Attempt
  <2> QED BY <2>1, <2>2, <2>3, <2>4 DEF TypeOK, callVars, States
<1>2. CASE newConnection
  BY <1>2 DEF newConnection, TypeOK, callVars, FdStates, SocketOrNone, Nothing
<1>3. ASSUME NEW s \in Sockets, removeConnection(s)
      PROVE  /\ fd' \in [Sockets -> FdStates] /\ queue' \in Seq(FunctorSet)
             /\ connection_' \in SocketOrNone /\ touched' \in BOOLEAN
             /\ doing' \in {Nothing} \cup [k : {"newConnection", "restart"}, s : Sockets]
  <2>a. Post(<<Destroy(s)>>) /\ Destroy(s) \in FunctorSet
    BY <1>c, <1>3 DEF removeConnection, Destroy
  <2>1. fd' \in [Sockets -> FdStates] /\ queue' \in Seq(FunctorSet)
    BY <1>a, <1>3, <2>a DEF removeConnection, TypeOK, FdStates
  <2>2. connection_' \in SocketOrNone
    BY <1>3 DEF removeConnection, TypeOK, SocketOrNone
  <2>3. doing' \in {Nothing} \cup [k : {"newConnection", "restart"}, s : Sockets]
    BY <1>3 DEF removeConnection, TypeOK
  <2>4. touched' \in BOOLEAN
    BY <1>3 DEF removeConnection, TypeOK
  <2> QED BY <2>1, <2>2, <2>3, <2>4
<1>4. CASE ConnectionCloses
  <2>1. PICK s \in Sockets : removeConnection(s)
    BY <1>4 DEF ConnectionCloses
  <2>2. /\ UNCHANGED <<ripe, connect_, state_, channel_, retryDelay_, timers, asserted, gaveUp, batch,
                       call, calls, starts, stopped>>
        /\ UNCHANGED <<retry_, clientConnect_, closeCallback, client, keepalive, dtor>>
    BY <1>4 DEF ConnectionCloses, callVars
  <2> QED BY <1>3, <2>1, <2>2 DEF TypeOK
<1>5. CASE Restart
  <2>1. touched' \in BOOLEAN /\ connect_' \in BOOLEAN /\ doing' = Nothing
    BY <1>5 DEF Restart, restart, TypeOK
  <2>2. /\ asserted' \in BOOLEAN /\ gaveUp' \in BOOLEAN
        /\ state_' \in States /\ channel_' \in SocketOrNone /\ retryDelay_' \in Nat
        /\ timers' \in Nat /\ timers' >= timers
        /\ fd' \in [Sockets -> FdStates]
    BY <1>5, NowTypes, StartTypes DEF Restart, restart
  <2>3. UNCHANGED <<ripe, queue, batch, call, calls, starts, stopped, retry_, clientConnect_, connection_,
                    closeCallback, client, keepalive, dtor>>
    BY <1>5 DEF Restart, callVars
  <2> QED BY <2>1, <2>2, <2>3 DEF TypeOK, States
<1>6. CASE RetryTimer
  <2>1. connect_ \in BOOLEAN /\ ripe > 0 /\ ripe' = ripe - 1
    BY <1>6 DEF RetryTimer, TypeOK
  <2>2. /\ asserted' \in BOOLEAN /\ gaveUp' \in BOOLEAN
        /\ state_' \in States /\ channel_' \in SocketOrNone /\ retryDelay_' \in Nat
        /\ timers' \in Nat /\ timers' >= timers - 1
        /\ fd' \in [Sockets -> FdStates]
    BY <1>6, <2>1, NowTypes, StartTypes DEF RetryTimer
  <2>3. UNCHANGED <<connect_, queue, batch, clientVars, callVars, doing>>
    BY <1>6 DEF RetryTimer
  <2>4. ripe' \in 0..timers'
    BY <2>1, <2>2 DEF TypeOK
  <2> QED BY <2>2, <2>3, <2>4 DEF TypeOK, States, clientVars, callVars
<1>7. CASE KeepaliveTimer
  <2>1. keepalive' \in BOOLEAN
    BY <1>7 DEF KeepaliveTimer
  <2>2. UNCHANGED <<ripe, connect_, attemptVars, queue, batch, callVars, doing, retry_,
                    clientConnect_, connection_, closeCallback, client, dtor, touched>>
    BY <1>7 DEF KeepaliveTimer
  <2> QED BY <2>1, <2>2 DEF TypeOK, attemptVars, callVars
<1>8. CASE SwapFunctors
  <2>1. fd' \in [Sockets -> FdStates]
    BY <1>8 DEF SwapFunctors, TypeOK, FdStates
  <2>2. /\ UNCHANGED <<connect_, state_, channel_, retryDelay_, timers, asserted, gaveUp, clientVars, callVars, doing>>
        /\ batch' = queue /\ queue' = <<>> /\ ripe' = timers
    BY <1>8 DEF SwapFunctors
  <2> QED BY <2>1, <2>2 DEF TypeOK, clientVars, callVars
<1>9. CASE RunConnectorFunctor
  <2>1. /\ touched' \in BOOLEAN /\ batch' \in Seq(FunctorSet)
        /\ UNCHANGED <<ripe, connect_, callVars, doing, retry_, clientConnect_, connection_,
                       closeCallback, client, keepalive, dtor>>
    BY <1>9, HeadTypes DEF RunConnectorFunctor, TypeOK
  <2>2. /\ asserted' \in BOOLEAN /\ gaveUp' \in BOOLEAN
        /\ state_' \in States /\ channel_' \in SocketOrNone /\ retryDelay_' \in Nat
        /\ timers' \in Nat /\ timers' >= timers
        /\ fd' \in [Sockets -> FdStates] /\ queue' \in Seq(FunctorSet)
    <3>1. CASE startInLoop(Now, connect_) /\ UNCHANGED queue
      <4>1. connect_ \in BOOLEAN /\ queue \in Seq(FunctorSet)
        BY DEF TypeOK
      <4> QED BY <3>1, <4>1, NowTypes, StartTypes
    <3>2. CASE stopInLoop /\ state_ = "kConnecting"
      <4>1. Post(<<Reset>>)
        BY <3>2 DEF stopInLoop, removeAndResetChannel, Reset
      <4>2. queue' \in Seq(FunctorSet)
        BY <1>a, <1>b, <4>1
      <4>3. fd' \in [Sockets -> FdStates]
        BY <3>2 DEF TypeOK, stopInLoop, FdStates
      <4>4. timers' \in {timers, timers + 1} /\ retryDelay_' \in {retryDelay_, Doubled(retryDelay_)}
        BY <3>2, NowTypes DEF stopInLoop, retry
      <4> QED BY <1>d, <3>2, <4>2, <4>3, <4>4 DEF TypeOK, stopInLoop, States, retry
    <3>4. CASE stopInLoop /\ state_ # "kConnecting"
      BY <3>4 DEF stopInLoop, TypeOK, States, attemptVars
    <3>3. CASE resetChannel /\ UNCHANGED queue
      BY <3>3 DEF resetChannel, TypeOK, States, SocketOrNone
    <3> QED BY <1>9, <3>1, <3>2, <3>3, <3>4 DEF RunConnectorFunctor
  <2> QED BY <2>1, <2>2 DEF TypeOK, States, callVars
<1>10. CASE RunConnectionFunctor
  <2> DEFINE s == Head(batch).s
  <2>1. /\ UNCHANGED <<ripe, connect_, state_, channel_, retryDelay_, timers, asserted, gaveUp,
                       callVars, retry_, clientConnect_, client, keepalive, dtor>>
        /\ batch' \in Seq(FunctorSet) /\ s \in Sockets
    BY <1>10, HeadTypes DEF RunConnectionFunctor
  <2>2. /\ fd' \in [Sockets -> FdStates] /\ queue' \in Seq(FunctorSet)
        /\ connection_' \in SocketOrNone /\ touched' \in BOOLEAN
        /\ doing' \in {Nothing} \cup [k : {"newConnection", "restart"}, s : Sockets]
        /\ closeCallback' \in [Sockets -> {"client", "detached"}]
    <3>1. CASE removeConnection(s) /\ UNCHANGED closeCallback
      BY <1>3, <2>1, <3>1 DEF TypeOK
    <3>2. CASE fd' = [fd EXCEPT ![s] = "closed"] /\ UNCHANGED <<queue, connection_, closeCallback, doing, touched>>
      BY <3>2 DEF TypeOK, FdStates
    <3>3. CASE closeCallback' = [closeCallback EXCEPT ![s] = "detached"] /\ UNCHANGED <<fd, queue, connection_, doing, touched>>
      BY <3>3 DEF TypeOK
    <3>4. CASE UNCHANGED <<fd, queue, connection_, closeCallback, doing, touched>>
      BY <3>4 DEF TypeOK
    <3> QED BY <1>10, <3>1, <3>2, <3>3, <3>4 DEF RunConnectionFunctor
  <2> QED BY <2>1, <2>2 DEF TypeOK, callVars
<1>11. CASE connectHere
  <2>1. /\ asserted' \in BOOLEAN /\ gaveUp' \in BOOLEAN
        /\ state_' \in States /\ channel_' \in SocketOrNone /\ retryDelay_' \in Nat
        /\ timers' \in Nat /\ timers' >= timers
        /\ fd' \in [Sockets -> FdStates]
    BY <1>11, NowTypes, StartTypes DEF connectHere
  <2>2. /\ clientConnect_' \in BOOLEAN /\ connect_' \in BOOLEAN /\ stopped' \in BOOLEAN
        /\ calls' = calls + 1 /\ starts' = starts + 1
        /\ UNCHANGED <<ripe, queue, batch, doing, call, retry_, connection_, closeCallback, client, keepalive, dtor,
                       touched>>
    BY <1>11 DEF connectHere, Called
  <2> QED BY <2>1, <2>2 DEF TypeOK, States
<1>12. CASE stopHere
  <2>1. queue' \in Seq(FunctorSet)
    BY <1>a, <1>b, <1>12 DEF stopHere, Stop
  <2>2. /\ clientConnect_' \in BOOLEAN /\ connect_' \in BOOLEAN /\ stopped' \in BOOLEAN
        /\ calls' = calls + 1
        /\ UNCHANGED <<ripe, attemptVars, batch, doing, call, starts, retry_, connection_, closeCallback,
                       client, keepalive, dtor, touched>>
    BY <1>12 DEF stopHere, Called
  <2> QED BY <2>1, <2>2 DEF TypeOK, attemptVars
<1>13. CASE disconnect
  <2>1. /\ clientConnect_' \in BOOLEAN /\ calls' = calls + 1
        /\ UNCHANGED <<ripe, connect_, attemptVars, queue, batch, doing, call, starts, stopped, retry_,
                       connection_, closeCallback, client, keepalive, dtor, touched>>
    BY <1>13 DEF disconnect, Called
  <2> QED BY <2>1 DEF TypeOK, attemptVars
<1>14. CASE destroyHere
  <2>1. /\ queue' \in Seq(FunctorSet) /\ closeCallback' \in [Sockets -> {"client", "detached"}]
    <3>1. CASE connection_ = NoSocket
      BY <1>a, <1>b, <1>14, <3>1 DEF destroyHere, Stop, TypeOK
    <3>2. CASE connection_ # NoSocket
      <4>1. connection_ \in Sockets
        BY <3>2 DEF TypeOK, SocketOrNone
      <4>2. PICK unique \in BOOLEAN : Post(IF unique THEN <<ForceClose(connection_)>> ELSE <<>>)
        BY <1>14, <3>2 DEF destroyHere, ForceClose
      <4>3. ForceClose(connection_) \in FunctorSet
        BY <1>c, <4>1
      <4>4. queue' \in Seq(FunctorSet)
        BY <4>2, <4>3 DEF Post, TypeOK
      <4>5. closeCallback' \in [Sockets -> {"client", "detached"}]
        BY <1>14, <3>2 DEF destroyHere, TypeOK
      <4> QED BY <4>4, <4>5
    <3> QED BY <3>1, <3>2
  <2>2. connect_' \in BOOLEAN /\ keepalive' \in BOOLEAN /\ client' = "gone"
    BY <1>14 DEF destroyHere, Leave, TypeOK
  <2>3. /\ dtor' \in {"safe", "racing"}
        /\ UNCHANGED <<ripe, attemptVars, batch, doing, callVars, retry_, clientConnect_, connection_, touched>>
    BY <1>14 DEF destroyHere
  <2> QED BY <2>1, <2>2, <2>3 DEF TypeOK, attemptVars, callVars
<1>15. CASE Begin
  <2>1. UNCHANGED <<ripe, attemptVars, queue, batch, doing, retry_, connection_, closeCallback,
                    client, keepalive, dtor, touched>>
    BY <1>15 DEF Begin
  <2>2. clientConnect_' \in BOOLEAN /\ connect_' \in BOOLEAN /\ stopped' \in BOOLEAN
    BY <1>15 DEF Begin, TypeOK
  <2>4. calls' \in Nat /\ starts' \in Nat
    BY <1>15 DEF Begin, TypeOK
  <2>3. call' \in [k : {"connect", "stop", "destroy"}, s : SocketOrNone]
    BY <1>15 DEF Begin, TypeOK, SocketOrNone
  <2> QED BY <2>1, <2>2, <2>3, <2>4 DEF TypeOK, attemptVars
<1>16. CASE Finish
  <2>1. UNCHANGED <<ripe, attemptVars, batch, doing, calls, starts, retry_, clientConnect_,
                    connection_, closeCallback, touched>> /\ call' = Nothing
    BY <1>16 DEF Finish
  <2>2. /\ connect_' \in BOOLEAN /\ stopped' \in BOOLEAN /\ keepalive' \in BOOLEAN
        /\ client' \in {"alive", "gone"} /\ dtor' \in {"none", "safe", "racing"}
    BY <1>16 DEF Finish, Leave, TypeOK
  <2>3. queue' \in Seq(FunctorSet)
    <3>1. CASE call.k = "connect"
      BY <1>a, <1>b, <1>16, <3>1 DEF Finish, Start
    <3>2. CASE call.k = "stop"
      BY <1>a, <1>b, <1>16, <3>2 DEF Finish, Stop
    <3>3. CASE call.k = "destroy" /\ call.s = NoSocket
      BY <1>a, <1>b, <1>16, <3>3 DEF Finish, Stop
    <3>4. CASE call.k = "destroy" /\ call.s # NoSocket
      <4>1. call.s \in Sockets
        BY <3>4 DEF TypeOK, Nothing, SocketOrNone
      <4>2. PICK unique \in BOOLEAN :
               Post(<<Detach(call.s)>> \o IF unique THEN <<ForceClose(call.s)>> ELSE <<>>)
        BY <1>16, <3>4 DEF Finish, ForceClose, Detach
      <4>3. Detach(call.s) \in FunctorSet /\ ForceClose(call.s) \in FunctorSet
        BY <1>c, <4>1
      <4> QED BY <4>2, <4>3 DEF Post, TypeOK
    <3> QED BY <1>16, <3>1, <3>2, <3>3, <3>4 DEF Finish
  <2> QED BY <2>1, <2>2, <2>3 DEF TypeOK, attemptVars
<1>17. CASE UNCHANGED vars
  BY <1>17 DEF vars, TypeOK, attemptVars, clientVars, callVars
<1> QED BY <1>1, <1>2, <1>4, <1>5, <1>6, <1>7, <1>8, <1>9, <1>10, <1>11, <1>12, <1>13, <1>14, <1>15,
           <1>16, <1>17 DEF Next, LoopThread

\* Every variable keeps its type in every reachable state: in particular no retry timer runs
\* that was not set, and every functor of a connection names a socket.
THEOREM TypeCorrect == Spec => []TypeOK
<1>1. ASSUME Init PROVE TypeOK
  <2>1. /\ connect_ \in BOOLEAN /\ asserted \in BOOLEAN /\ gaveUp \in BOOLEAN
        /\ retry_ \in BOOLEAN /\ clientConnect_ \in BOOLEAN /\ keepalive \in BOOLEAN
        /\ stopped \in BOOLEAN /\ touched \in BOOLEAN
    BY <1>1 DEF Init, ConnectorInit
  <2>2. fd \in [Sockets -> FdStates] /\ closeCallback \in [Sockets -> {"client", "detached"}]
    BY <1>1 DEF Init, ConnectorInit, FdStates
  <2>3. /\ state_ = "kDisconnected" /\ channel_ = NoSocket /\ connection_ = NoSocket
        /\ retryDelay_ = InitRetryDelay /\ timers = 0 /\ ripe = 0 /\ queue = <<>> /\ batch = <<>>
        /\ doing = Nothing /\ call = Nothing /\ client = "alive" /\ dtor = "none"
        /\ calls = 0 /\ starts = 0
    BY <1>1 DEF Init, ConnectorInit
  <2> QED BY <2>1, <2>2, <2>3, DelayAssumption DEF TypeOK, SocketOrNone
<1> QED BY <1>1, TypeInductive, PTL DEF Spec

-----------------------------------------------------------------------------
(* The sockets *)

\* A failed assertion is not forgotten.
LEMMA AssertedStays ==
    ASSUME TypeOK, [Next]_vars, ~asserted'
    PROVE  ~asserted
<1>1. \A at, wanted : startInLoop(at, wanted) => (asserted => asserted')
  BY DEF startInLoop
<1>2. Restart \/ RetryTimer \/ connectHere => ~asserted
  BY <1>1 DEF Restart, restart, RetryTimer, connectHere
<1>3. RunConnectorFunctor => ~asserted
  BY <1>1 DEF RunConnectorFunctor, stopInLoop, resetChannel, attemptVars
<1>4. ConnectionCloses \/ newConnection \/ Attempt => ~asserted
  BY DEF ConnectionCloses, newConnection, Attempt, handleWrite, handleError
<1>5. KeepaliveTimer \/ SwapFunctors \/ RunConnectionFunctor \/ stopHere \/ disconnect => ~asserted
  BY DEF KeepaliveTimer, SwapFunctors, RunConnectionFunctor, stopHere, disconnect, attemptVars
<1>6. destroyHere \/ Begin \/ Finish \/ UNCHANGED vars => ~asserted
  BY DEF destroyHere, Begin, Finish, vars, attemptVars
<1> QED BY <1>2, <1>3, <1>4, <1>5, <1>6 DEF Next, LoopThread

\* What startInLoop comes to with n retry timers set when its assertions hold: an attempt with
\* a new channel, or none.
Started(n) ==
    \/ /\ channel_ = NoSocket /\ timers' = n
       /\ \E s \in Sockets : fd[s] = "closed" /\ connecting(s)
    \/ /\ state_' = "kDisconnected" /\ channel_' = channel_ /\ fd' = fd
       /\ timers' = n \/ (timers' = n + 1 /\ channel_ = NoSocket)

\* The outcomes of startInLoop.
LEMMA StartOutcome ==
    ASSUME TypeOK, NEW at \in [delay : Nat, state : States, timers : Nat], NEW wanted \in BOOLEAN,
           startInLoop(at, wanted), ~asserted'
    PROVE  at.state = "kDisconnected" /\ (wanted => channel_ = NoSocket) /\ Started(at.timers)
<1>1. at.state = "kDisconnected" /\ (wanted => channel_ = NoSocket)
  BY DEF startInLoop
<1>2. CASE ~wanted
  BY <1>1, <1>2 DEF startInLoop, Started
<1>3. CASE wanted
  BY <1>1, <1>3 DEF startInLoop, connect, retry, Started
<1> QED BY <1>1, <1>2, <1>3

SocketParts == ChannelInv /\ ConnectionInv /\ DownInv

\* A start by the loop thread that finds no attempt and no connection.
LEMMA StartKeepsSockets ==
    ASSUME TypeOK, SocketParts, NEW n, Started(n), state_ # "kConnecting",
           client = "alive" => connection_ = NoSocket,
           doing.k # "newConnection", doing' = Nothing, connection_' = connection_, client' = client,
           Keeps(Pending, Pending', Reset), \A s \in Sockets : Keeps(Pending, Pending', Destroy(s))
    PROVE  SocketParts'
<1> USE DEF SocketParts
<1>1. fd \in [Sockets -> FdStates] /\ channel_ \in SocketOrNone
  BY DEF TypeOK
<1>2. ASSUME NEW s \in Sockets, fd[s] = "closed", connecting(s), channel_ = NoSocket
      PROVE  SocketParts'
  <2>1. /\ \A t \in Sockets : fd'[t] = IF t = s THEN "connecting" ELSE fd[t]
        /\ state_' = "kConnecting" /\ channel_' = s
    BY <1>1, <1>2 DEF connecting
  <2>2. ChannelInv'
    BY <1>2, <2>1, NoSocketAssumption DEF ChannelInv, Keeps
  <2>3. ConnectionInv'
    BY <1>2, <2>1 DEF ConnectionInv, Nothing
  <2>4. DownInv'
    BY <1>2, <2>1 DEF DownInv, Keeps, Exactly
  <2> QED BY <2>2, <2>3, <2>4
<1>3. ASSUME state_' = "kDisconnected", channel_' = channel_, fd' = fd PROVE SocketParts'
  <2>1. ChannelInv'
    BY <1>3 DEF ChannelInv, Keeps, Exactly
  <2>2. ConnectionInv'
    BY <1>3 DEF ConnectionInv, Nothing
  <2>3. DownInv'
    BY <1>3 DEF DownInv, Keeps, Exactly
  <2> QED BY <2>1, <2>2, <2>3
<1> QED BY <1>2, <1>3 DEF Started

\* The attempt of the registered channel ends: its channel is left to a queued resetChannel.
LEMMA AttemptEnds ==
    ASSUME TypeOK, SocketParts, state_ = "kConnecting", state_' \in {"kDisconnected", "kConnected"},
           channel_' = channel_, OthersKept({Reset, Stop}), Absent(Pending, Reset) => Exactly(Pending', Reset),
           NEW v \in {"closed", "claimed"}, fd' = [fd EXCEPT ![channel_] = v]
    PROVE  ChannelInv' /\ DownInv' /\ channel_ \in Sockets
<1> USE DEF SocketParts
<1>1. fd \in [Sockets -> FdStates] /\ channel_ \in Sockets /\ fd[channel_] = "connecting"
  BY DEF TypeOK, ChannelInv, SocketOrNone
<1>2. \A t \in Sockets : fd'[t] = IF t = channel_ THEN v ELSE fd[t]
  BY <1>1
<1>3. ChannelInv'
  BY <1>1, <1>2, NoSocketAssumption DEF ChannelInv
<1>4. \A s \in Sockets : Keeps(Pending, Pending', Destroy(s))
  BY Distinct DEF OthersKept
<1>5. DownInv'
  BY <1>1, <1>2, <1>4 DEF DownInv, Keeps, Exactly
<1> QED BY <1>1, <1>3, <1>5

\* The connection of a socket goes down.
LEMMA ConnectionEnds ==
    ASSUME TypeOK, SocketParts, NEW s \in Sockets, removeConnection(s), doing = Nothing,
           UNCHANGED <<state_, channel_, client>>, NEW h, OthersKept({Destroy(s), h}),
           h # Reset, \A t \in Sockets : h # Destroy(t),
           Absent(Pending, Destroy(s)) => Exactly(Pending', Destroy(s))
    PROVE  SocketParts'
<1> USE DEF SocketParts
<1>1. /\ \A t \in Sockets : fd'[t] = IF t = s THEN "down" ELSE fd[t]
      /\ fd[s] = "up" /\ s # NoSocket
  BY NoSocketAssumption DEF removeConnection, TypeOK
<1>2. Keeps(Pending, Pending', Reset) /\ \A t \in Sockets : t # s => Keeps(Pending, Pending', Destroy(t))
  BY Distinct DEF OthersKept
<1>3. ChannelInv'
  <2>1. channel_ # NoSocket => channel_ \in Sockets
    BY DEF TypeOK, SocketOrNone
  <2>2. state_ = "kConnecting" => fd'[channel_] = fd[channel_]
    BY <1>1, <2>1 DEF ChannelInv
  <2> QED BY <1>1, <1>2, <2>1, <2>2 DEF ChannelInv, Keeps, Exactly
<1>4. DownInv'
  BY <1>1, <1>2 DEF DownInv, Keeps, Exactly
<1>5. ConnectionInv'
  <2>1. connection_' \in {connection_, NoSocket} /\ doing'.k # "newConnection"
    BY DEF removeConnection, Nothing
  <2>2. doing'.k # "nothing" => connection_' = NoSocket
    BY DEF removeConnection, Nothing
  <2>3. \A t \in Sockets : fd'[t] # "claimed"
    BY <1>1 DEF ConnectionInv, Nothing
  <2>4. ASSUME client' = "alive", NEW t \in Sockets, fd'[t] \in {"new", "up"} PROVE connection_' = t
    <3>1. t # s /\ fd[t] \in {"new", "up"}
      BY <1>1, <2>4
    <3>2. connection_ = s /\ connection_ = t
      BY <1>1, <2>4, <3>1 DEF ConnectionInv
    <3> QED BY <3>1, <3>2
  <2> QED BY <2>1, <2>2, <2>3, <2>4 DEF ConnectionInv
<1> QED BY <1>3, <1>4, <1>5

\* Steps that post functors other than resetChannel and connectDestroyed, and leave the sockets.
LEMMA OthersPosted ==
    ASSUME TypeOK, SocketParts, UNCHANGED <<state_, channel_, fd, connection_, doing, batch>>,
           client = "alive" \/ client' = "gone",
           Keeps(Pending, Pending', Reset), \A s \in Sockets : Keeps(Pending, Pending', Destroy(s))
    PROVE  SocketParts'
<1> USE DEF SocketParts
<1>1. ChannelInv'
  BY DEF ChannelInv, Keeps, Exactly
<1>2. DownInv'
  BY DEF DownInv, Keeps, Exactly
<1>3. ConnectionInv'
  BY DEF ConnectionInv
<1> QED BY <1>1, <1>2, <1>3

\* A step of the other thread, or of a call, that posts a sequence of functors.
LEMMA PostedSome ==
    ASSUME queue \in Seq(FunctorSet), batch \in Seq(FunctorSet), batch' = batch,
           NEW t \in Seq(FunctorSet), Post(t), NEW x, Absent(t, x)
    PROVE  Keeps(Pending, Pending', x)
<1>1. Pending \in Seq(FunctorSet) /\ Pending' = Pending \o t
  BY TwoQueues, SMTT(30) DEF Pending, Post
<1> QED BY <1>1, PostKeeps

\* What the destructor leaves in the queue is not about the channel or a destroyed connection.
LEMMA DestructorPosts ==
    ASSUME NEW s \in Sockets, NEW unique \in BOOLEAN, NEW x,
           x # Detach(s), x # ForceClose(s)
    PROVE  LET t == IF unique THEN <<ForceClose(s)>> ELSE <<>> IN
           /\ t \in Seq(FunctorSet) /\ Absent(t, x)
           /\ <<Detach(s)>> \o t \in Seq(FunctorSet) /\ Absent(<<Detach(s)>> \o t, x)
<1> DEFINE t == IF unique THEN <<ForceClose(s)>> ELSE <<>>
<1>1. ForceClose(s) \in FunctorSet /\ Detach(s) \in FunctorSet
  BY Distinct
<1>2. t \in Seq(FunctorSet) /\ <<Detach(s)>> \in Seq(FunctorSet)
  BY <1>1
<1>3. Absent(t, x) /\ Absent(<<Detach(s)>>, x)
  BY SingleQueue
<1>4. <<Detach(s)>> \o t \in Seq(FunctorSet) /\ Absent(<<Detach(s)>> \o t, x)
  <2> DEFINE d == <<Detach(s)>>
  <2>1. d \in Seq(FunctorSet) /\ t \in Seq(FunctorSet) /\ Absent(d, x) /\ Absent(t, x)
    BY <1>2, <1>3
  <2> HIDE DEF t, d
  <2>2. d \o t \in Seq(FunctorSet) /\ Absent(d \o t, x)
    BY <2>1, ConcatQueue
  <2> QED BY <2>2 DEF d
<1> QED BY <1>2, <1>3, <1>4

\* Every step keeps the sockets accounted for until an assertion fails.
LEMMA SocketInductive == TypeOK /\ SocketInv /\ [Next]_vars => SocketInv'
<1> SUFFICES ASSUME TypeOK, SocketInv, [Next]_vars, ~asserted' PROVE SocketParts'
  BY DEF SocketInv, SocketParts
<1>a. ~asserted /\ SocketParts
  BY AssertedStays DEF SocketInv, SocketParts
<1>b. /\ queue \in Seq(FunctorSet) /\ batch \in Seq(FunctorSet) /\ connect_ \in BOOLEAN
      /\ fd \in [Sockets -> FdStates] /\ channel_ \in SocketOrNone /\ connection_ \in SocketOrNone
  BY DEF TypeOK
<1>c. Reset \in FunctorSet /\ Stop \in FunctorSet /\ Start \in FunctorSet
  BY Distinct
<1>d. \A s \in Sockets : Destroy(s) \in FunctorSet
  BY Distinct
<1>e. \A X : Reset \notin X /\ (\A s \in Sockets : Destroy(s) \notin X) /\ OthersKept(X)
             => Keeps(Pending, Pending', Reset) /\ \A s \in Sockets : Keeps(Pending, Pending', Destroy(s))
  BY DEF OthersKept
<1>f. doing = Nothing => doing.k = "nothing"
  BY DEF Nothing
<1> HIDE DEF TypeOK
<1>1. CASE Attempt
  <2>1. Post(<<Reset>>) /\ batch' = batch /\ channel_' = channel_
    BY <1>1 DEF Attempt, handleWrite, handleError, removeAndResetChannel, Reset
  <2>2. OthersKept({Reset}) /\ (Absent(Pending, Reset) => Exactly(Pending', Reset))
    BY <1>b, <1>c, <2>1, PostedOne
  <2>3. OthersKept({Reset, Stop})
    BY <2>2 DEF OthersKept
  <2>4. /\ state_ = "kConnecting" /\ doing = Nothing /\ batch = <<>>
        /\ UNCHANGED <<connection_, client>>
    BY <1>1 DEF Attempt, handleWrite, handleError, Watched, LoopIdle
  <2>5. CASE handleError /\ doing' = Nothing
    <3>1. ChannelInv' /\ DownInv' /\ channel_ \in Sockets
      BY <1>a, <2>1, <2>2, <2>3, <2>4, <2>5, AttemptEnds DEF handleError, retry
    <3>2. ConnectionInv'
      <4>1. \A t \in Sockets : fd'[t] = IF t = channel_ THEN "closed" ELSE fd[t]
        BY <1>b, <2>5 DEF handleError
      <4> QED BY <1>a, <1>f, <2>4, <2>5, <3>1, <4>1 DEF ConnectionInv, SocketParts
    <3> QED BY <3>1, <3>2 DEF SocketParts
  <2>6. CASE handleWrite /\ doing' = IF connect_ THEN [k |-> "newConnection", s |-> channel_] ELSE Nothing
    <3> DEFINE v == IF connect_ THEN "claimed" ELSE "closed"
    <3>0. v \in {"closed", "claimed"} /\ fd' = [fd EXCEPT ![channel_] = v] /\ state_' = "kConnected"
      BY <2>6 DEF handleWrite
    <3>1. ChannelInv' /\ DownInv' /\ channel_ \in Sockets
      <4> HIDE DEF v
      <4> QED BY <1>a, <2>1, <2>2, <2>3, <2>4, <3>0, AttemptEnds
    <3>2. ConnectionInv'
      <4>1. \A t \in Sockets : fd'[t] = IF t = channel_ THEN v ELSE fd[t]
        BY <1>b, <3>0
      <4>2. client = "alive" => connection_ = NoSocket
        BY <1>a, <2>4 DEF SocketParts, ConnectionInv
      <4>3. \A s \in Sockets : fd[s] # "claimed"
        BY <1>a, <1>f, <2>4 DEF SocketParts, ConnectionInv
      <4> QED BY <1>a, <1>f, <2>1, <2>4, <2>6, <3>0, <3>1, <4>1, <4>2, <4>3 DEF ConnectionInv, SocketParts
    <3> QED BY <3>1, <3>2 DEF SocketParts
  <2> QED BY <1>1, <2>5, <2>6 DEF Attempt
<1>2. CASE newConnection
  <2>1. /\ doing.k = "newConnection" /\ doing.s \in Sockets /\ connection_' = doing.s /\ doing' = Nothing
        /\ Pending' = Pending /\ UNCHANGED <<state_, channel_, client>>
    BY <1>2 DEF newConnection, TypeOK, Nothing, Pending
  <2>2. \A t \in Sockets : fd'[t] = IF t = doing.s THEN "new" ELSE fd[t]
    BY <1>2, <1>b DEF newConnection
  <2>3. fd[doing.s] = "claimed" /\ state_ = "kConnected"
    BY <1>a, <2>1 DEF SocketParts, ConnectionInv
  <2>4. ChannelInv' /\ DownInv'
    BY <1>a, <2>1, <2>2, <2>3 DEF SocketParts, ChannelInv, DownInv
  <2>5. ConnectionInv'
    <3>1. client = "alive" => connection_ = NoSocket
      BY <1>a, <2>1 DEF SocketParts, ConnectionInv
    <3>2. \A t \in Sockets : fd'[t] # "claimed"
      BY <1>a, <2>1, <2>2 DEF SocketParts, ConnectionInv
    <3>3. client = "alive" => \A t \in Sockets : fd[t] \notin {"new", "up"}
      BY <1>a, <3>1, NoSocketAssumption DEF SocketParts, ConnectionInv
    <3> QED BY <2>1, <2>2, <2>3, <3>2, <3>3 DEF ConnectionInv, Nothing
  <2> QED BY <2>4, <2>5 DEF SocketParts
<1>3. CASE ConnectionCloses
  <2>1. PICK s \in Sockets : removeConnection(s)
    BY <1>3 DEF ConnectionCloses
  <2>2. batch' = batch /\ doing = Nothing /\ UNCHANGED <<state_, channel_, client>> /\ Post(<<Destroy(s)>>)
    BY <1>3, <2>1 DEF ConnectionCloses, LoopIdle, removeConnection, Destroy
  <2>3. OthersKept({Destroy(s)}) /\ (Absent(Pending, Destroy(s)) => Exactly(Pending', Destroy(s)))
    BY <1>b, <1>d, <2>2, PostedOne
  <2>4. OthersKept({Destroy(s), Stop})
    BY <2>3 DEF OthersKept
  <2> QED BY <1>a, <2>1, <2>2, <2>3, <2>4, Distinct, ConnectionEnds
<1>4. CASE Restart
  <2>1. /\ doing.k = "restart" /\ doing' = Nothing /\ queue' = queue /\ batch' = batch
        /\ UNCHANGED <<connection_, client>>
    BY <1>4 DEF Restart
  <2>2. Started(timers) /\ channel_ = NoSocket
    BY <1>4, NowTypes, StartOutcome DEF Restart, restart
  <2>3. state_ # "kConnecting" /\ (client = "alive" => connection_ = NoSocket)
    BY <1>a, <2>1, <2>2 DEF SocketParts, ChannelInv, ConnectionInv
  <2> QED BY <1>a, <1>e, <2>1, <2>2, <2>3, PostedNone, StartKeepsSockets
<1>5. CASE RetryTimer
  <2>1. /\ doing = Nothing /\ doing' = Nothing /\ queue' = queue /\ batch' = batch
        /\ UNCHANGED <<connection_, client>> /\ ripe > 0
    BY <1>5 DEF RetryTimer, LoopIdle, clientVars
  <2>2. state_ = "kDisconnected" /\ Started(timers - 1)
    BY <1>b, <1>5, <2>1, NowTypes, StartOutcome DEF RetryTimer
  <2>3. client = "alive" => connection_ = NoSocket
    BY <1>a, <2>2 DEF SocketParts, ConnectionInv
  <2> QED BY <1>a, <1>e, <1>f, <2>1, <2>2, <2>3, PostedNone, StartKeepsSockets
<1>6. CASE connectHere
  <2>1. /\ doing = Nothing /\ doing' = Nothing /\ queue' = queue /\ batch' = batch
        /\ UNCHANGED <<connection_, client>>
    BY <1>6 DEF connectHere, Called, LoopIdle
  <2>2. state_ = "kDisconnected" /\ Started(timers)
    BY <1>6, NowTypes, StartOutcome DEF connectHere
  <2>3. client = "alive" => connection_ = NoSocket
    BY <1>a, <2>2 DEF SocketParts, ConnectionInv
  <2> QED BY <1>a, <1>e, <1>f, <2>1, <2>2, <2>3, PostedNone, StartKeepsSockets
<1>7. CASE SwapFunctors
  <2>1. /\ Pending' = Pending /\ doing = Nothing /\ doing' = Nothing
        /\ UNCHANGED <<state_, channel_, connection_, client>>
    BY <1>7, <1>b, TwoQueues DEF SwapFunctors, LoopIdle, Pending, clientVars
  <2>2. \A s \in Sockets : fd'[s] = IF fd[s] = "new" THEN "up" ELSE fd[s]
    BY <1>7 DEF SwapFunctors
  <2>3. ChannelInv'
    <3>1. channel_ # NoSocket => channel_ \in Sockets
      BY <1>b DEF SocketOrNone
    <3> QED BY <1>a, <2>1, <2>2, <3>1 DEF SocketParts, ChannelInv
  <2>4. ConnectionInv' /\ DownInv'
    BY <1>a, <1>f, <2>1, <2>2 DEF SocketParts, ConnectionInv, DownInv
  <2> QED BY <2>3, <2>4 DEF SocketParts

<1>8. CASE RunConnectorFunctor
  <2> DEFINE h == Head(batch)
  <2>1. /\ batch # <<>> /\ batch' = Tail(batch) /\ doing = Nothing /\ doing' = Nothing
        /\ UNCHANGED <<connection_, client, connect_>>
    BY <1>8 DEF RunConnectorFunctor
  <2>2. h \in {Start, Stop, Reset} /\ h = Functor(h.f, h.s)
    BY <1>8, <2>1, HeadTypes DEF RunConnectorFunctor
  <2>3. CASE h.f = "startInLoop" /\ startInLoop(Now, connect_) /\ queue' = queue
    <3>1. h = Start
      BY <2>2, <2>3 DEF Start, Stop, Reset, Functor
    <3>2. OthersKept({Start})
      BY <1>b, <2>1, <2>3, <3>1, TakenNone
    <3>3. state_ = "kDisconnected" /\ Started(timers)
      BY <1>b, <2>3, NowTypes, StartOutcome
    <3>4. client = "alive" => connection_ = NoSocket
      BY <1>a, <3>3 DEF SocketParts, ConnectionInv
    <3>5. Keeps(Pending, Pending', Reset) /\ \A s \in Sockets : Keeps(Pending, Pending', Destroy(s))
      BY <3>2, Distinct DEF OthersKept
    <3> QED BY <1>a, <1>f, <2>1, <3>3, <3>4, <3>5, StartKeepsSockets
  <2>4. CASE h.f = "stopInLoop" /\ stopInLoop
    <3>1. h = Stop
      BY <2>2, <2>4 DEF Start, Stop, Reset, Functor
    <3>2. CASE state_ = "kConnecting"
      <4>1. Post(<<Reset>>) /\ channel_' = channel_ /\ state_' = "kDisconnected" /\ fd' = [fd EXCEPT ![channel_] = "closed"]
        BY <2>4, <3>2 DEF stopInLoop, removeAndResetChannel, Reset, retry
      <4>2. OthersKept({Reset, Stop}) /\ (Absent(Pending, Reset) => Exactly(Pending', Reset))
        BY <1>b, <1>c, <2>1, <3>1, <4>1, Distinct, TakenOne
      <4>3. ChannelInv' /\ DownInv' /\ channel_ \in Sockets
        BY <1>a, <3>2, <4>1, <4>2, AttemptEnds
      <4>4. ConnectionInv'
        <5>1. \A t \in Sockets : fd'[t] = IF t = channel_ THEN "closed" ELSE fd[t]
          BY <1>b, <4>1
        <5> QED BY <1>a, <1>f, <2>1, <3>2, <4>3, <5>1 DEF ConnectionInv, SocketParts
      <4> QED BY <4>3, <4>4 DEF SocketParts
    <3>3. CASE state_ # "kConnecting"
      <4>1. queue' = queue /\ UNCHANGED <<state_, channel_, fd>>
        BY <2>4, <3>3 DEF stopInLoop, attemptVars
      <4>2. OthersKept({Stop})
        BY <1>b, <2>1, <3>1, <4>1, TakenNone
      <4>3. Keeps(Pending, Pending', Reset) /\ \A s \in Sockets : Keeps(Pending, Pending', Destroy(s))
        BY <4>2, Distinct DEF OthersKept
      <4>4. ChannelInv' /\ DownInv'
        BY <1>a, <4>1, <4>3 DEF SocketParts, ChannelInv, DownInv, Keeps, Exactly
      <4>5. ConnectionInv'
        BY <1>a, <1>f, <2>1, <4>1 DEF SocketParts, ConnectionInv
      <4> QED BY <4>4, <4>5 DEF SocketParts
    <3> QED BY <3>2, <3>3
  <2>5. CASE h.f = "resetChannel" /\ resetChannel /\ queue' = queue
    <3>1. h = Reset
      BY <2>2, <2>5 DEF Start, Stop, Reset, Functor
    <3>2. /\ OthersKept({Reset}) /\ ~Absent(Pending, Reset)
          /\ Once(Pending, Reset) => Absent(Pending', Reset)
      BY <1>b, <2>1, <2>5, <3>1, TakenNone
    <3>3. channel_' = NoSocket /\ UNCHANGED <<state_, fd>>
      BY <2>5 DEF resetChannel
    <3>4. channel_ # NoSocket /\ state_ # "kConnecting" /\ Absent(Pending', Reset)
      BY <1>a, <3>2 DEF SocketParts, ChannelInv, Exactly
    <3>5. \A s \in Sockets : Keeps(Pending, Pending', Destroy(s))
      BY <3>2, Distinct DEF OthersKept
    <3>6. ChannelInv' /\ DownInv'
      BY <1>a, <3>3, <3>4, <3>5 DEF SocketParts, ChannelInv, DownInv, Keeps, Exactly
    <3>7. ConnectionInv'
      BY <1>a, <1>f, <2>1, <3>3 DEF SocketParts, ConnectionInv
    <3> QED BY <3>6, <3>7 DEF SocketParts
  <2> QED BY <1>8, <2>3, <2>4, <2>5 DEF RunConnectorFunctor
<1>9. CASE RunConnectionFunctor
  <2> DEFINE h == Head(batch)
             s == h.s
  <2>1. /\ batch # <<>> /\ batch' = Tail(batch) /\ doing = Nothing
        /\ UNCHANGED <<state_, channel_, client>>
    BY <1>9 DEF RunConnectionFunctor
  <2>2. s \in Sockets /\ h = Functor(h.f, s)
    BY <1>9, <2>1, HeadTypes DEF RunConnectionFunctor
  <2>3. CASE /\ h.f = "connectDestroyed" /\ fd' = [fd EXCEPT ![s] = "closed"]
             /\ UNCHANGED <<queue, connection_, doing>>
    <3>1. h = Destroy(s)
      BY <2>2, <2>3 DEF Destroy
    <3>2. /\ OthersKept({Destroy(s)}) /\ ~Absent(Pending, Destroy(s))
          /\ Once(Pending, Destroy(s)) => Absent(Pending', Destroy(s))
      BY <1>b, <2>1, <2>3, <3>1, TakenNone
    <3>3. fd[s] = "down" /\ Absent(Pending', Destroy(s))
      BY <1>a, <2>2, <3>2 DEF SocketParts, DownInv, Exactly
    <3>4. \A t \in Sockets : fd'[t] = IF t = s THEN "closed" ELSE fd[t]
      BY <1>b, <2>2, <2>3
    <3>5. Keeps(Pending, Pending', Reset) /\ \A t \in Sockets : t # s => Keeps(Pending, Pending', Destroy(t))
      BY <2>2, <3>2, Distinct DEF OthersKept
    <3>6. ChannelInv'
      <4>1. channel_ # NoSocket => channel_ \in Sockets
        BY <1>b DEF SocketOrNone
      <4> QED BY <1>a, <2>1, <3>3, <3>4, <3>5, <4>1 DEF SocketParts, ChannelInv, Keeps, Exactly
    <3>7. DownInv'
      BY <1>a, <3>3, <3>4, <3>5 DEF SocketParts, DownInv, Keeps, Exactly
    <3>8. ConnectionInv'
      BY <1>a, <1>f, <2>1, <2>3, <3>3, <3>4 DEF SocketParts, ConnectionInv
    <3> QED BY <3>6, <3>7, <3>8 DEF SocketParts
  <2>4. CASE h.f \in {"setCloseCallback", "forceClose"} /\ UNCHANGED <<fd, queue, connection_, doing>>
    <3>1. h = Detach(s) \/ h = ForceClose(s)
      BY <2>2, <2>4 DEF Detach, ForceClose
    <3>2. OthersKept({h})
      BY <1>b, <2>1, <2>4, TakenNone
    <3>3. Keeps(Pending, Pending', Reset) /\ \A t \in Sockets : Keeps(Pending, Pending', Destroy(t))
      BY <2>2, <3>1, <3>2, Distinct DEF OthersKept
    <3>4. ChannelInv' /\ DownInv'
      BY <1>a, <2>1, <2>4, <3>3 DEF SocketParts, ChannelInv, DownInv, Keeps, Exactly
    <3>5. ConnectionInv'
      BY <1>a, <1>f, <2>1, <2>4 DEF SocketParts, ConnectionInv
    <3> QED BY <3>4, <3>5 DEF SocketParts
  <2>5. CASE h.f = "forceClose" /\ removeConnection(s)
    <3>1. h = ForceClose(s) /\ Post(<<Destroy(s)>>)
      BY <2>2, <2>5 DEF ForceClose, removeConnection, Destroy
    <3>2. /\ OthersKept({Destroy(s), ForceClose(s)})
          /\ Absent(Pending, Destroy(s)) => Exactly(Pending', Destroy(s))
      BY <1>b, <1>d, <2>1, <2>2, <3>1, Distinct, TakenOne
    <3>3. ForceClose(s) # Reset /\ \A t \in Sockets : ForceClose(s) # Destroy(t)
      BY <2>2, Distinct
    <3> QED BY <1>a, <2>1, <2>2, <2>5, <3>2, <3>3, ConnectionEnds
  <2> QED BY <1>9, <2>3, <2>4, <2>5 DEF RunConnectionFunctor
<1>10. CASE KeepaliveTimer \/ disconnect \/ Begin \/ UNCHANGED vars
  <2>1. UNCHANGED <<state_, channel_, fd, connection_, doing, batch, queue, client>>
    BY <1>10 DEF KeepaliveTimer, disconnect, Called, Begin, vars, attemptVars, clientVars
  <2>2. client = "alive" \/ client' = "gone"
    BY <2>1 DEF TypeOK
  <2> QED BY <1>a, <1>e, <2>1, <2>2, PostedNone, OthersPosted
<1>11. CASE stopHere
  <2>1. /\ UNCHANGED <<state_, channel_, fd, connection_, doing, batch, client>> /\ Post(<<Stop>>)
        /\ client = "alive"
    BY <1>11 DEF stopHere, Called, attemptVars, Stop, MayCall
  <2>2. OthersKept({Stop})
    BY <1>b, <1>c, <2>1, PostedOne
  <2> QED BY <1>a, <1>e, <2>1, <2>2, Distinct, OthersPosted
<1>12. CASE destroyHere
  <2>1. UNCHANGED <<state_, channel_, fd, connection_, doing, batch>> /\ client' = "gone"
    BY <1>12 DEF destroyHere, attemptVars, Leave
  <2>2. Keeps(Pending, Pending', Reset) /\ \A s \in Sockets : Keeps(Pending, Pending', Destroy(s))
    <3>1. CASE connection_ = NoSocket
      <4>1. Post(<<Stop>>)
        BY <1>12, <3>1 DEF destroyHere, Stop
      <4> QED BY <1>b, <1>c, <1>e, <2>1, <4>1, PostedOne, Distinct
    <3>2. CASE connection_ # NoSocket
      <4>1. connection_ \in Sockets
        BY <1>b, <3>2 DEF SocketOrNone
      <4>2. PICK unique \in BOOLEAN : Post(IF unique THEN <<ForceClose(connection_)>> ELSE <<>>)
        BY <1>12, <3>2 DEF destroyHere, ForceClose
      <4>3. ASSUME NEW x, x # Detach(connection_), x # ForceClose(connection_)
            PROVE  Keeps(Pending, Pending', x)
        BY <1>b, <2>1, <4>1, <4>2, <4>3, DestructorPosts, PostedSome
      <4> QED BY <4>1, <4>3, Distinct
    <3> QED BY <3>1, <3>2
  <2> QED BY <1>a, <2>1, <2>2, OthersPosted
<1>13. CASE Finish
  <2>1. UNCHANGED <<state_, channel_, fd, connection_, doing, batch>>
    BY <1>13 DEF Finish, attemptVars
  <2>2. client' = client \/ client' = "gone"
    BY <1>13 DEF Finish, Leave
  <2>3. client = "alive" \/ client' = "gone"
    BY <2>2 DEF TypeOK
  <2>4. Keeps(Pending, Pending', Reset) /\ \A s \in Sockets : Keeps(Pending, Pending', Destroy(s))
    <3>1. CASE call.k = "connect"
      <4>1. Post(<<Start>>)
        BY <1>13, <3>1 DEF Finish, Start
      <4> QED BY <1>b, <1>c, <1>e, <2>1, <4>1, PostedOne, Distinct
    <3>2. CASE call.k = "stop" \/ (call.k = "destroy" /\ call.s = NoSocket)
      <4>1. Post(<<Stop>>)
        BY <1>13, <3>2 DEF Finish, Stop
      <4> QED BY <1>b, <1>c, <1>e, <2>1, <4>1, PostedOne, Distinct
    <3>3. CASE call.k = "destroy" /\ call.s # NoSocket
      <4>1. call.s \in Sockets
        BY <3>3 DEF TypeOK, Nothing, SocketOrNone
      <4>2. PICK unique \in BOOLEAN :
               Post(<<Detach(call.s)>> \o IF unique THEN <<ForceClose(call.s)>> ELSE <<>>)
        BY <1>13, <3>3 DEF Finish, ForceClose, Detach
      <4>3. ASSUME NEW x, x # Detach(call.s), x # ForceClose(call.s)
            PROVE  Keeps(Pending, Pending', x)
        <5> DEFINE t == <<Detach(call.s)>> \o IF unique THEN <<ForceClose(call.s)>> ELSE <<>>
        <5>1. t \in Seq(FunctorSet) /\ Absent(t, x)
          BY <4>1, <4>3, DestructorPosts
        <5> HIDE DEF t
        <5>2. Post(t)
          BY <4>2 DEF t
        <5> QED BY <1>b, <2>1, <5>1, <5>2, PostedSome
      <4> QED BY <4>1, <4>3, Distinct
    <3> QED BY <1>13, <3>1, <3>2, <3>3 DEF Finish
  <2> QED BY <1>a, <2>1, <2>3, <2>4, OthersPosted
<1> QED BY <1>1, <1>2, <1>3, <1>4, <1>5, <1>6, <1>7, <1>8, <1>9, <1>10, <1>11, <1>12, <1>13
        DEF Next, LoopThread

\* A functor that waits exactly once, or not at all, counted.
LEMMA Counted ==
    ASSUME NEW q \in Seq(FunctorSet), NEW x
    PROVE  LET places == {i \in DOMAIN q : q[i] = x} IN
           /\ Exactly(q, x) => Cardinality(places) = 1
           /\ Absent(q, x) => Cardinality(places) = 0
<1> DEFINE places == {i \in DOMAIN q : q[i] = x}
<1>1. DOMAIN q = 1..Len(q)
  OBVIOUS
<1>2. ASSUME Exactly(q, x) PROVE Cardinality(places) = 1
  <2>1. PICK i \in 1..Len(q) : q[i] = x
    BY <1>2 DEF Exactly, Absent
  <2>2. places = {i}
    BY <1>1, <1>2, <2>1 DEF Exactly, Once
  <2> QED BY <2>2, FS_Singleton
<1>3. ASSUME Absent(q, x) PROVE Cardinality(places) = 0
  <2>1. places = {}
    BY <1>1, <1>3 DEF Absent
  <2> QED BY <2>1, FS_EmptySet
<1> QED BY <1>2, <1>3

\* SocketInv is an invariant.
LEMMA SocketInvariant == Spec => []SocketInv
<1>1. ASSUME Init PROVE SocketInv
  <2>1. /\ Pending = <<>> /\ state_ = "kDisconnected" /\ channel_ = NoSocket /\ connection_ = NoSocket
        /\ doing = Nothing /\ \A s \in Sockets : fd[s] = "closed"
    BY <1>1 DEF Init, ConnectorInit, Pending
  <2>2. \A x : Absent(Pending, x)
    BY <2>1, SingleQueue
  <2>3. ChannelInv /\ DownInv
    BY <2>1, <2>2 DEF ChannelInv, DownInv
  <2>4. ConnectionInv
    BY <2>1 DEF ConnectionInv, Nothing
  <2> QED BY <2>3, <2>4 DEF SocketInv
<1> QED BY <1>1, SocketInductive, TypeCorrect, PTL DEF Spec

\* No socket of a TcpClient is lost, for any number of sockets and calls, whatever order the
\* calls, timers, functors and events of Connector.cc:33-213 and TcpClient.cc:56-164 come in:
\* while no assertion of startInLoop (Connector.cc:43) or connecting (Connector.cc:124) has
\* failed, a connecting socket is the one the registered channel watches, an established one is
\* connection_'s or that of a destroyed client, and one that went down is destroyed once.
THEOREM SocketsStayAccounted == Spec => []SocketsAccounted
<1>1. ASSUME TypeOK, SocketInv, ~asserted, NEW s \in Sockets
      PROVE  /\ fd[s] = "connecting" <=> (Watched /\ channel_ = s)
             /\ fd[s] = "claimed" <=> (doing.k = "newConnection" /\ doing.s = s)
             /\ fd[s] \in {"new", "up"} => connection_ = s \/ client = "gone"
             /\ Cardinality({i \in DOMAIN Pending : Pending[i] = Functor("connectDestroyed", s)})
                = (IF fd[s] = "down" THEN 1 ELSE 0)
  <2>1. ChannelInv /\ ConnectionInv /\ DownInv
    BY <1>1 DEF SocketInv
  <2>2. fd[s] = "connecting" <=> (Watched /\ channel_ = s)
    BY <2>1, NoSocketAssumption DEF ChannelInv, Watched
  <2>3. /\ fd[s] = "claimed" <=> (doing.k = "newConnection" /\ doing.s = s)
        /\ fd[s] \in {"new", "up"} => connection_ = s \/ client = "gone"
    BY <1>1, <2>1 DEF ConnectionInv, TypeOK
  <2>4. Pending \in Seq(FunctorSet)
    BY <1>1 DEF TypeOK, Pending
  <2>5. Cardinality({i \in DOMAIN Pending : Pending[i] = Destroy(s)}) = (IF fd[s] = "down" THEN 1 ELSE 0)
    BY <2>1, <2>4, Counted DEF DownInv
  <2> QED BY <2>2, <2>3, <2>5 DEF Destroy
<1>2. TypeOK /\ SocketInv => SocketsAccounted
  BY <1>1 DEF SocketsAccounted
<1> QED BY <1>2, TypeCorrect, SocketInvariant, PTL

-----------------------------------------------------------------------------
(* One call of connect() *)

AnyStart ==
    \/ Restart \/ RetryTimer \/ connectHere
    \/ RunConnectorFunctor /\ Head(batch).f = "startInLoop"

\* A start that finds no channel and no timer, and no connection that could lead to another.
Starting ==
    /\ channel_ = NoSocket /\ ~asserted' /\ Started(0) /\ ripe' = 0 /\ ~Stuck
    /\ \A s \in Sockets : ~Reconnects(s)
    /\ doing' = Nothing /\ closeCallback' = closeCallback

\* With one call of connect() every start is such a start, and it uses the token up.
LEMMA StartsCalmly ==
    ASSUME TypeOK, SocketParts, ~asserted, TokenInv, ReconnectInv, AnyStart, starts' <= 1
    PROVE  Starting /\ ~Unstarted'
<1>0. timers \in Nat /\ ripe \in 0..timers /\ starts \in Nat /\ connect_ \in BOOLEAN
  BY DEF TypeOK
<1>1. CASE Restart
  <2>1. doing.k = "restart" /\ doing' = Nothing /\ UNCHANGED <<ripe, closeCallback, queue, batch, call, starts>>
    BY <1>1 DEF Restart, callVars
  <2>2. state_ = "kConnected" /\ channel_ = NoSocket /\ \A s \in Sockets : ~Reconnects(s)
    BY <2>1 DEF ReconnectInv
  <2>3. timers = 0 /\ ripe' = 0 /\ ~Unstarted
    BY <1>0, <2>1, <2>2 DEF TokenInv
  <2>4. ~asserted' /\ Started(0)
    <3>1. ~asserted'
      BY <1>1, <2>2, NowTypes DEF Restart, restart, startInLoop
    <3> QED BY <1>1, <2>3, <3>1, NowTypes, StartOutcome DEF Restart, restart
  <2>5. ~Unstarted'
    BY <2>1, <2>3 DEF Unstarted, Pending
  <2>6. ~Stuck
    BY <2>1 DEF Stuck
  <2> QED BY <2>1, <2>2, <2>3, <2>4, <2>5, <2>6 DEF Starting
<1>2. CASE RetryTimer
  <2>1. /\ batch = <<>> /\ doing = Nothing /\ doing' = Nothing /\ ripe > 0 /\ ripe' = ripe - 1
        /\ UNCHANGED <<closeCallback, queue, batch, call, starts>>
    BY <1>2 DEF RetryTimer, LoopIdle, clientVars, callVars
  <2>2. timers = 1 /\ ripe' = 0 /\ state_ = "kDisconnected" /\ ~Unstarted
    BY <1>0, <2>1 DEF TokenInv
  <2>3. channel_ = NoSocket
    BY <2>1, SingleQueue DEF ReconnectInv
  <2>4. \A s \in Sockets : ~Reconnects(s)
    BY <2>2 DEF ReconnectInv
  <2>5. ~asserted' /\ Started(0)
    <3>1. ~asserted'
      BY <1>2, <2>1, <2>2, <2>3, NowTypes DEF RetryTimer, startInLoop
    <3> QED BY <1>0, <1>2, <2>1, <2>2, <3>1, NowTypes, StartOutcome DEF RetryTimer
  <2>6. ~Unstarted'
    BY <2>1, <2>2 DEF Unstarted, Pending
  <2>7. ~Stuck
    BY <2>2 DEF Stuck
  <2> QED BY <2>1, <2>2, <2>3, <2>4, <2>5, <2>6, <2>7 DEF Starting
<1>3. CASE connectHere
  <2>1. /\ call = Nothing /\ doing = Nothing /\ doing' = Nothing /\ starts' = starts + 1
        /\ UNCHANGED <<ripe, closeCallback, queue, batch, call>>
    BY <1>3 DEF connectHere, LoopIdle, MayCall, Called
  <2>2. starts = 0 /\ Absent(Pending, Start)
    BY <1>0, <2>1 DEF TokenInv
  <2>3. timers = 0 /\ ripe' = 0 /\ state_ = "kDisconnected" /\ channel_ = NoSocket
    BY <1>0, <2>1, <2>2 DEF TokenInv, Unstarted
  <2>4. \A s \in Sockets : ~Reconnects(s)
    BY <2>3 DEF ReconnectInv
  <2>5. ~asserted' /\ Started(0)
    <3>1. ~asserted'
      BY <1>3, <2>3, NowTypes DEF connectHere, startInLoop
    <3> QED BY <1>3, <2>3, <3>1, NowTypes, StartOutcome DEF connectHere
  <2>6. ~Unstarted'
    <3>1. Absent(Pending, Start)' /\ starts' = 1 /\ call' = Nothing
      BY <2>1, <2>2 DEF Pending
    <3> QED BY <3>1 DEF Unstarted, Nothing
  <2>7. ~Stuck
    BY <2>3 DEF Stuck
  <2> QED BY <2>1, <2>3, <2>4, <2>5, <2>6, <2>7 DEF Starting
<1>4. CASE RunConnectorFunctor /\ Head(batch).f = "startInLoop"
  <2>1. /\ batch # <<>> /\ batch' = Tail(batch) /\ doing = Nothing /\ doing' = Nothing
        /\ UNCHANGED <<ripe, closeCallback, queue, call, starts>> /\ startInLoop(Now, connect_)
    BY <1>4 DEF RunConnectorFunctor, callVars
  <2>2. Head(batch) = Start
    <3>1. Head(batch) \in {Start, Stop, Reset}
      BY <1>4, <2>1, HeadTypes DEF ConnectorFunctors
    <3> QED BY <1>4, <3>1 DEF Start, Stop, Reset, Functor
  <2>3. ~Absent(Pending, Start) /\ (Once(Pending, Start) => Absent(Pending', Start))
    BY <2>1, <2>2, TakenNone DEF TypeOK
  <2>4. timers = 0 /\ ripe' = 0 /\ state_ = "kDisconnected" /\ channel_ = NoSocket
    BY <1>0, <2>1, <2>3 DEF TokenInv, Unstarted
  <2>5. \A s \in Sockets : ~Reconnects(s)
    BY <2>4 DEF ReconnectInv
  <2>6. ~asserted' /\ Started(0)
    <3>1. ~asserted'
      BY <2>1, <2>4, NowTypes DEF startInLoop
    <3> QED BY <1>0, <2>1, <2>4, <3>1, NowTypes, StartOutcome
  <2>7. ~Unstarted'
    BY <2>1, <2>3 DEF Unstarted, TokenInv
  <2>8. ~Stuck
    BY <2>4 DEF Stuck
  <2> QED BY <2>1, <2>4, <2>5, <2>6, <2>7, <2>8 DEF Starting
<1> QED BY <1>1, <1>2, <1>3, <1>4 DEF AnyStart

\* Only a start of another thread posts startInLoop and only the functor takes it.
LEMMA StartKept ==
    ASSUME TypeOK, [Next]_vars, ~AnyStart, ~(Finish /\ call.k = "connect")
    PROVE  Keeps(Pending, Pending', Start)
<1>a. queue \in Seq(FunctorSet) /\ batch \in Seq(FunctorSet)
  BY DEF TypeOK
<1>b. Reset \in FunctorSet /\ Stop \in FunctorSet /\ \A s \in Sockets : Destroy(s) \in FunctorSet
  BY Distinct
<1>c. ASSUME NEW y \in FunctorSet, y # Start, Post(<<y>>), batch' = batch PROVE Keeps(Pending, Pending', Start)
  BY <1>a, <1>c, PostedOne DEF OthersKept
<1>1. CASE Attempt
  <2>1. Post(<<Reset>>) /\ batch' = batch
    BY <1>1 DEF Attempt, handleWrite, handleError, removeAndResetChannel, Reset
  <2> QED BY <1>b, <1>c, <2>1, Distinct
<1>2. CASE ConnectionCloses
  <2>1. PICK s \in Sockets : Post(<<Destroy(s)>>) /\ batch' = batch
    BY <1>2 DEF ConnectionCloses, removeConnection, Destroy
  <2> QED BY <1>b, <1>c, <2>1, Distinct
<1>3. CASE newConnection \/ KeepaliveTimer \/ disconnect \/ Begin \/ UNCHANGED vars
  <2>1. queue' = queue /\ batch' = batch
    BY <1>3 DEF newConnection, KeepaliveTimer, disconnect, Called, Begin, vars
  <2> QED BY <2>1, PostedNone DEF OthersKept
<1>4. CASE SwapFunctors
  <2>1. Pending' = Pending
    BY <1>4, <1>a, TwoQueues DEF SwapFunctors, LoopIdle, Pending
  <2> QED BY <2>1 DEF Keeps
<1>5. CASE RunConnectorFunctor
  <2>1. batch # <<>> /\ batch' = Tail(batch) /\ Head(batch) # Start
    BY <1>5 DEF RunConnectorFunctor, AnyStart, Start, Functor
  <2>2. CASE Post(<<Reset>>) /\ Head(batch).f = "stopInLoop"
    <3>1. Head(batch) # Reset
      BY <2>2 DEF Reset, Functor
    <3>2. OthersKept({Reset, Head(batch)})
      BY <1>a, <1>b, <2>1, <2>2, <3>1, TakenOne
    <3> QED BY <2>1, <3>2, Distinct DEF OthersKept
  <2>3. CASE queue' = queue
    <3>1. OthersKept({Head(batch)})
      BY <1>a, <2>1, <2>3, TakenNone
    <3> QED BY <2>1, <3>1 DEF OthersKept
  <2> QED BY <1>5, <2>2, <2>3 DEF RunConnectorFunctor, AnyStart, stopInLoop, removeAndResetChannel, Reset
<1>6. CASE RunConnectionFunctor
  <2> DEFINE s == Head(batch).s
  <2>1. /\ batch # <<>> /\ batch' = Tail(batch) /\ Head(batch) # Start
        /\ s \in Sockets /\ Head(batch) = Functor(Head(batch).f, s)
    BY <1>6, HeadTypes DEF RunConnectionFunctor, Start, Functor, ConnectorFunctors
  <2>2. CASE Head(batch).f = "forceClose" /\ Post(<<Destroy(s)>>)
    <3>1. Head(batch) = ForceClose(s) /\ Destroy(s) # Head(batch) /\ Destroy(s) # Start
      BY <2>1, <2>2, Distinct DEF ForceClose
    <3>2. OthersKept({Destroy(s), Head(batch)})
      BY <1>a, <1>b, <2>1, <2>2, <3>1, TakenOne
    <3> QED BY <2>1, <3>1, <3>2 DEF OthersKept
  <2>3. CASE queue' = queue
    <3>1. OthersKept({Head(batch)})
      BY <1>a, <2>1, <2>3, TakenNone
    <3> QED BY <2>1, <3>1 DEF OthersKept
  <2> QED BY <1>6, <2>2, <2>3 DEF RunConnectionFunctor, removeConnection, Destroy
<1>7. CASE stopHere
  <2>1. Post(<<Stop>>) /\ batch' = batch
    BY <1>7 DEF stopHere, Called, Stop
  <2> QED BY <1>b, <1>c, <2>1, Distinct
<1>8. CASE destroyHere
  <2>1. batch' = batch
    BY <1>8 DEF destroyHere
  <2>2. CASE connection_ = NoSocket
    <3>1. Post(<<Stop>>)
      BY <1>8, <2>2 DEF destroyHere, Stop
    <3> QED BY <1>b, <1>c, <2>1, <3>1, Distinct
  <2>3. CASE connection_ # NoSocket
    <3>1. connection_ \in Sockets
      BY <2>3 DEF TypeOK, SocketOrNone
    <3>2. PICK unique \in BOOLEAN : Post(IF unique THEN <<ForceClose(connection_)>> ELSE <<>>)
      BY <1>8, <2>3 DEF destroyHere, ForceClose
    <3>3. Start # Detach(connection_) /\ Start # ForceClose(connection_)
      BY <3>1, Distinct
    <3> QED BY <1>a, <2>1, <3>1, <3>2, <3>3, DestructorPosts, PostedSome
  <2> QED BY <2>2, <2>3
<1>9. CASE Finish
  <2>1. batch' = batch
    BY <1>9 DEF Finish
  <2>2. CASE call.k = "stop" \/ (call.k = "destroy" /\ call.s = NoSocket)
    <3>1. Post(<<Stop>>)
      BY <1>9, <2>2 DEF Finish, Stop
    <3> QED BY <1>b, <1>c, <2>1, <3>1, Distinct
  <2>3. CASE call.k = "destroy" /\ call.s # NoSocket
    <3>1. call.s \in Sockets
      BY <2>3 DEF TypeOK, Nothing, SocketOrNone
    <3>2. PICK unique \in BOOLEAN :
             Post(<<Detach(call.s)>> \o IF unique THEN <<ForceClose(call.s)>> ELSE <<>>)
      BY <1>9, <2>3 DEF Finish, ForceClose, Detach
    <3> DEFINE t == <<Detach(call.s)>> \o IF unique THEN <<ForceClose(call.s)>> ELSE <<>>
    <3>3. t \in Seq(FunctorSet) /\ Absent(t, Start)
      BY <3>1, DestructorPosts, Distinct
    <3> HIDE DEF t
    <3>4. Post(t)
      BY <3>2 DEF t
    <3> QED BY <1>a, <2>1, <3>3, <3>4, PostedSome
  <2> QED BY <1>9, <2>2, <2>3 DEF Finish
<1> QED BY <1>1, <1>2, <1>3, <1>4, <1>5, <1>6, <1>7, <1>8, <1>9 DEF Next, LoopThread, AnyStart

\* The token, where a step posts or takes no startInLoop.
LEMMA TokenKept ==
    ASSUME TypeOK, TokenInv, Keeps(Pending, Pending', Start), starts' = starts,
           call'.k = "connect" <=> call.k = "connect",
           \/ UNCHANGED <<state_, timers>> /\ channel_' \in {channel_, NoSocket}
           \/ ~Unstarted /\ timers' \in {0, 1} /\ (timers' = 1 => state_' = "kDisconnected")
    PROVE  TokenInv'
<1>1. Unstarted' <=> Unstarted
  BY DEF Unstarted, Keeps
<1>2. timers' <= 1 /\ (timers' = 1 => state_' = "kDisconnected")
  BY DEF TokenInv
<1>3. Once(Pending, Start)'
  BY DEF TokenInv, Keeps
<1>4. starts' = 0 \/ call'.k = "connect" => Absent(Pending, Start)'
  BY DEF TokenInv, Keeps
<1> QED BY <1>1, <1>2, <1>3, <1>4 DEF TokenInv

\* One call of connect() has one token.
LEMMA TokenInductive ==
    ASSUME TypeOK, SocketParts, ~asserted, TokenInv, ReconnectInv, [Next]_vars, starts' <= 1
    PROVE  TokenInv'
<1>0. starts \in Nat /\ timers \in Nat
  BY DEF TypeOK
<1>1. CASE AnyStart
  <2>1. Starting /\ ~Unstarted'
    BY <1>1, StartsCalmly
  <2>2. timers' <= 1 /\ (timers' = 1 => state_' = "kDisconnected")
    BY <2>1 DEF Starting, Started
  <2>3. Absent(Pending', Start) /\ starts' # 0 /\ call'.k # "connect"
    BY <2>1 DEF Unstarted
  <2>4. Once(Pending', Start)
    BY <2>3 DEF Once, Absent
  <2> QED BY <2>1, <2>2, <2>3, <2>4 DEF TokenInv
<1>2. CASE Finish /\ call.k = "connect"
  <2>1. /\ Post(<<Start>>) /\ batch' = batch /\ call' = Nothing
        /\ UNCHANGED <<starts, state_, timers, channel_>>
    BY <1>2 DEF Finish, Start, attemptVars
  <2>2. Absent(Pending, Start) => Exactly(Pending', Start)
    BY <2>1, Distinct, PostedOne DEF TypeOK
  <2>3. starts # 0 /\ Exactly(Pending', Start) /\ Unstarted
    BY <1>2, <2>2 DEF TokenInv, Unstarted
  <2> QED BY <2>1, <2>3 DEF TokenInv, Exactly, Nothing
<1>3. CASE Begin
  <2>1. /\ call = Nothing /\ Pending' = Pending /\ UNCHANGED <<state_, timers, channel_>>
        /\ \/ starts' = starts + 1
           \/ starts' = starts /\ call'.k # "connect"
    BY <1>3 DEF Begin, attemptVars, Pending
  <2>2. CASE starts' = starts + 1
    <3>1. starts = 0 /\ Unstarted
      BY <1>0, <2>2 DEF Unstarted
    <3> QED BY <2>1, <2>2, <3>1 DEF TokenInv
  <2>3. CASE starts' = starts /\ call'.k # "connect"
    BY <2>1, <2>3, TokenKept DEF Keeps, Nothing
  <2> QED BY <2>1, <2>2, <2>3
<1>4. ASSUME ~AnyStart, ~(Finish /\ call.k = "connect"), ~Begin
      PROVE  TokenInv'
  <2>1. Keeps(Pending, Pending', Start)
    BY <1>4, StartKept
  <2>2. starts' = starts /\ (call'.k = "connect" <=> call.k = "connect")
    <3>1. CASE Finish
      BY <1>4, <3>1 DEF Finish, Nothing
    <3>2. CASE Attempt \/ newConnection \/ ConnectionCloses \/ KeepaliveTimer \/ SwapFunctors
      BY <3>2 DEF Attempt, newConnection, ConnectionCloses, KeepaliveTimer, SwapFunctors, callVars
    <3>3. CASE RunConnectorFunctor \/ RunConnectionFunctor \/ stopHere \/ disconnect \/ destroyHere \/ UNCHANGED vars
      BY <3>3 DEF RunConnectorFunctor, RunConnectionFunctor, stopHere, disconnect, destroyHere, vars, callVars
    <3> QED BY <1>4, <3>1, <3>2, <3>3 DEF Next, LoopThread, AnyStart
  <2>3. CASE Attempt \/ (RunConnectorFunctor /\ stopInLoop /\ state_ = "kConnecting")
    <3>1. state_ = "kConnecting" /\ timers' \in {timers, timers + 1}
      BY <2>3, NowTypes DEF Attempt, handleWrite, handleError, Watched, stopInLoop, retry
    <3>2. timers' = timers \/ state_' = "kDisconnected"
      BY <2>3 DEF Attempt, handleWrite, handleError, stopInLoop, retry
    <3>3. timers = 0 /\ ~Unstarted
      BY <1>0, <3>1 DEF TokenInv
    <3> QED BY <2>1, <2>2, <3>1, <3>2, <3>3, TokenKept
  <2>4. CASE UNCHANGED <<state_, timers>> /\ channel_' \in {channel_, NoSocket}
    BY <2>1, <2>2, <2>4, TokenKept
  <2>5. CASE RunConnectorFunctor
    BY <1>4, <2>3, <2>4, <2>5 DEF RunConnectorFunctor, AnyStart, stopInLoop, resetChannel, attemptVars
  <2>6. CASE newConnection \/ ConnectionCloses \/ KeepaliveTimer \/ SwapFunctors \/ RunConnectionFunctor
    BY <2>4, <2>6 DEF newConnection, ConnectionCloses, KeepaliveTimer, SwapFunctors, RunConnectionFunctor,
                      attemptVars
  <2>7. CASE stopHere \/ disconnect \/ destroyHere \/ Finish \/ UNCHANGED vars
    BY <2>4, <2>7 DEF stopHere, disconnect, destroyHere, Finish, vars, attemptVars
  <2> QED BY <1>4, <2>3, <2>5, <2>6, <2>7 DEF Next, LoopThread, AnyStart
<1> QED BY <1>1, <1>2, <1>3, <1>4

\* Steps that leave the Connector's state alone and let no further socket reconnect.
LEMMA ReconnectKept ==
    ASSUME ReconnectInv, \A s \in Sockets : Reconnects(s)' => Reconnects(s),
           \A s \in Sockets : fd'[s] = "up" /\ closeCallback'[s] = "client"
                              => fd[s] = "up" /\ closeCallback[s] = "client",
           state_' = state_, doing' \in {doing, Nothing}, ripe' = ripe,
           \/ channel_' = NoSocket
           \/ channel_' = channel_ /\ (Absent(batch', Reset) => Absent(batch, Reset))
    PROVE  ReconnectInv'
<1>1. \A s \in Sockets : Reconnects(s)' => state_' = "kConnected" /\ doing'.k # "restart"
  BY DEF ReconnectInv, Nothing
<1>2. \A s, t \in Sockets : Reconnects(s)' /\ Reconnects(t)' => s = t
  BY DEF ReconnectInv
<1>3. doing'.k = "restart" => state_' = "kConnected" /\ channel_' = NoSocket
  BY DEF ReconnectInv, Nothing
<1>4. channel_' # NoSocket /\ ripe' > 0 => ~Absent(batch', Reset)
  BY DEF ReconnectInv
<1>5. \A s \in Sockets : fd'[s] = "up" /\ closeCallback'[s] = "client" /\ channel_' # NoSocket
                         => ~Absent(batch', Reset)
  BY DEF ReconnectInv
<1> QED BY <1>1, <1>2, <1>3, <1>4, <1>5 DEF ReconnectInv

\* Steps after which no socket can reconnect.
LEMMA ReconnectNone ==
    ASSUME \A s \in Sockets : ~Reconnects(s)', doing'.k # "restart", ripe' = 0 \/ channel_' = NoSocket
    PROVE  ReconnectInv'
<1>1. \A s \in Sockets : ~(fd'[s] = "up" /\ closeCallback'[s] = "client")
  BY DEF Reconnects
<1> QED BY <1>1 DEF ReconnectInv

\* A forced close that runs finds the close callback detached.
LEMMA ForcedIsDetached ==
    ASSUME TypeOK, ForceInv, batch # <<>>, NEW s \in Sockets, Head(batch) = ForceClose(s), fd[s] = "up"
    PROVE  closeCallback[s] # "client"
<1>1. batch \in Seq(FunctorSet)
  BY DEF TypeOK
<1>2. 1 \in 1..Len(batch) /\ batch[1] = ForceClose(s)
  BY <1>1
<1> QED BY <1>2 DEF ForceInv, Stuck, Reconnects, Fenced, Detached

\* With one call of connect() at most one socket can reconnect, and not before its channel is gone.
LEMMA ReconnectInductive ==
    ASSUME TypeOK, SocketParts, ~asserted, TokenInv, ReconnectInv, ForceInv, [Next]_vars, starts' <= 1
    PROVE  ReconnectInv'
<1>0. /\ timers \in Nat /\ ripe \in 0..timers /\ channel_ \in SocketOrNone
      /\ fd \in [Sockets -> FdStates] /\ closeCallback \in [Sockets -> {"client", "detached"}]
      /\ queue \in Seq(FunctorSet) /\ batch \in Seq(FunctorSet)
  BY DEF TypeOK
<1>1. CASE AnyStart
  <2>1. Starting
    BY <1>1, StartsCalmly
  <2>2. \A s \in Sockets : fd'[s] \in {fd[s], "connecting"}
    BY <1>0, <2>1 DEF Starting, Started, connecting
  <2>3. \A s \in Sockets : ~Reconnects(s)'
    BY <2>1, <2>2 DEF Starting, Reconnects
  <2> QED BY <2>1, <2>3, ReconnectNone DEF Starting, Nothing
<1>2. CASE Attempt \/ (RunConnectorFunctor /\ Head(batch).f = "stopInLoop" /\ state_ = "kConnecting")
  <2>1. /\ state_ = "kConnecting" /\ UNCHANGED <<closeCallback, channel_, ripe>> /\ doing = Nothing
    BY <1>2 DEF Attempt, handleWrite, handleError, Watched, LoopIdle, RunConnectorFunctor, stopInLoop
  <2>2. ripe' = 0 /\ \A s \in Sockets : ~Reconnects(s)
    BY <1>0, <2>1 DEF TokenInv, ReconnectInv
  <2>3. channel_ \in Sockets
    BY <1>0, <2>1 DEF SocketParts, ChannelInv, SocketOrNone
  <2>4. CASE fd' = [fd EXCEPT ![channel_] = "closed"] /\ doing' = Nothing
    <3>1. \A s \in Sockets : fd'[s] \in {fd[s], "closed"}
      BY <1>0, <2>4
    <3>2. \A s \in Sockets : ~Reconnects(s)'
      BY <2>1, <2>2, <3>1 DEF Reconnects
    <3> QED BY <2>2, <2>4, <3>2, ReconnectNone DEF Nothing
  <2>5. CASE /\ fd' = [fd EXCEPT ![channel_] = "claimed"] /\ state_' = "kConnected"
             /\ doing' = [k |-> "newConnection", s |-> channel_]
    <3>1. \A s \in Sockets : fd'[s] = IF s = channel_ THEN "claimed" ELSE fd[s]
      BY <1>0, <2>5
    <3>2. \A s \in Sockets : Reconnects(s)' => s = channel_
      BY <2>1, <2>2, <3>1 DEF Reconnects
    <3>3. \A s \in Sockets : ~(fd'[s] = "up" /\ closeCallback'[s] = "client")
      BY <2>1, <2>2, <3>1 DEF Reconnects
    <3> QED BY <2>2, <2>5, <3>2, <3>3 DEF ReconnectInv
  <2>6. connect_ \in BOOLEAN
    BY DEF TypeOK
  <2>7. CASE Attempt
    BY <2>4, <2>5, <2>6, <2>7 DEF Attempt, handleWrite, handleError
  <2>8. CASE RunConnectorFunctor /\ Head(batch).f = "stopInLoop"
    <3>1. stopInLoop /\ doing' = Nothing
      BY <2>8 DEF RunConnectorFunctor
    <3> QED BY <2>1, <2>4, <3>1 DEF stopInLoop
  <2> QED BY <1>2, <2>7, <2>8
<1>3. CASE newConnection
  <2>1. /\ doing.k = "newConnection" /\ doing.s \in Sockets /\ doing' = Nothing
        /\ UNCHANGED <<state_, channel_, ripe, batch>>
    BY <1>3 DEF newConnection, TypeOK, Nothing
  <2>2. /\ \A s \in Sockets : fd'[s] = IF s = doing.s THEN "new" ELSE fd[s]
        /\ \A s \in Sockets : s # doing.s => closeCallback'[s] = closeCallback[s]
    BY <1>0, <1>3 DEF newConnection
  <2>3. fd[doing.s] = "claimed"
    BY <2>1 DEF SocketParts, ConnectionInv
  <2>4. \A s \in Sockets : Reconnects(s)' => Reconnects(s)
    BY <2>2, <2>3 DEF Reconnects
  <2>5. \A s \in Sockets : fd'[s] = "up" /\ closeCallback'[s] = "client"
                           => fd[s] = "up" /\ closeCallback[s] = "client"
    BY <2>2
  <2> QED BY <2>1, <2>4, <2>5, ReconnectKept
<1>4. ASSUME NEW s \in Sockets, removeConnection(s), doing = Nothing,
             UNCHANGED <<state_, channel_, ripe, closeCallback>>
      PROVE  /\ \A t \in Sockets : fd'[t] = IF t = s THEN "down" ELSE fd[t]
             /\ \A t \in Sockets : Reconnects(t)' => Reconnects(t) /\ t # s
             /\ \A t \in Sockets : fd'[t] = "up" => fd[t] = "up"
             /\ closeCallback[s] # "client" => doing' = Nothing
  <2>1. \A t \in Sockets : fd'[t] = IF t = s THEN "down" ELSE fd[t]
    BY <1>0, <1>4 DEF removeConnection
  <2>2. \A t \in Sockets : Reconnects(t)' => Reconnects(t) /\ t # s
    BY <1>4, <2>1 DEF Reconnects
  <2> QED BY <1>4, <2>1, <2>2 DEF removeConnection
<1>5. CASE ConnectionCloses
  <2>1. PICK s \in Sockets : removeConnection(s)
    BY <1>5 DEF ConnectionCloses
  <2>2. doing = Nothing /\ batch = <<>> /\ batch' = batch /\ UNCHANGED <<state_, channel_, ripe, closeCallback>>
    BY <1>5 DEF ConnectionCloses, LoopIdle
  <2>3. CASE closeCallback[s] = "client"
    <3>1. fd[s] = "up" /\ Reconnects(s)
      BY <2>1, <2>3 DEF removeConnection, Reconnects
    <3>2. state_ = "kConnected" /\ channel_ = NoSocket
      BY <2>2, <2>3, <3>1, SingleQueue DEF ReconnectInv
    <3>3. \A t \in Sockets : ~Reconnects(t)'
      BY <1>4, <2>1, <2>2, <3>1 DEF ReconnectInv
    <3>4. \A t \in Sockets : ~(fd'[t] = "up" /\ closeCallback'[t] = "client")
      BY <3>3 DEF Reconnects
    <3> QED BY <2>2, <3>2, <3>3, <3>4 DEF ReconnectInv
  <2>4. CASE closeCallback[s] # "client"
    BY <1>4, <2>1, <2>2, <2>4, ReconnectKept
  <2> QED BY <2>3, <2>4
<1>6. CASE SwapFunctors
  <2>1. /\ doing = Nothing /\ doing' = Nothing /\ batch = <<>> /\ batch' = queue /\ ripe' = timers
        /\ UNCHANGED <<state_, channel_, closeCallback>>
    BY <1>6 DEF SwapFunctors, LoopIdle, clientVars
  <2>2. \A s \in Sockets : fd'[s] = IF fd[s] = "new" THEN "up" ELSE fd[s]
    BY <1>6 DEF SwapFunctors
  <2>3. \A s \in Sockets : Reconnects(s)' <=> Reconnects(s)
    BY <2>1, <2>2 DEF Reconnects
  <2>4. channel_ # NoSocket /\ state_ # "kConnecting" => ~Absent(batch', Reset)
    <3>1. Pending = queue
      BY <1>0, <2>1, TwoQueues DEF Pending
    <3> QED BY <2>1, <3>1 DEF SocketParts, ChannelInv, Exactly
  <2>5. channel_' # NoSocket /\ ripe' > 0 => ~Absent(batch', Reset)
    BY <1>0, <2>1, <2>4 DEF TokenInv
  <2>6. ASSUME NEW s \in Sockets, fd'[s] = "up", closeCallback'[s] = "client", channel_' # NoSocket
        PROVE  ~Absent(batch', Reset)
    <3>1. Reconnects(s)'
      BY <2>6 DEF Reconnects
    <3>2. state_ = "kConnected"
      BY <2>3, <3>1 DEF ReconnectInv
    <3> QED BY <2>1, <2>4, <2>6, <3>2
  <2>7. \A s \in Sockets : Reconnects(s)' => state_' = "kConnected" /\ doing'.k # "restart"
    BY <2>1, <2>3 DEF ReconnectInv
  <2>8. \A s, t \in Sockets : Reconnects(s)' /\ Reconnects(t)' => s = t
    BY <2>3 DEF ReconnectInv
  <2> QED BY <2>1, <2>5, <2>6, <2>7, <2>8 DEF ReconnectInv, Nothing
<1>7. ASSUME batch # <<>>, batch' = Tail(batch), Head(batch) # Reset
      PROVE  Absent(batch', Reset) => Absent(batch, Reset)
  BY <1>0, <1>7, TailQueue
<1>8. CASE RunConnectorFunctor /\ Head(batch).f # "startInLoop" /\ ~(Head(batch).f = "stopInLoop" /\ state_ = "kConnecting")
  <2>1. batch # <<>> /\ batch' = Tail(batch) /\ UNCHANGED <<ripe, doing, closeCallback>>
    BY <1>8 DEF RunConnectorFunctor
  <2>2. CASE Head(batch).f = "stopInLoop"
    <3>1. UNCHANGED <<state_, channel_, fd>> /\ Head(batch) # Reset
      BY <1>8, <2>2 DEF RunConnectorFunctor, stopInLoop, attemptVars, Reset, Functor
    <3>2. \A s \in Sockets : Reconnects(s)' => Reconnects(s)
      BY <2>1, <3>1 DEF Reconnects
    <3> QED BY <1>7, <2>1, <3>1, <3>2, ReconnectKept
  <2>3. CASE Head(batch).f = "resetChannel"
    <3>1. UNCHANGED <<state_, fd>> /\ channel_' = NoSocket
      BY <1>8, <2>3 DEF RunConnectorFunctor, resetChannel
    <3>2. \A s \in Sockets : Reconnects(s)' => Reconnects(s)
      BY <2>1, <3>1 DEF Reconnects
    <3> QED BY <2>1, <3>1, <3>2, ReconnectKept
  <2> QED BY <1>8, <2>2, <2>3 DEF RunConnectorFunctor
<1>9. CASE RunConnectionFunctor
  <2> DEFINE s == Head(batch).s
  <2>1. /\ batch # <<>> /\ batch' = Tail(batch) /\ doing = Nothing
        /\ UNCHANGED <<state_, channel_, ripe>>
    BY <1>9 DEF RunConnectionFunctor
  <2>2. s \in Sockets /\ Head(batch) = Functor(Head(batch).f, s)
    BY <1>9, <2>1, HeadTypes DEF RunConnectionFunctor
  <2>3. Absent(batch', Reset) => Absent(batch, Reset)
    <3>1. Head(batch) # Reset
      BY <1>9 DEF RunConnectionFunctor, Reset, Functor, ConnectorFunctors
    <3> QED BY <1>7, <2>1, <3>1
  <2>4. CASE fd' = [fd EXCEPT ![s] = "closed"] /\ UNCHANGED <<closeCallback, doing>>
    <3>1. \A t \in Sockets : fd'[t] \in {fd[t], "closed"}
      BY <1>0, <2>4
    <3>2. \A t \in Sockets : Reconnects(t)' => Reconnects(t)
      BY <2>4, <3>1 DEF Reconnects
    <3>3. \A t \in Sockets : fd'[t] = "up" => fd[t] = "up"
      BY <3>1
    <3> QED BY <2>1, <2>3, <2>4, <3>2, <3>3, ReconnectKept
  <2>5. CASE closeCallback' = [closeCallback EXCEPT ![s] = "detached"] /\ UNCHANGED <<fd, doing>>
    <3>1. \A t \in Sockets : closeCallback'[t] \in {closeCallback[t], "detached"}
      BY <1>0, <2>5
    <3>2. \A t \in Sockets : Reconnects(t)' => Reconnects(t)
      BY <2>5, <3>1 DEF Reconnects
    <3>3. \A t \in Sockets : closeCallback'[t] = "client" => closeCallback[t] = "client"
      BY <3>1
    <3> QED BY <2>1, <2>3, <2>5, <3>2, <3>3, ReconnectKept
  <2>6. CASE Head(batch).f = "forceClose" /\ fd[s] = "up" /\ removeConnection(s) /\ UNCHANGED closeCallback
    <3>1. closeCallback[s] # "client"
      BY <2>1, <2>2, <2>6, ForcedIsDetached DEF ForceClose
    <3> QED BY <1>4, <2>1, <2>2, <2>3, <2>6, <3>1, ReconnectKept
  <2>7. CASE UNCHANGED <<fd, closeCallback, doing>>
    <3>1. \A t \in Sockets : Reconnects(t)' => Reconnects(t)
      BY <2>7 DEF Reconnects
    <3> QED BY <2>1, <2>3, <2>7, <3>1, ReconnectKept
  <2> QED BY <1>9, <2>4, <2>5, <2>6, <2>7 DEF RunConnectionFunctor
<1>10. CASE KeepaliveTimer \/ stopHere \/ disconnect \/ destroyHere \/ Begin \/ Finish \/ UNCHANGED vars
  <2>1. UNCHANGED <<state_, channel_, fd, ripe, batch, doing>>
    BY <1>10 DEF KeepaliveTimer, stopHere, disconnect, destroyHere, Begin, Finish, Called, vars, attemptVars
  <2>2. \A t \in Sockets : closeCallback'[t] \in {closeCallback[t], "detached"}
    <3>1. CASE destroyHere
      BY <1>0, <3>1 DEF destroyHere
    <3>2. CASE KeepaliveTimer \/ stopHere \/ disconnect \/ Begin \/ Finish \/ UNCHANGED vars
      BY <3>2 DEF KeepaliveTimer, stopHere, disconnect, Begin, Finish, vars, clientVars
    <3> QED BY <1>10, <3>1, <3>2
  <2>3. \A t \in Sockets : Reconnects(t)' => Reconnects(t)
    BY <2>1, <2>2 DEF Reconnects
  <2>4. \A t \in Sockets : closeCallback'[t] = "client" => closeCallback[t] = "client"
    BY <2>2
  <2> QED BY <2>1, <2>3, <2>4, ReconnectKept
<1> QED BY <1>1, <1>2, <1>3, <1>5, <1>6, <1>8, <1>9, <1>10 DEF Next, LoopThread, AnyStart

\* Sequences of functors in which a forced close follows the functor that detaches.
LEMMA FencedQueues ==
    ASSUME NEW q \in Seq(FunctorSet), NEW R, NEW R2
    PROVE  /\ Fenced(<<>>, R)
           /\ Fenced(q, R) /\ R \subseteq R2 => Fenced(q, R2)
           /\ q # <<>> /\ Fenced(q, R) /\ (\A s \in Sockets : Head(q) = Detach(s) => s \in R2)
              => Fenced(Tail(q), R2)
<1>1. Fenced(<<>>, R)
  BY DEF Fenced
<1>2. Fenced(q, R) /\ R \subseteq R2 => Fenced(q, R2)
  BY DEF Fenced
<1>3. ASSUME q # <<>>, Fenced(q, R), \A s \in Sockets : Head(q) = Detach(s) => s \in R2
      PROVE  Fenced(Tail(q), R2)
  <2>1. /\ Len(Tail(q)) = Len(q) - 1 /\ Head(q) = q[1] /\ Len(q) \in Nat
        /\ \A i \in 1..Len(Tail(q)) : Tail(q)[i] = q[i + 1]
    BY <1>3
  <2> SUFFICES ASSUME NEW s \in Sockets, NEW i \in 1..Len(Tail(q)), Tail(q)[i] = ForceClose(s)
               PROVE  (i > 1 /\ Tail(q)[i - 1] = Detach(s)) \/ (i = 1 /\ s \in R2)
    BY DEF Fenced
  <2>2. i + 1 \in 1..Len(q) /\ q[i + 1] = ForceClose(s) /\ i + 1 > 1 /\ (i + 1) - 1 = i
    BY <2>1
  <2>3. q[i] = Detach(s)
    BY <1>3, <2>2 DEF Fenced
  <2>4. CASE i = 1
    BY <1>3, <2>1, <2>3, <2>4
  <2>5. CASE i > 1
    <3>1. i - 1 \in 1..Len(Tail(q)) /\ (i - 1) + 1 = i
      BY <2>5, <2>1
    <3> QED BY <2>1, <2>3, <2>5, <3>1
  <2> QED BY <2>4, <2>5
<1> QED BY <1>1, <1>2, <1>3

\* Posting such a sequence.
LEMMA FencedPost ==
    ASSUME NEW q \in Seq(FunctorSet), NEW t \in Seq(FunctorSet), Fenced(q, {}), Fenced(t, {})
    PROVE  Fenced(q \o t, {})
<1> DEFINE r == q \o t
<1>1. /\ Len(r) = Len(q) + Len(t) /\ Len(q) \in Nat /\ Len(t) \in Nat
      /\ \A i \in 1..Len(q) : r[i] = q[i]
      /\ \A i \in 1..Len(t) : r[Len(q) + i] = t[i]
  BY ConcatProperties
<1> HIDE DEF r
<1>2. ASSUME NEW s \in Sockets, NEW i \in 1..Len(r), r[i] = ForceClose(s)
      PROVE  i > 1 /\ r[i - 1] = Detach(s)
  <2>1. CASE i <= Len(q)
    <3>1. i \in 1..Len(q) /\ q[i] = ForceClose(s)
      BY <1>1, <1>2, <2>1
    <3>2. i > 1 /\ q[i - 1] = Detach(s)
      BY <3>1 DEF Fenced
    <3>3. i - 1 \in 1..Len(q)
      BY <3>1, <3>2
    <3> QED BY <1>1, <3>2, <3>3
  <2>2. CASE i > Len(q)
    <3> DEFINE j == i - Len(q)
    <3>1. j \in 1..Len(t) /\ Len(q) + j = i
      BY <1>1, <2>2
    <3>2. t[j] = ForceClose(s)
      BY <1>1, <1>2, <3>1
    <3> HIDE DEF j
    <3>3. j > 1 /\ t[j - 1] = Detach(s)
      BY <3>1, <3>2 DEF Fenced
    <3>4. j - 1 \in 1..Len(t) /\ Len(q) + (j - 1) = i - 1
      BY <1>1, <3>1, <3>3
    <3>5. r[Len(q) + (j - 1)] = t[j - 1]
      BY <1>1, <3>4
    <3>6. i > 1
      BY <1>1, <3>1, <3>3
    <3> QED BY <3>3, <3>4, <3>5, <3>6
  <2> QED BY <1>1, <2>1, <2>2
<1> QED BY <1>2 DEF Fenced, r

\* The sequences a step posts.
LEMMA FencedPosts ==
    /\ \A y : (\A s \in Sockets : y # ForceClose(s)) => Fenced(<<y>>, {})
    /\ \A s \in Sockets : Fenced(<<Detach(s)>> \o <<ForceClose(s)>>, {})
    /\ \A s \in Sockets : Fenced(<<Detach(s)>> \o <<>>, {})
<1>1. \A y : (\A s \in Sockets : y # ForceClose(s)) => Fenced(<<y>>, {})
  BY DEF Fenced
<1>2. ASSUME NEW s \in Sockets PROVE Fenced(<<Detach(s), ForceClose(s)>>, {})
  <2>1. \A t \in Sockets : Detach(s) # ForceClose(t) /\ (ForceClose(s) = ForceClose(t) => s = t)
    BY Distinct
  <2> QED BY <2>1 DEF Fenced
<1>3. \A s \in Sockets : Fenced(<<Detach(s)>>, {})
  BY <1>1, Distinct
<1>4. ASSUME NEW s \in Sockets PROVE <<Detach(s)>> \o <<ForceClose(s)>> = <<Detach(s), ForceClose(s)>>
  <2> DEFINE p == <<Detach(s)>>
             q == <<ForceClose(s)>>
             r == <<Detach(s), ForceClose(s)>>
  <2>1. p \in Seq(FunctorSet) /\ q \in Seq(FunctorSet) /\ r \in Seq(FunctorSet)
    BY Distinct
  <2>2. Len(p) = 1 /\ Len(q) = 1 /\ Len(r) = 2 /\ r[1] = p[1] /\ r[2] = q[1]
    OBVIOUS
  <2> HIDE DEF p, q, r
  <2>3. p \o q \in Seq(FunctorSet) /\ Len(p \o q) = 2 /\ (p \o q)[1] = p[1] /\ (p \o q)[2] = q[1]
    <3>1. p \o q \in Seq(FunctorSet) /\ Len(p \o q) = Len(p) + Len(q)
      BY <2>1
    <3>2. 1 \in 1..(Len(p) + Len(q)) /\ 2 \in 1..(Len(p) + Len(q)) /\ Len(p) + Len(q) = 2
      BY <2>2
    <3>3. \A i \in 1..(Len(p) + Len(q)) : (p \o q)[i] = IF i <= Len(p) THEN p[i] ELSE q[i - Len(p)]
      BY <2>1, ConcatProperties
    <3>4. 1 <= Len(p) /\ ~(2 <= Len(p)) /\ 2 - Len(p) = 1
      BY <2>2
    <3> QED BY <3>1, <3>2, <3>3, <3>4
  <2>4. \A i \in 1..Len(p \o q) : (p \o q)[i] = r[i]
    BY <2>2, <2>3
  <2>5. p \o q = r
    BY <2>1, <2>2, <2>3, <2>4, SeqEqual
  <2> QED BY <2>5 DEF p, q, r
<1>5. ASSUME NEW s \in Sockets PROVE <<Detach(s)>> \o <<>> = <<Detach(s)>>
  <2>1. <<Detach(s)>> \in Seq(FunctorSet)
    BY Distinct
  <2> QED BY <2>1, TwoQueues
<1> QED BY <1>1, <1>2, <1>3, <1>4, <1>5

\* A client destroyed in its loop thread with the connection stays where it is.
LEMMA StuckStays ==
    ASSUME TypeOK, SocketParts, ~asserted, TokenInv, ReconnectInv, [Next]_vars, starts' <= 1, Stuck
    PROVE  Stuck'
<1>0. /\ fd \in [Sockets -> FdStates] /\ closeCallback \in [Sockets -> {"client", "detached"}]
      /\ \A s \in Sockets : ~Reconnects(s)
  BY DEF TypeOK, Stuck
<1>a. ~AnyStart
  BY StartsCalmly DEF Starting
<1>b. client = "gone" /\ state_ = "kConnected" /\ doing.k = "nothing"
  BY DEF Stuck
<1>c. ASSUME client' = "gone", state_' = state_, doing' = doing,
             \A s \in Sockets : fd'[s] \in {fd[s], "closed", "down"} \/ (fd[s] = "new" /\ fd'[s] = "up"),
             \A s \in Sockets : closeCallback'[s] \in {closeCallback[s], "detached"}
      PROVE  Stuck'
  <2>1. \A s \in Sockets : ~Reconnects(s)'
    BY <1>0, <1>c DEF Reconnects
  <2> QED BY <1>b, <1>c, <2>1 DEF Stuck
<1>d. ASSUME NEW s \in Sockets, removeConnection(s)
      PROVE  doing' = doing /\ \A t \in Sockets : fd'[t] \in {fd[t], "down"}
  BY <1>0, <1>d DEF removeConnection, Reconnects
<1>1. CASE Attempt \/ newConnection \/ connectHere \/ stopHere \/ disconnect \/ destroyHere \/ Begin
  BY <1>1, <1>b DEF Attempt, handleWrite, handleError, Watched, newConnection, connectHere, stopHere, disconnect,
                    MayCall, destroyHere, Begin
<1>2. CASE ConnectionCloses
  <2>1. PICK s \in Sockets : removeConnection(s)
    BY <1>2 DEF ConnectionCloses
  <2>2. UNCHANGED <<client, state_, closeCallback>>
    BY <1>2 DEF ConnectionCloses
  <2> QED BY <1>b, <1>c, <1>d, <2>1, <2>2
<1>3. CASE SwapFunctors
  BY <1>3, <1>b, <1>c DEF SwapFunctors, clientVars
<1>4. CASE RunConnectorFunctor
  <2>1. UNCHANGED <<client, state_, closeCallback, fd, doing>>
    BY <1>4, <1>a, <1>b DEF RunConnectorFunctor, AnyStart, stopInLoop, resetChannel, attemptVars
  <2> QED BY <1>b, <1>c, <2>1
<1>5. CASE RunConnectionFunctor
  <2> DEFINE s == Head(batch).s
  <2>1. UNCHANGED <<client, state_>> /\ s \in Sockets
    BY <1>5, HeadTypes DEF RunConnectionFunctor
  <2>2. CASE fd' = [fd EXCEPT ![s] = "closed"] /\ UNCHANGED <<closeCallback, doing>>
    BY <1>0, <1>b, <1>c, <2>1, <2>2
  <2>3. CASE closeCallback' = [closeCallback EXCEPT ![s] = "detached"] /\ UNCHANGED <<fd, doing>>
    BY <1>0, <1>b, <1>c, <2>1, <2>3
  <2>4. CASE removeConnection(s) /\ UNCHANGED closeCallback
    BY <1>b, <1>c, <1>d, <2>1, <2>4
  <2>5. CASE UNCHANGED <<fd, closeCallback, doing>>
    BY <1>b, <1>c, <2>1, <2>5
  <2> QED BY <1>5, <2>2, <2>3, <2>4, <2>5 DEF RunConnectionFunctor
<1>6. CASE KeepaliveTimer \/ Finish \/ UNCHANGED vars
  <2>1. UNCHANGED <<state_, closeCallback, fd, doing>>
    BY <1>6 DEF KeepaliveTimer, Finish, vars, attemptVars, clientVars
  <2>2. client' = "gone"
    BY <1>6, <1>b DEF KeepaliveTimer, Finish, Leave, vars, clientVars
  <2> QED BY <1>c, <2>1, <2>2
<1> QED BY <1>a, <1>1, <1>2, <1>3, <1>4, <1>5, <1>6 DEF Next, LoopThread, AnyStart

\* A forced close finds the close callback detached.
LEMMA ForceInductive ==
    ASSUME TypeOK, SocketParts, ~asserted, TokenInv, ReconnectInv, ForceInv, [Next]_vars, starts' <= 1
    PROVE  ForceInv'
<1>0. /\ queue \in Seq(FunctorSet) /\ batch \in Seq(FunctorSet)
      /\ closeCallback \in [Sockets -> {"client", "detached"}] /\ connection_ \in SocketOrNone
  BY DEF TypeOK
<1>a. Reset \in FunctorSet /\ Stop \in FunctorSet /\ Start \in FunctorSet
  BY Distinct
<1>b. \A s \in Sockets : {Destroy(s), Detach(s), ForceClose(s)} \subseteq FunctorSet
  BY Distinct
<1>c. CASE Stuck
  BY <1>c, StuckStays DEF ForceInv
<1> SUFFICES ASSUME Fenced(queue, {}), Fenced(batch, Detached), ~Stuck PROVE ForceInv'
  BY <1>c DEF ForceInv
<1>d. ASSUME NEW y \in FunctorSet, \A s \in Sockets : y # ForceClose(s), Post(<<y>>) PROVE Fenced(queue', {})
  <2>1. Fenced(<<y>>, {}) /\ <<y>> \in Seq(FunctorSet)
    BY <1>d, FencedPosts
  <2> QED BY <1>0, <1>d, <2>1, FencedPost DEF Post
<1>e. ASSUME batch' = batch, \A s \in Sockets : closeCallback'[s] \in {closeCallback[s], "detached"}
      PROVE  Fenced(batch', Detached')
  <2>1. Detached \subseteq Detached'
    BY <1>e DEF Detached
  <2> QED BY <1>0, <1>e, <2>1, FencedQueues
<1>f. ASSUME batch # <<>>, batch' = Tail(batch),
             \A s \in Sockets : closeCallback'[s] \in {closeCallback[s], "detached"},
             \A s \in Sockets : Head(batch) = Detach(s) => closeCallback'[s] = "detached"
      PROVE  Fenced(batch', Detached')
  <2>1. \A s \in Sockets : Head(batch) = Detach(s) => s \in Detached'
    BY <1>f DEF Detached
  <2> QED BY <1>0, <1>f, <2>1, FencedQueues
<1>1. CASE Attempt
  <2>1. Post(<<Reset>>) /\ batch' = batch /\ closeCallback' = closeCallback
    BY <1>1 DEF Attempt, handleWrite, handleError, removeAndResetChannel, Reset
  <2> QED BY <1>a, <1>d, <1>e, <2>1, Distinct DEF ForceInv
<1>2. CASE newConnection
  <2>1. batch = <<>> /\ batch' = batch /\ queue' = queue
    BY <1>2 DEF newConnection, SocketParts, ConnectionInv
  <2>2. Fenced(batch', Detached')
    BY <1>0, <2>1, FencedQueues
  <2> QED BY <2>1, <2>2 DEF ForceInv
<1>3. CASE ConnectionCloses
  <2>1. PICK s \in Sockets : Post(<<Destroy(s)>>) /\ batch' = batch /\ closeCallback' = closeCallback
    BY <1>3 DEF ConnectionCloses, removeConnection, Destroy
  <2>2. Destroy(s) \in FunctorSet /\ \A t \in Sockets : Destroy(s) # ForceClose(t)
    BY Distinct
  <2> QED BY <1>d, <1>e, <2>1, <2>2 DEF ForceInv
<1>4. CASE Restart \/ RetryTimer \/ KeepaliveTimer \/ connectHere \/ disconnect \/ Begin \/ UNCHANGED vars
  <2>1. queue' = queue /\ batch' = batch /\ closeCallback' = closeCallback
    BY <1>4 DEF Restart, RetryTimer, KeepaliveTimer, connectHere, disconnect, Called, Begin, vars, clientVars
  <2> QED BY <1>e, <2>1 DEF ForceInv
<1>5. CASE SwapFunctors
  <2>1. batch' = queue /\ queue' = <<>>
    BY <1>5 DEF SwapFunctors
  <2>2. Fenced(queue', {}) /\ Fenced(batch', Detached')
    BY <1>0, <2>1, FencedQueues
  <2> QED BY <2>2 DEF ForceInv
<1>6. CASE RunConnectorFunctor
  <2>1. batch # <<>> /\ batch' = Tail(batch) /\ closeCallback' = closeCallback
    BY <1>6 DEF RunConnectorFunctor
  <2>2. \A s \in Sockets : Head(batch) # Detach(s)
    BY <1>6 DEF RunConnectorFunctor, Detach, Functor, ConnectorFunctors
  <2>3. Fenced(batch', Detached')
    BY <1>f, <2>1, <2>2
  <2>4. Fenced(queue', {})
    <3>1. queue' = queue \/ Post(<<Reset>>)
      BY <1>6 DEF RunConnectorFunctor, stopInLoop, removeAndResetChannel, Reset
    <3> QED BY <1>a, <1>d, <3>1, Distinct
  <2> QED BY <2>3, <2>4 DEF ForceInv
<1>7. CASE RunConnectionFunctor
  <2> DEFINE s == Head(batch).s
  <2>1. batch # <<>> /\ batch' = Tail(batch) /\ s \in Sockets /\ Head(batch) = Functor(Head(batch).f, s)
    BY <1>7, HeadTypes DEF RunConnectionFunctor
  <2>2. Fenced(queue', {})
    <3>1. queue' = queue \/ Post(<<Destroy(s)>>)
      BY <1>7 DEF RunConnectionFunctor, removeConnection, Destroy
    <3>2. Destroy(s) \in FunctorSet /\ \A t \in Sockets : Destroy(s) # ForceClose(t)
      BY <2>1, Distinct
    <3> QED BY <1>d, <3>1, <3>2
  <2>3. Fenced(batch', Detached')
    <3>1. CASE Head(batch).f = "setCloseCallback"
      <4>1. closeCallback' = [closeCallback EXCEPT ![s] = "detached"]
        BY <1>7, <3>1 DEF RunConnectionFunctor
      <4>2. \A t \in Sockets : Head(batch) = Detach(t) => t = s
        BY <2>1 DEF Detach, Functor
      <4>3. closeCallback'[s] = "detached" /\ \A t \in Sockets : closeCallback'[t] \in {closeCallback[t], "detached"}
        BY <1>0, <2>1, <4>1
      <4> QED BY <1>f, <2>1, <4>2, <4>3
    <3>2. CASE Head(batch).f # "setCloseCallback"
      <4>1. closeCallback' = closeCallback
        BY <1>7, <3>2 DEF RunConnectionFunctor
      <4>2. \A t \in Sockets : Head(batch) # Detach(t)
        BY <3>2 DEF Detach, Functor
      <4> QED BY <1>f, <2>1, <4>1, <4>2
    <3> QED BY <3>1, <3>2
  <2> QED BY <2>2, <2>3 DEF ForceInv
<1>8. CASE stopHere
  <2>1. Post(<<Stop>>) /\ batch' = batch /\ closeCallback' = closeCallback
    BY <1>8 DEF stopHere, Called, Stop
  <2> QED BY <1>a, <1>d, <1>e, <2>1, Distinct DEF ForceInv
<1>9. CASE destroyHere
  <2>1. CASE connection_ = NoSocket
    <3>1. Post(<<Stop>>) /\ batch' = batch /\ closeCallback' = closeCallback
      BY <1>9, <2>1 DEF destroyHere, Stop
    <3> QED BY <1>a, <1>d, <1>e, <3>1, Distinct DEF ForceInv
  <2>2. CASE connection_ # NoSocket
    <3>1. /\ client = "alive" /\ client' = "gone" /\ doing = Nothing /\ doing' = doing
          /\ UNCHANGED <<state_, fd>> /\ connection_ \in Sockets
          /\ closeCallback' = [closeCallback EXCEPT ![connection_] = "detached"]
      BY <1>0, <1>9, <2>2 DEF destroyHere, Leave, LoopIdle, attemptVars, SocketOrNone
    <3>2. state_ = "kConnected"
      BY <2>2, <3>1 DEF SocketParts, ConnectionInv
    <3>3. \A s \in Sockets : fd[s] # "claimed" /\ (fd[s] \in {"new", "up"} => connection_ = s)
      BY <3>1 DEF SocketParts, ConnectionInv, Nothing
    <3>4. closeCallback'[connection_] = "detached"
      BY <1>0, <3>1
    <3>5. \A s \in Sockets : ~Reconnects(s)'
      BY <3>1, <3>3, <3>4 DEF Reconnects
    <3> QED BY <3>1, <3>2, <3>5 DEF ForceInv, Stuck, Nothing
  <2> QED BY <2>1, <2>2
<1>10. CASE Finish
  <2>1. batch' = batch /\ closeCallback' = closeCallback
    BY <1>10 DEF Finish
  <2>2. CASE call.k = "connect"
    <3>1. Post(<<Start>>)
      BY <1>10, <2>2 DEF Finish, Start
    <3> QED BY <1>a, <1>d, <1>e, <2>1, <3>1, Distinct DEF ForceInv
  <2>3. CASE call.k = "stop" \/ (call.k = "destroy" /\ call.s = NoSocket)
    <3>1. Post(<<Stop>>)
      BY <1>10, <2>3 DEF Finish, Stop
    <3> QED BY <1>a, <1>d, <1>e, <2>1, <3>1, Distinct DEF ForceInv
  <2>4. CASE call.k = "destroy" /\ call.s # NoSocket
    <3>1. call.s \in Sockets
      BY <2>4 DEF TypeOK, Nothing, SocketOrNone
    <3>2. Post(<<Detach(call.s)>> \o <<ForceClose(call.s)>>) \/ Post(<<Detach(call.s)>> \o <<>>)
      BY <1>10, <2>4 DEF Finish, ForceClose, Detach
    <3>3. /\ <<Detach(call.s)>> \o <<ForceClose(call.s)>> \in Seq(FunctorSet)
          /\ <<Detach(call.s)>> \o <<>> \in Seq(FunctorSet)
      <4>1. /\ <<Detach(call.s)>> \in Seq(FunctorSet) /\ <<ForceClose(call.s)>> \in Seq(FunctorSet)
            /\ <<>> \in Seq(FunctorSet)
        BY <1>b, <3>1
      <4> QED BY <4>1, TwoQueues
    <3>4. Fenced(<<Detach(call.s)>> \o <<ForceClose(call.s)>>, {}) /\ Fenced(<<Detach(call.s)>> \o <<>>, {})
      BY <3>1, FencedPosts
    <3> DEFINE t1 == <<Detach(call.s)>> \o <<ForceClose(call.s)>>
               t2 == <<Detach(call.s)>> \o <<>>
    <3>5. /\ t1 \in Seq(FunctorSet) /\ t2 \in Seq(FunctorSet) /\ Fenced(t1, {}) /\ Fenced(t2, {})
          /\ queue' = queue \o t1 \/ queue' = queue \o t2
      BY <3>2, <3>3, <3>4 DEF Post
    <3> HIDE DEF t1, t2
    <3>6. Fenced(queue', {})
      BY <1>0, <3>5, FencedPost
    <3> QED BY <1>e, <2>1, <3>6 DEF ForceInv
  <2> QED BY <1>10, <2>2, <2>3, <2>4 DEF Finish
<1> QED BY <1>1, <1>2, <1>3, <1>4, <1>5, <1>6, <1>7, <1>8, <1>9, <1>10 DEF Next, LoopThread

\* The four parts are preserved together.
LEMMA StartInductive == TypeOK /\ SocketInv /\ StartInv /\ [Next]_vars => StartInv'
<1> SUFFICES ASSUME TypeOK, SocketInv, StartInv, [Next]_vars, starts' <= 1
             PROVE  ~asserted' /\ TokenInv' /\ ReconnectInv' /\ ForceInv'
  BY DEF StartInv
<1>1. starts \in Nat /\ (starts' = starts \/ starts' = starts + 1)
  <2>1. starts \in Nat
    BY DEF TypeOK
  <2>2. CASE connectHere \/ Begin
    BY <2>1, <2>2 DEF connectHere, Begin
  <2>3. CASE Attempt \/ newConnection \/ ConnectionCloses \/ Restart \/ RetryTimer \/ KeepaliveTimer \/ SwapFunctors
    BY <2>1, <2>3 DEF Attempt, newConnection, ConnectionCloses, Restart, RetryTimer, KeepaliveTimer, SwapFunctors, callVars
  <2>4. CASE RunConnectorFunctor \/ RunConnectionFunctor \/ stopHere \/ disconnect \/ destroyHere \/ Finish \/ UNCHANGED vars
    BY <2>1, <2>4 DEF RunConnectorFunctor, RunConnectionFunctor, stopHere, disconnect, destroyHere, Finish, vars, callVars
  <2> QED BY <2>1, <2>2, <2>3, <2>4 DEF Next, LoopThread
<1>2. ~asserted /\ TokenInv /\ ReconnectInv /\ ForceInv /\ SocketParts
  BY <1>1 DEF StartInv, SocketInv, SocketParts
<1>3. ~asserted'
  <2>1. CASE AnyStart
    BY <1>2, <2>1, StartsCalmly DEF Starting
  <2>2. CASE RunConnectorFunctor /\ ~AnyStart
    BY <1>2, <2>2 DEF RunConnectorFunctor, AnyStart, stopInLoop, resetChannel, attemptVars
  <2>3. CASE Attempt \/ newConnection \/ ConnectionCloses \/ KeepaliveTimer \/ SwapFunctors
    BY <1>2, <2>3 DEF Attempt, handleWrite, handleError, newConnection, ConnectionCloses, KeepaliveTimer,
                      SwapFunctors, attemptVars
  <2>4. CASE RunConnectionFunctor \/ stopHere \/ disconnect \/ destroyHere \/ Begin \/ Finish \/ UNCHANGED vars
    BY <1>2, <2>4 DEF RunConnectionFunctor, stopHere, disconnect, destroyHere, Begin, Finish, vars, attemptVars
  <2> QED BY <2>1, <2>2, <2>3, <2>4 DEF Next, LoopThread, AnyStart
<1> QED BY <1>2, <1>3, TokenInductive, ReconnectInductive, ForceInductive

\* StartInv is an invariant.
LEMMA StartInvariant == Spec => []StartInv
<1>1. ASSUME Init PROVE StartInv
  <2>1. /\ Pending = <<>> /\ queue = <<>> /\ batch = <<>> /\ state_ = "kDisconnected" /\ channel_ = NoSocket
        /\ timers = 0 /\ doing = Nothing /\ call = Nothing /\ ~asserted
        /\ \A s \in Sockets : fd[s] = "closed"
    BY <1>1 DEF Init, ConnectorInit, Pending
  <2>2. Absent(Pending, Start) /\ Once(Pending, Start)
    BY <2>1 DEF Absent, Once
  <2>3. TokenInv
    BY <2>1, <2>2 DEF TokenInv, Nothing
  <2>4. \A s \in Sockets : ~Reconnects(s) /\ fd[s] # "up"
    BY <2>1 DEF Reconnects
  <2>5. ReconnectInv
    BY <2>1, <2>4 DEF ReconnectInv, Nothing
  <2>6. ForceInv
    BY <2>1 DEF ForceInv, Fenced
  <2> QED BY <2>1, <2>3, <2>5, <2>6 DEF StartInv
<1> QED BY <1>1, StartInductive, TypeCorrect, SocketInvariant, PTL DEF Spec

\* One call of connect() never fails an assertion, whatever stop(), disconnect(), the destructor,
\* retry timers that are not cancelled (Connector.cc:37), the peer and the reconnections of
\* TcpClient.cc:158-163 do, for any number of sockets and of other calls: startInLoop finds
\* kDisconnected (Connector.cc:43) and connecting finds no channel (Connector.cc:124), although
\* the old channel is left to a functor that is still to run (Connector.cc:143).
THEOREM OneStartSafe == Spec => []OneStartIsSafe
<1>1. StartInv => OneStartIsSafe
  BY DEF StartInv, OneStartIsSafe
<1> QED BY <1>1, StartInvariant, PTL

-----------------------------------------------------------------------------
(* The destructor *)

\* Nothing is queued for the Connector while the queue is empty of its functors and none runs.
LEMMA QueueOfNone ==
    ASSUME TypeOK, batch = <<>>, ~ConnectorQueued
    PROVE  NoneQueued
<1>1. queue \in Seq(FunctorSet) /\ Pending = queue
  BY TwoQueues DEF TypeOK, Pending
<1>2. \A i \in 1..Len(Pending) : Pending[i].f \notin ConnectorFunctors
  BY <1>1 DEF ConnectorQueued
<1> QED BY <1>2 DEF NoneQueued, Absent, Start, Stop, Reset, Functor, ConnectorFunctors

\* Steps that leave the Connector and the functors of the Connector alone.
LEMMA SafeKept ==
    ASSUME SafeInv, \A x \in {Start, Stop, Reset} : Keeps(Pending, Pending', x),
           UNCHANGED <<client, call, doing, touched, connect_, keepalive, state_>>,
           \A s \in Sockets : fd'[s] \in {"new", "up"} => fd[s] \in {"new", "up"},
           \A s \in Sockets : closeCallback'[s] \in {closeCallback[s], "detached"}
    PROVE  SafeInv'
<1>1. (NoneQueued' <=> NoneQueued) /\ (Absent(Pending, Stop)' <=> Absent(Pending, Stop))
  BY DEF NoneQueued, Keeps
<1>2. \A s \in Sockets : fd'[s] \in {"new", "up"} => closeCallback'[s] = "detached"
  BY DEF SafeInv
<1> QED BY <1>1, <1>2 DEF SafeInv

\* The destructor in the loop thread, with safe timing, leaves a client out of reach.
LEMMA SafelyDestroyed ==
    ASSUME TypeOK, SocketParts, ~touched, destroyHere, dtor' = "safe"
    PROVE  SafeInv'
<1>0. /\ queue \in Seq(FunctorSet) /\ batch \in Seq(FunctorSet) /\ connection_ \in SocketOrNone
      /\ closeCallback \in [Sockets -> {"client", "detached"}]
  BY DEF TypeOK
<1>1. /\ client = "alive" /\ client' = "gone" /\ call = Nothing /\ doing = Nothing /\ batch = <<>>
      /\ UNCHANGED <<call, doing, touched, state_, fd, batch>>
  BY DEF destroyHere, LoopIdle, Leave, attemptVars, callVars
<1>2. \A s \in Sockets : fd[s] \in {"new", "up"} => connection_ = s
  BY <1>1 DEF SocketParts, ConnectionInv
<1>3. CASE connection_ = NoSocket
  <2>1. Post(<<Stop>>) /\ closeCallback' = closeCallback
    BY <1>3 DEF destroyHere, Stop
  <2>2. ~connect_' /\ keepalive'
    BY <1>3 DEF destroyHere, Leave
  <2>3. ~Absent(Pending', Stop)
    BY <1>0, <1>1, <2>1, Distinct, PostedOne
  <2>4. \A s \in Sockets : fd'[s] \notin {"new", "up"}
    BY <1>1, <1>2, <1>3, NoSocketAssumption
  <2> QED BY <1>1, <2>2, <2>3, <2>4 DEF SafeInv
<1>4. CASE connection_ # NoSocket
  <2>1. connection_ \in Sockets /\ ~ConnectorQueued /\ state_ = "kConnected"
    BY <1>0, <1>1, <1>4 DEF destroyHere, SocketOrNone, SocketParts, ConnectionInv
  <2>2. NoneQueued
    BY <1>1, <2>1, QueueOfNone
  <2>3. PICK unique \in BOOLEAN : Post(IF unique THEN <<ForceClose(connection_)>> ELSE <<>>)
    BY <1>4 DEF destroyHere, ForceClose
  <2>4. ASSUME NEW x \in {Start, Stop, Reset} PROVE Keeps(Pending, Pending', x)
    <3>1. x # Detach(connection_) /\ x # ForceClose(connection_)
      BY <2>1, Distinct
    <3> QED BY <1>0, <1>1, <2>1, <2>3, <3>1, DestructorPosts, PostedSome
  <2>5. NoneQueued'
    BY <2>2, <2>4 DEF NoneQueued, Keeps
  <2>6. closeCallback'[connection_] = "detached"
    BY <1>0, <1>4, <2>1 DEF destroyHere
  <2>7. \A s \in Sockets : fd'[s] \in {"new", "up"} => closeCallback'[s] = "detached"
    BY <1>1, <1>2, <2>6
  <2> QED BY <1>1, <2>1, <2>5, <2>7 DEF SafeInv
<1> QED BY <1>3, <1>4

\* Nothing that can run reaches it again.
LEMMA SafeInductive ==
    ASSUME TypeOK, SocketParts, ~asserted, SafeInv, [Next]_vars, ~asserted'
    PROVE  SafeInv'
<1>0. /\ queue \in Seq(FunctorSet) /\ batch \in Seq(FunctorSet) /\ connect_ \in BOOLEAN
      /\ fd \in [Sockets -> FdStates] /\ closeCallback \in [Sockets -> {"client", "detached"}]
  BY DEF TypeOK
<1>a. /\ client = "gone" /\ call = Nothing /\ doing = Nothing /\ doing.k = "nothing" /\ ~touched
      /\ \A s \in Sockets : fd[s] \in {"new", "up"} => closeCallback[s] = "detached"
  BY DEF SafeInv, Nothing
<1>b. \A X : Start \notin X /\ Stop \notin X /\ Reset \notin X /\ OthersKept(X)
             => \A x \in {Start, Stop, Reset} : Keeps(Pending, Pending', x)
  BY DEF OthersKept
<1>c. ASSUME NEW s \in Sockets, removeConnection(s)
      PROVE  /\ UNCHANGED <<doing, touched>> /\ Post(<<Destroy(s)>>)
             /\ \A t \in Sockets : fd'[t] \in {"new", "up"} => fd[t] \in {"new", "up"}
  BY <1>0, <1>a, <1>c DEF removeConnection, Destroy
<1>1. CASE newConnection \/ Restart \/ connectHere \/ stopHere \/ disconnect \/ destroyHere \/ Begin \/ Finish
  BY <1>1, <1>a DEF newConnection, Restart, connectHere, stopHere, disconnect, MayCall, destroyHere, Begin, Finish
<1>2. CASE Attempt \/ RunConnectorFunctor
  <2>1. ~connect_ /\ keepalive
    <3>1. CASE Attempt
      <4>1. state_ = "kConnecting"
        BY <3>1 DEF Attempt, handleWrite, handleError, Watched
      <4> QED BY <4>1 DEF SafeInv, NoneQueued
    <3>2. CASE RunConnectorFunctor
      <4>1. batch # <<>> /\ Head(batch) \in {Start, Stop, Reset}
        BY <3>2, HeadTypes DEF RunConnectorFunctor
      <4>2. Pending # <<>> /\ Pending \in Seq(FunctorSet) /\ Head(Pending) = Head(batch)
        BY <1>0, <4>1, TwoQueues DEF Pending
      <4>3. ~Absent(Pending, Head(batch))
        BY <4>2, TailQueue
      <4> QED BY <4>1, <4>3 DEF SafeInv, NoneQueued
    <3> QED BY <1>2, <3>1, <3>2
  <2>2. /\ UNCHANGED <<client, call, closeCallback, connect_, keepalive>>
        /\ touched' = (touched \/ ConnectorGone)
    BY <1>2 DEF Attempt, handleWrite, handleError, RunConnectorFunctor, callVars
  <2>3. ~touched'
    BY <1>a, <2>1, <2>2 DEF ConnectorGone
  <2>4. doing' = Nothing
    BY <1>2, <1>a, <2>1 DEF Attempt, RunConnectorFunctor
  <2>5. /\ \A s \in Sockets : fd'[s] \in {"new", "up"} => fd[s] \in {"new", "up"}
        /\ state_' = "kConnecting" => ~Absent(Pending', Stop)
    <3>1. CASE Attempt
      <4>1. \A s \in Sockets : fd'[s] \in {fd[s], "closed"}
        BY <1>0, <2>1, <3>1 DEF Attempt, handleWrite, handleError
      <4>2. state_' # "kConnecting"
        BY <3>1 DEF Attempt, handleWrite, handleError, retry
      <4> QED BY <4>1, <4>2
    <3>2. CASE RunConnectorFunctor /\ Head(batch).f = "startInLoop"
      <4>1. startInLoop(Now, FALSE)
        <5>1. connect_ = FALSE
          BY <1>0, <2>1
        <5> QED BY <3>2, <5>1 DEF RunConnectorFunctor
      <4>2. fd' = fd /\ state_' = state_ /\ state_ = "kDisconnected"
        BY <4>1, NowTypes DEF startInLoop
      <4> QED BY <4>2
    <3>3. CASE RunConnectorFunctor /\ Head(batch).f = "stopInLoop"
      <4>1. stopInLoop
        BY <3>3 DEF RunConnectorFunctor
      <4>2. (\A s \in Sockets : fd'[s] \in {fd[s], "closed"}) /\ state_' # "kConnecting"
        BY <1>0, <4>1 DEF stopInLoop, retry, attemptVars
      <4> QED BY <4>2
    <3>4. CASE RunConnectorFunctor /\ Head(batch).f = "resetChannel"
      <4>1. fd' = fd /\ state_' = state_ /\ queue' = queue /\ batch # <<>> /\ batch' = Tail(batch)
        BY <3>4 DEF RunConnectorFunctor, resetChannel
      <4>2. Head(batch) # Stop
        BY <3>4 DEF Stop, Functor
      <4>3. Keeps(Pending, Pending', Stop)
        BY <1>0, <4>1, <4>2, TakenNone DEF OthersKept
      <4>4. state_ = "kConnecting" => ~Absent(Pending, Stop)
        BY DEF SafeInv
      <4> QED BY <4>1, <4>3, <4>4 DEF Keeps
    <3> QED BY <1>2, <3>1, <3>2, <3>3, <3>4 DEF RunConnectorFunctor, ConnectorFunctors
  <2>6. \A s \in Sockets : fd'[s] \in {"new", "up"} => closeCallback'[s] = "detached"
    BY <1>a, <2>2, <2>5
  <2>7. client' = "gone" /\ call' = Nothing /\ ~connect_' /\ keepalive'
    BY <1>a, <2>1, <2>2
  <2> QED BY <2>3, <2>4, <2>5, <2>6, <2>7 DEF SafeInv
<1>3. CASE ConnectionCloses
  <2>1. PICK s \in Sockets : removeConnection(s)
    BY <1>3 DEF ConnectionCloses
  <2>2. UNCHANGED <<client, call, connect_, keepalive, state_, closeCallback, batch>>
    BY <1>3 DEF ConnectionCloses, callVars
  <2>3. OthersKept({Destroy(s)})
    BY <1>0, <1>c, <2>1, <2>2, Distinct, PostedOne
  <2>4. \A x \in {Start, Stop, Reset} : Keeps(Pending, Pending', x)
    BY <2>3, Distinct DEF OthersKept
  <2> QED BY <1>c, <2>1, <2>2, <2>4, SafeKept
<1>4. CASE RetryTimer
  <2>1. /\ UNCHANGED <<client, call, doing, touched, connect_, keepalive, closeCallback, queue, batch>>
        /\ ripe > 0
    BY <1>4 DEF RetryTimer, clientVars, callVars
  <2>2. state_ = "kDisconnected"
    BY <1>0, <1>4, <2>1, NowTypes, StartOutcome DEF RetryTimer
  <2>3. connect_ = FALSE
    BY <1>0, <2>2 DEF SafeInv
  <2>4. fd' = fd /\ state_' = state_
    BY <1>4, <2>1, <2>3, NowTypes DEF RetryTimer, startInLoop
  <2> QED BY <1>b, <2>1, <2>4, PostedNone, SafeKept
<1>5. CASE KeepaliveTimer
  <2>1. /\ UNCHANGED <<client, call, doing, touched, connect_, state_, fd, closeCallback>>
        /\ Pending' = Pending /\ batch = <<>> /\ ~ConnectorQueued
    BY <1>5 DEF KeepaliveTimer, LoopIdle, attemptVars, callVars, Pending
  <2>2. NoneQueued
    BY <2>1, QueueOfNone
  <2>3. NoneQueued'
    BY <2>1, <2>2 DEF NoneQueued
  <2>4. state_ # "kConnecting"
    BY <2>2 DEF SafeInv, NoneQueued
  <2>5. ~connect_' \/ state_' = "kConnected"
    BY <2>1 DEF SafeInv
  <2> QED BY <1>a, <2>1, <2>3, <2>4, <2>5 DEF SafeInv
<1>6. CASE SwapFunctors
  <2>1. /\ UNCHANGED <<client, call, doing, touched, connect_, keepalive, state_, closeCallback>>
        /\ Pending' = Pending
    BY <1>0, <1>6, TwoQueues DEF SwapFunctors, LoopIdle, clientVars, callVars, Pending
  <2>2. \A s \in Sockets : fd'[s] \in {"new", "up"} => fd[s] \in {"new", "up"}
    BY <1>6 DEF SwapFunctors
  <2> QED BY <2>1, <2>2, SafeKept DEF Keeps
<1>7. CASE RunConnectionFunctor
  <2> DEFINE s == Head(batch).s
  <2>1. /\ batch # <<>> /\ batch' = Tail(batch)
        /\ UNCHANGED <<client, call, connect_, keepalive, state_>>
    BY <1>7 DEF RunConnectionFunctor, callVars
  <2>2. s \in Sockets /\ Head(batch) = Functor(Head(batch).f, s) /\ Head(batch).f \notin ConnectorFunctors
    BY <1>7, <2>1, HeadTypes DEF RunConnectionFunctor
  <2>3. Head(batch) \notin {Start, Stop, Reset}
    BY <2>2 DEF Start, Stop, Reset, Functor, ConnectorFunctors
  <2>4. CASE Head(batch).f = "forceClose" /\ removeConnection(s) /\ UNCHANGED closeCallback
    <3>1. Head(batch) = ForceClose(s) /\ Destroy(s) \in FunctorSet /\ Destroy(s) # Head(batch)
      BY <2>2, <2>4, Distinct DEF ForceClose
    <3>2. OthersKept({Destroy(s), Head(batch)})
      BY <1>0, <1>c, <2>1, <2>2, <2>4, <3>1, TakenOne
    <3>3. \A x \in {Start, Stop, Reset} : Keeps(Pending, Pending', x)
      BY <2>2, <2>3, <3>2, Distinct DEF OthersKept
    <3> QED BY <1>c, <2>1, <2>2, <2>4, <3>3, SafeKept
  <2>5. CASE queue' = queue
    <3>1. OthersKept({Head(batch)})
      BY <1>0, <2>1, <2>5, TakenNone
    <3>2. \A x \in {Start, Stop, Reset} : Keeps(Pending, Pending', x)
      BY <2>3, <3>1 DEF OthersKept
    <3>3. CASE fd' = [fd EXCEPT ![s] = "closed"] /\ UNCHANGED <<closeCallback, doing, touched>>
      <4>1. \A t \in Sockets : fd'[t] \in {"new", "up"} => fd[t] \in {"new", "up"}
        BY <1>0, <3>3
      <4> QED BY <2>1, <3>2, <3>3, <4>1, SafeKept
    <3>4. CASE closeCallback' = [closeCallback EXCEPT ![s] = "detached"] /\ UNCHANGED <<fd, doing, touched>>
      <4>1. \A t \in Sockets : closeCallback'[t] \in {closeCallback[t], "detached"}
        BY <1>0, <3>4
      <4> QED BY <2>1, <3>2, <3>4, <4>1, SafeKept
    <3>5. CASE UNCHANGED <<fd, closeCallback, doing, touched>>
      BY <2>1, <3>2, <3>5, SafeKept
    <3>6. CASE Head(batch).f = "forceClose" /\ removeConnection(s) /\ UNCHANGED closeCallback
      BY <2>4, <3>6
    <3> QED BY <1>7, <3>3, <3>4, <3>5, <3>6 DEF RunConnectionFunctor
  <2> QED BY <1>7, <2>4, <2>5 DEF RunConnectionFunctor
<1>8. CASE UNCHANGED vars
  <2>1. /\ UNCHANGED <<client, call, doing, touched, connect_, keepalive, state_, closeCallback, fd>>
        /\ Pending' = Pending
    BY <1>8 DEF vars, attemptVars, clientVars, callVars, Pending
  <2> QED BY <2>1, SafeKept DEF Keeps
<1> QED BY <1>1, <1>2, <1>3, <1>4, <1>5, <1>6, <1>7, <1>8 DEF Next, LoopThread

\* Every step keeps a safely destroyed client out of reach.
LEMMA DeadInductive == TypeOK /\ SocketInv /\ DeadInv /\ [Next]_vars => DeadInv'
<1> SUFFICES ASSUME TypeOK, SocketInv, DeadInv, [Next]_vars PROVE DeadInv'
  OBVIOUS
<1>1. /\ client = "gone" => client' = "gone"
      /\ dtor' = dtor \/ client' = "gone"
      /\ dtor' = dtor \/ dtor' = "racing" \/ destroyHere
      /\ touched' = touched \/ client = "gone"
  <2>1. CASE destroyHere
    BY <2>1 DEF destroyHere, Leave
  <2>2. CASE Finish
    BY <2>2 DEF Finish, Leave
  <2>3. CASE Attempt \/ newConnection \/ Restart \/ RunConnectorFunctor
    BY <2>3 DEF Attempt, newConnection, Restart, RunConnectorFunctor, ConnectorGone, TypeOK
  <2>4. CASE ConnectionCloses \/ RunConnectionFunctor
    BY <2>4 DEF ConnectionCloses, RunConnectionFunctor, removeConnection, TypeOK
  <2>5. CASE RetryTimer \/ KeepaliveTimer \/ SwapFunctors \/ connectHere \/ stopHere \/ disconnect \/ Begin \/ UNCHANGED vars
    BY <2>5 DEF RetryTimer, KeepaliveTimer, SwapFunctors, connectHere, stopHere, disconnect, Begin, vars, clientVars
  <2> QED BY <2>1, <2>2, <2>3, <2>4, <2>5 DEF Next, LoopThread
<1>2. touched' \/ dtor' # "none" => client' = "gone"
  BY <1>1 DEF DeadInv
<1>3. ASSUME dtor' = "safe", ~asserted' PROVE SafeInv'
  <2>1. ~asserted /\ SocketParts
    BY <1>3, AssertedStays DEF SocketInv, SocketParts
  <2>2. CASE dtor = "safe"
    BY <1>3, <2>1, <2>2, SafeInductive DEF DeadInv
  <2>3. CASE dtor # "safe"
    <3>1. destroyHere
      BY <1>1, <1>3, <2>3
    <3>2. ~touched
      BY <3>1 DEF destroyHere, DeadInv
    <3> QED BY <1>3, <2>1, <3>1, <3>2, SafelyDestroyed
  <2> QED BY <2>2, <2>3
<1> QED BY <1>2, <1>3 DEF DeadInv

\* A TcpClient that is destroyed in its loop thread, with no functor of its Connector queued if it
\* has a connection, is not used afterwards, nor is its Connector, whatever attempt, timer or
\* connection it leaves behind: the close callback is another one (TcpClient.cc:71-74), the
\* functors bound to the raw Connector (Connector.cc:36, 57, 143) run while the one-second timer
\* holds it (TcpClient.cc:83), and the retry timers hold it themselves (Connector.cc:210).
THEOREM DeadClientStaysUntouched == Spec => []DeadClientUntouched
<1>1. Init => DeadInv
  BY DEF Init, DeadInv
<1>2. DeadInv => DeadClientUntouched
  BY DEF DeadInv, SafeInv, DeadClientUntouched
<1> QED BY <1>1, <1>2, DeadInductive, TypeCorrect, SocketInvariant, PTL DEF Spec

=============================================================================
