------------------------ MODULE TcpConnectionProofs ------------------------
(***************************************************************************)
(* Proofs about TcpConnection for any number of threads and calls, any     *)
(* message length and any high-water mark.                                 *)
(***************************************************************************)
EXTENDS TcpConnection, SequenceTheorems, TLAPS

FunctorNames == {"connectEstablished", "connectDestroyed", "send", "shutdown", "forceClose",
                 "startRead", "stopRead", "writeComplete", "highWater"}
CallbackNames == {"close", "error", "read", "write"}

\* The types of the variables.
TypeOK ==
    /\ state_ \in StateE /\ reading_ \in BOOLEAN
    /\ outputBuffer_ \in Seq(Nat) /\ wire \in Seq(Nat) /\ accepted \in Nat
    /\ events_ \subseteq Requested /\ index_ \in {"kNew", "kAdded", "kDeleted"}
    /\ revived \in BOOLEAN
    /\ queue \in Seq(FunctorNames) /\ batch \in Seq(FunctorNames)
    /\ todo \in Seq(CallbackNames)
    /\ phase \in {"poll", "active", "handle", "functors"}
    /\ user \in {"none", "callback", "down", "destroy"}
    /\ racing \in [Threads -> Ops \cup {"none"}] /\ calls \in Nat /\ offCalls \in Nat
    /\ delayed \in BOOLEAN /\ removing \in Nat /\ server \in {"owns", "erased", "gone"}
    /\ finSent \in BOOLEAN /\ peerFin \in BOOLEAN /\ broken \in BOOLEAN
    /\ ups \in Nat /\ closes \in Nat /\ destroyed \in Nat

\* Bytes taken and lost to a dead socket leave the buffer empty and no writing asked for, so
\* that nothing is ever buffered behind the gap.
StreamInv ==
    /\ StreamInOrder
    /\ Len(wire) + Len(outputBuffer_) # accepted => DirectWrite

\* The functors that wait, in the order they run.
Pending == batch \o queue

\* How often a functor waits: not at all, at most once.
Absent(s, name) == \A i \in 1..Len(s) : s[i] # name
Once(s, name) == \A i, j \in 1..Len(s) : s[i] = name /\ s[j] = name => i = j

\* The callbacks that can end a connection; of one event they come at most once.
Ending == {"read", "close"}
NoneEnds(s) == \A i \in 1..Len(s) : s[i] \notin Ending
OneEnds(s) == \A i, j \in 1..Len(s) : s[i] \in Ending /\ s[j] \in Ending => i = j

\* Where the loop is: a batch is run in its phase only, callbacks are made in theirs.
LoopInv ==
    /\ phase # "functors" => batch = <<>>
    /\ phase \in {"poll", "functors"} => todo = <<>>
    /\ OneEnds(todo)

LateCalls == {"shutdown", "forceClose", "forceCloseWithDelay"}

\* Until connectEstablished, the first functor, has run, nothing has happened.
Fresh ==
    /\ Pending # <<>> /\ Pending[1] = "connectEstablished"
    /\ ups = 0 /\ events_ = {} /\ outputBuffer_ = <<>> /\ index_ = "kNew" /\ user = "none"
    /\ todo = <<>> /\ ~delayed /\ ~finSent /\ closes = 0 /\ destroyed = 0
    /\ \A t \in Threads : racing[t] \notin LateCalls

StartInv ==
    /\ Once(Pending, "connectEstablished")
    /\ state_ = "kConnecting" => Fresh
    /\ state_ # "kConnecting" => ups = 1 /\ Absent(Pending, "connectEstablished")

WriteInv == WritingIffBuffered /\ FinAfterData

\* A connection that is closed and not revived is out of the epoll set with no callback left
\* that could close it or read; it is closed once, and whoever is to destroy it is unique.
Quiet == Closed => index_ # "kAdded" /\ NoneEnds(todo)

Closing ==
    /\ closes > 0 => state_ = "kDisconnected"
    /\ closes = removing + (IF user = "down" THEN 1 ELSE 0) + (IF server = "erased" THEN 1 ELSE 0)
    /\ closes <= 1

Destroying ==
    /\ server = "owns" => destroyed = 0 /\ Absent(Pending, "connectDestroyed")
    /\ destroyed <= 1
    /\ destroyed = 1 => Absent(Pending, "connectDestroyed")
    /\ Once(Pending, "connectDestroyed")

CloseInv == ~revived => Quiet /\ Closing /\ Destroying

-----------------------------------------------------------------------------
(* Types *)

\* An update of the channel keeps the types of its mask and of its registration.
LEMMA UpdateType ==
    ASSUME TypeOK, NEW ev \in SUBSET Requested, register(ev)
    PROVE  events_' \subseteq Requested /\ index_' \in {"kNew", "kAdded", "kDeleted"}
  BY DEF TypeOK, register

\* The five changes of a mask stay within what a channel can ask for.
LEMMA MaskType ==
    ASSUME NEW ev \in SUBSET Requested
    PROVE  /\ enableReading(ev) \in SUBSET Requested /\ disableReading(ev) \in SUBSET Requested
           /\ enableWriting(ev) \in SUBSET Requested /\ disableWriting(ev) \in SUBSET Requested
           /\ disableAll(ev) \in SUBSET Requested
  BY DEF enableReading, disableReading, enableWriting, disableWriting, disableAll, Requested,
         kReadEvent, kWriteEvent, kNoneEvent

\* sendInLoop keeps the types of what it changes.
LEMMA SendType ==
    ASSUME TypeOK, sendInLoop(queue)
    PROVE  /\ outputBuffer_' \in Seq(Nat) /\ wire' \in Seq(Nat) /\ accepted' \in Nat
           /\ events_' \subseteq Requested /\ index_' \in {"kNew", "kAdded", "kDeleted"}
           /\ revived' \in BOOLEAN /\ queue' \in Seq(FunctorNames)
<1> USE DEF TypeOK, dataVars, chanVars
<1>1. CASE state_ = "kDisconnected" /\ queue' = queue /\ UNCHANGED <<dataVars, chanVars>>
  BY <1>1
<1>2. CASE /\ DirectWrite /\ SocketDead /\ accepted' = accepted + MsgLen /\ queue' = queue
           /\ UNCHANGED <<outputBuffer_, wire, chanVars>>
  BY <1>2, SizesAssumption
<1>3. CASE /\ ~(DirectWrite /\ SocketDead) /\ state_ # "kDisconnected"
  <2>1. PICK k \in 0..(IF DirectWrite THEN MsgLen ELSE 0) :
             LET left == SubSeq(Bytes(MsgLen), k + 1, MsgLen) IN
             /\ wire' = wire \o SubSeq(Bytes(MsgLen), 1, k)
             /\ outputBuffer_' = outputBuffer_ \o left
             /\ IF left # <<>> /\ ~isWriting(events_)
                THEN updateChannel(enableWriting(events_)) ELSE UNCHANGED chanVars
             /\ queue' = queue \o
                    (IF left = <<>> THEN <<"writeComplete">>
                     ELSE IF Crosses(Len(outputBuffer_), Len(left)) THEN <<"highWater">>
                     ELSE <<>>)
    BY <1>3 DEF sendInLoop
  <2> DEFINE left == SubSeq(Bytes(MsgLen), k + 1, MsgLen)
  <2>2. k \in 0..MsgLen /\ MsgLen \in Nat
    BY SizesAssumption
  <2>3. Bytes(MsgLen) \in Seq(Nat) /\ Len(Bytes(MsgLen)) = MsgLen
    BY <2>2 DEF Bytes
  <2>4. left \in Seq(Nat) /\ SubSeq(Bytes(MsgLen), 1, k) \in Seq(Nat)
    <3>1. \A i \in 1..MsgLen : Bytes(MsgLen)[i] \in Nat
      BY <2>2 DEF Bytes
    <3>2. k + 1 \in Int /\ MsgLen \in Int /\ k \in Int /\ 1 \in Int
      BY <2>2
    <3>3. \A i \in (k + 1)..MsgLen : Bytes(MsgLen)[i] \in Nat
      BY <2>2, <3>1
    <3>4. \A i \in 1..k : Bytes(MsgLen)[i] \in Nat
      BY <2>2, <3>1
    <3> QED BY <3>2, <3>3, <3>4, SubSeqProperties
  <2>5. outputBuffer_' \in Seq(Nat) /\ wire' \in Seq(Nat) /\ accepted' \in Nat
    <3>1. /\ wire' = wire \o SubSeq(Bytes(MsgLen), 1, k) /\ outputBuffer_' = outputBuffer_ \o left
      BY <2>1
    <3>2. accepted' = accepted + MsgLen
      BY <1>3 DEF sendInLoop
    <3>3. outputBuffer_ \in Seq(Nat) /\ wire \in Seq(Nat) /\ accepted \in Nat
      BY DEF TypeOK
    <3> HIDE DEF left
    <3> QED BY ONLY <2>2, <2>4, <3>1, <3>2, <3>3
  <2>6. queue' \in Seq(FunctorNames)
    <3>1. <<"writeComplete">> \in Seq(FunctorNames) /\ <<"highWater">> \in Seq(FunctorNames)
          /\ <<>> \in Seq(FunctorNames)
      BY DEF FunctorNames
    <3> QED BY <2>1, <3>1
  <2>7. CASE left # <<>> /\ ~isWriting(events_)
    <3>1. updateChannel(enableWriting(events_))
      BY <2>1, <2>7
    <3> QED BY <3>1, <2>5, <2>6, UpdateType, MaskType DEF updateChannel
  <2>8. CASE ~(left # <<>> /\ ~isWriting(events_))
    BY <2>1, <2>8, <2>5, <2>6
  <2> QED BY <2>7, <2>8
<1> QED BY <1>1, <1>2, <1>3 DEF sendInLoop

\* handleClose and forceCloseInLoop keep the types of what they change.
LEMMA CloseType ==
    ASSUME TypeOK, forceCloseInLoop \/ handleClose
    PROVE  /\ state_' \in StateE /\ events_' \subseteq Requested
           /\ index_' \in {"kNew", "kAdded", "kDeleted"} /\ revived' \in BOOLEAN
           /\ ups' \in Nat /\ closes' \in Nat /\ destroyed' \in Nat
           /\ user' \in {"none", "callback", "down", "destroy"}
<1>1. CASE handleClose
  <2>1. events_' \subseteq Requested /\ index_' \in {"kNew", "kAdded", "kDeleted"}
    BY <1>1, UpdateType, MaskType DEF handleClose, TypeOK
  <2>2. revived' \in BOOLEAN
    BY <1>1 DEF handleClose
  <2> QED BY <1>1, <2>1, <2>2 DEF handleClose, TypeOK, StateE
<1>2. CASE ~handleClose
  BY <1>2 DEF forceCloseInLoop, TypeOK, chanVars, histVars
<1> QED BY <1>1, <1>2

\* startReadInLoop and stopReadInLoop keep the types of what they change.
LEMMA ReadType ==
    ASSUME TypeOK, NEW op, readInLoop(op)
    PROVE  /\ events_' \subseteq Requested /\ index_' \in {"kNew", "kAdded", "kDeleted"}
           /\ revived' \in BOOLEAN /\ reading_' \in BOOLEAN
<1>1. \/ UNCHANGED chanVars
      \/ updateChannel(enableReading(events_)) \/ updateChannel(disableReading(events_))
  BY DEF readInLoop, startReadInLoop, stopReadInLoop
<1>2. reading_' \in BOOLEAN
  BY DEF readInLoop, startReadInLoop, stopReadInLoop
<1>3. CASE UNCHANGED chanVars
  BY <1>2, <1>3 DEF chanVars, TypeOK
<1>4. CASE updateChannel(enableReading(events_)) \/ updateChannel(disableReading(events_))
  <2>1. revived' \in BOOLEAN
    BY <1>4 DEF updateChannel
  <2> QED BY <1>2, <1>4, <2>1, UpdateType, MaskType DEF updateChannel, TypeOK
<1> QED BY <1>1, <1>3, <1>4

\* What handleEventWithGuard is to call is a sequence of callbacks.
LEMMA CallbacksType ==
    ASSUME NEW r
    PROVE  Callbacks(r) \in Seq(CallbackNames)
<1> DEFINE If(b, cb) == IF b THEN <<cb>> ELSE <<>>

<1>3. "close" \in CallbackNames /\ "error" \in CallbackNames /\ "read" \in CallbackNames
      /\ "write" \in CallbackNames
  BY DEF CallbackNames
<1> HIDE DEF If
<1>4. /\ If("HUP" \in r /\ "IN" \notin r, "close") \in Seq(CallbackNames)
      /\ If("ERR" \in r, "error") \in Seq(CallbackNames)
      /\ If("IN" \in r, "read") \in Seq(CallbackNames)
      /\ If("OUT" \in r, "write") \in Seq(CallbackNames)
  BY <1>3 DEF If
<1>5. Callbacks(r) = If("HUP" \in r /\ "IN" \notin r, "close") \o If("ERR" \in r, "error")
                     \o If("IN" \in r, "read") \o If("OUT" \in r, "write")
  BY DEF Callbacks, If
<1> QED BY <1>4, <1>5

\* Every variable of the connection keeps its type.
THEOREM TypeCorrect == SafetySpec => []TypeOK
<1>1. Init => TypeOK
  <2> SUFFICES ASSUME Init PROVE TypeOK
    OBVIOUS
  <2>1. queue \in Seq(FunctorNames)
    BY DEF Init, FunctorNames
  <2>2. racing \in [Threads -> Ops \cup {"none"}]
    BY DEF Init
  <2>3. events_ \subseteq Requested
    BY DEF Init, kNoneEvent
  <2>4. /\ reading_ \in BOOLEAN /\ revived \in BOOLEAN /\ delayed \in BOOLEAN
        /\ finSent \in BOOLEAN /\ peerFin \in BOOLEAN /\ broken \in BOOLEAN
    BY DEF Init
  <2>5. /\ outputBuffer_ \in Seq(Nat) /\ wire \in Seq(Nat) /\ batch \in Seq(FunctorNames)
        /\ todo \in Seq(CallbackNames)
    BY DEF Init
  <2> QED BY <2>1, <2>2, <2>3, <2>4, <2>5 DEF Init, TypeOK, StateE
<1>2. TypeOK /\ [Next]_vars => TypeOK'
  <2> SUFFICES ASSUME TypeOK, [Next]_vars PROVE TypeOK'
    OBVIOUS
  <2> USE DEF TypeOK, StateE, dataVars, chanVars, netVars, histVars, callVars, loopVars
  <2>1. CASE UserReturns
    BY <2>1 DEF UserReturns
  <2>2. CASE handleEvent
    BY <2>2 DEF handleEvent
  <2>3. CASE Handlers
    <3> USE DEF Handling
    <3>1. CASE ReadData BY <3>1 DEF ReadData
    <3>2. CASE ReadEof BY <3>2, CloseType DEF ReadEof
    <3>3. CASE ReadError BY <3>3 DEF ReadError
    <3>4. CASE handleWrite
      <4>1. PICK k \in 1..Len(outputBuffer_) :
              /\ wire' = wire \o SubSeq(outputBuffer_, 1, k)
              /\ outputBuffer_' = SubSeq(outputBuffer_, k + 1, Len(outputBuffer_))
        BY <3>4 DEF handleWrite
      <4>2. SubSeq(outputBuffer_, 1, k) \in Seq(Nat) /\ outputBuffer_' \in Seq(Nat)
        <5>1. k \in Int /\ 1 \in Int /\ k + 1 \in Int /\ Len(outputBuffer_) \in Int
          OBVIOUS
        <5>2. /\ \A i \in 1..k : outputBuffer_[i] \in Nat
              /\ \A i \in (k + 1)..Len(outputBuffer_) : outputBuffer_[i] \in Nat
          OBVIOUS
        <5> QED BY <4>1, <5>1, <5>2, SubSeqProperties
      <4>3. wire' \in Seq(Nat)
        BY <4>1, <4>2
      <4>4. CASE outputBuffer_' = <<>>
        <5>1. updateChannel(disableWriting(events_)) /\ queue' = Append(queue, "writeComplete")
              /\ finSent' \in BOOLEAN
          BY <3>4, <4>4 DEF handleWrite
        <5>2. queue' \in Seq(FunctorNames)
          BY <5>1 DEF FunctorNames
        <5>3. events_' \subseteq Requested /\ index_' \in {"kNew", "kAdded", "kDeleted"}
              /\ revived' \in BOOLEAN
          BY <5>1, UpdateType, MaskType DEF updateChannel
        <5> QED BY <3>4, <4>2, <4>3, <5>1, <5>2, <5>3, SMTT(30) DEF handleWrite
      <4>5. CASE outputBuffer_' # <<>>
        <5>1. UNCHANGED <<chanVars, queue, finSent>>
          BY <3>4, <4>5 DEF handleWrite
        <5>2. UNCHANGED <<state_, reading_, accepted, netVars, histVars, callVars, user, delayed,
                          removing, server, batch, phase>> /\ todo' = Tail(todo) /\ todo # <<>>
          BY <3>4 DEF handleWrite
        <5> QED BY <4>2, <4>3, <5>1, <5>2
      <4> QED BY <4>4, <4>5
    <3>5. CASE WriteNothing BY <3>5 DEF WriteNothing
    <3>6. CASE HandleHup BY <3>6, CloseType DEF HandleHup
    <3>7. CASE handleError BY <3>7 DEF handleError
    <3> QED BY <2>3, <3>1, <3>2, <3>3, <3>4, <3>5, <3>6, <3>7 DEF Handlers
  <2>4. CASE Functors
    <3> USE DEF Functor
    <3>1. CASE connectEstablished
      BY <3>1, UpdateType, MaskType DEF connectEstablished, updateChannel
    <3>2. CASE connectDestroyed
      <4>1. CASE state_ = "kConnected"
        <5>1. updateChannel(disableAll(events_)) /\ state_' = "kDisconnected" /\ user' = "destroy"
          BY <3>2, <4>1 DEF connectDestroyed
        <5>2. revived' \in BOOLEAN
          BY <5>1 DEF updateChannel
        <5>3. events_' \subseteq Requested /\ index_' \in {"kNew", "kAdded", "kDeleted"}
          BY <5>1, UpdateType, MaskType DEF updateChannel
        <5> QED BY <3>2, <5>1, <5>2, <5>3 DEF connectDestroyed
      <4>2. CASE state_ # "kConnected"
        BY <3>2, <4>2 DEF connectDestroyed
      <4> QED BY <4>1, <4>2
    <3>3. CASE RunSend BY <3>3, SendType DEF RunSend
    <3>4. CASE RunShutdown BY <3>4 DEF RunShutdown, FinIfIdle
    <3>5. CASE RunForceClose BY <3>5, CloseType DEF RunForceClose
    <3>6. CASE RunRead BY <3>6, ReadType DEF RunRead
    <3>7. CASE RunCallback
      <4>1. \E name \in {"writeComplete", "highWater"} : Functor(name)
        BY <3>7 DEF RunCallback
      <4> QED BY <3>7, <4>1 DEF RunCallback
    <3> QED BY <2>4, <3>1, <3>2, <3>3, <3>4, <3>5, <3>6, <3>7 DEF Functors
  <2>5. CASE SwapPending BY <2>5 DEF SwapPending
  <2>6. CASE EndFunctors BY <2>6 DEF EndFunctors
  <2>7. CASE PollOther BY <2>7 DEF PollOther
  <2>8. CASE DelayFires BY <2>8, CloseType DEF DelayFires
  <2>9. CASE UserCalls
    <3> USE DEF InLoop
    <3>1. CASE UserSend BY <3>1, SendType DEF UserSend
    <3>2. CASE UserShutdown BY <3>2 DEF UserShutdown, FinIfIdle
    <3>3. CASE UserForceClose
      <4>1. queue' \in Seq(FunctorNames)
        <5>1. queue' = Append(queue, "forceClose") \/ queue' = queue
          BY <3>3 DEF UserForceClose
        <5>2. "forceClose" \in FunctorNames
          BY DEF FunctorNames
        <5>3. queue \in Seq(FunctorNames)
          OBVIOUS
        <5> HIDE DEF TypeOK
        <5> QED BY <5>1, <5>2, <5>3, AppendProperties
      <4>2. delayed' \in BOOLEAN
        BY <3>3 DEF UserForceClose
      <4> QED BY <3>3, <4>1, <4>2 DEF UserForceClose
    <3>4. CASE UserRead BY <3>4, ReadType DEF UserRead
    <3> QED BY <2>9, <3>1, <3>2, <3>3, <3>4 DEF UserCalls
  <2>10. CASE RemoveConnection BY <2>10 DEF RemoveConnection, FunctorNames
  <2>11. CASE ServerDies BY <2>11 DEF ServerDies, FunctorNames
  <2>12. ASSUME NEW r \in PossibleEvents, Poll(r) PROVE TypeOK'
    BY <2>12, CallbacksType DEF Poll
  <2>13. ASSUME NEW t \in Threads, NEW op \in OffLoopOps, Begin(t, op) PROVE TypeOK'
    BY <2>13, OpsAssumption DEF Begin
  <2>14. ASSUME NEW t \in Threads, Finish(t) PROVE TypeOK'
    <3>1. queue' \in Seq(FunctorNames)
      <4>1. racing[t] = "forceCloseWithDelay" \/ FunctorOf(racing[t]) \in FunctorNames
        BY <2>14 DEF Finish, FunctorOf, Ops, FunctorNames
      <4>2. queue' = queue \/ (racing[t] # "forceCloseWithDelay"
                               /\ queue' = Append(queue, FunctorOf(racing[t])))
        BY <2>14 DEF Finish
      <4>3. queue \in Seq(FunctorNames)
        OBVIOUS
      <4> HIDE DEF TypeOK
      <4> QED BY <4>1, <4>2, <4>3
    <3>2. racing' \in [Threads -> Ops \cup {"none"}]
      BY <2>14 DEF Finish
    <3>3. delayed' \in BOOLEAN /\ revived' \in BOOLEAN
      BY <2>14 DEF Finish
    <3> QED BY <2>14, <3>1, <3>2, <3>3 DEF Finish
  <2>15. CASE PeerFin \/ PeerReset
    <3>1. peerFin' \in BOOLEAN /\ broken' \in BOOLEAN
      BY <2>15 DEF PeerFin, PeerReset
    <3> QED BY <2>15, <3>1, SMTT(30) DEF PeerFin, PeerReset
  <2>16. CASE UNCHANGED vars BY <2>16 DEF vars
  <2> QED BY <2>1, <2>2, <2>3, <2>4, <2>5, <2>6, <2>7, <2>8, <2>9, <2>10, <2>11, <2>12, <2>13,
             <2>14, <2>15, <2>16 DEF Next, LoopStep
<1> QED BY <1>1, <1>2, PTL DEF SafetySpec

-----------------------------------------------------------------------------
(* The stream *)

\* What the changes of a mask do to its writing bit, and that it shows in the mask.
LEMMA MaskWriting ==
    ASSUME NEW ev
    PROVE  /\ isWriting(enableReading(ev)) <=> isWriting(ev)
           /\ isWriting(disableReading(ev)) <=> isWriting(ev)
           /\ isWriting(enableWriting(ev))
           /\ ~isWriting(disableWriting(ev)) /\ ~isWriting(disableAll(ev))
           /\ isWriting(ev) => ~isNoneEvent(ev)
  BY DEF isWriting, enableReading, disableReading, enableWriting, disableWriting, disableAll,
         isNoneEvent, kReadEvent, kWriteEvent, kNoneEvent

\* Only sendInLoop and handleWrite touch the bytes; only sendInLoop asks for POLLOUT.
LEMMA DataSteps ==
    ASSUME TypeOK, [Next]_vars,
           ~UserSend, ~RunSend, ~handleWrite
    PROVE  /\ UNCHANGED dataVars
           /\ SocketDead => SocketDead'
           /\ isWriting(events_)' => isWriting(events_)
<1> USE DEF dataVars, chanVars, netVars, histVars, callVars, loopVars, SocketDead
<1> HIDE DEF TypeOK
<1>1. \A op : readInLoop(op) => (isWriting(events_)' => isWriting(events_))
  BY MaskWriting DEF readInLoop, startReadInLoop, stopReadInLoop, updateChannel, register
<1>2. handleClose \/ forceCloseInLoop => (isWriting(events_)' => isWriting(events_))
  BY MaskWriting DEF forceCloseInLoop, handleClose, register
<1>3. CASE UserReturns \/ handleEvent
  BY <1>3 DEF UserReturns, handleEvent
<1>4. CASE Handlers
  BY <1>2, <1>4 DEF Handlers, Handling, ReadData, ReadEof, ReadError, WriteNothing, HandleHup,
                    handleError
<1>5. CASE Functors
  <2> USE DEF Functor
  <2>1. CASE connectEstablished
    BY <2>1, MaskWriting DEF connectEstablished, updateChannel, register
  <2>2. CASE connectDestroyed
    BY <2>2, MaskWriting DEF connectDestroyed, updateChannel, register
  <2>3. CASE RunShutdown BY <2>3 DEF RunShutdown, FinIfIdle
  <2>4. CASE RunForceClose BY <2>4, <1>2 DEF RunForceClose
  <2>5. CASE RunRead BY <2>5, <1>1 DEF RunRead
  <2>6. CASE RunCallback BY <2>6 DEF RunCallback
  <2> QED BY <1>5, <2>1, <2>2, <2>3, <2>4, <2>5, <2>6 DEF Functors
<1>6. CASE SwapPending \/ EndFunctors \/ PollOther
  BY <1>6 DEF SwapPending, EndFunctors, PollOther
<1>7. CASE DelayFires BY <1>7, <1>2 DEF DelayFires
<1>8. CASE UserCalls
  <2>1. CASE UserShutdown BY <2>1 DEF UserShutdown, FinIfIdle
  <2>2. CASE UserForceClose BY <2>2 DEF UserForceClose
  <2>3. CASE UserRead BY <2>3, <1>1 DEF UserRead
  <2> QED BY <1>8, <2>1, <2>2, <2>3 DEF UserCalls
<1>9. CASE RemoveConnection \/ ServerDies
  BY <1>9 DEF RemoveConnection, ServerDies
<1>10. ASSUME NEW r \in PossibleEvents, Poll(r)
       PROVE  /\ UNCHANGED dataVars
              /\ SocketDead => SocketDead'
              /\ isWriting(events_)' => isWriting(events_)
  BY <1>10 DEF Poll
<1>11. ASSUME NEW t \in Threads, (\E op \in OffLoopOps : Begin(t, op)) \/ Finish(t)
       PROVE  /\ UNCHANGED dataVars
              /\ SocketDead => SocketDead'
              /\ isWriting(events_)' => isWriting(events_)
  BY <1>11 DEF Begin, Finish
<1>12. CASE PeerFin \/ PeerReset
  BY <1>12 DEF PeerFin, PeerReset
<1>13. CASE UNCHANGED vars
  BY <1>13 DEF vars
<1> QED BY <1>3, <1>4, <1>5, <1>6, <1>7, <1>8, <1>9, <1>10, <1>11, <1>12, <1>13 DEF Next, LoopStep

\* \o is associative.
LEMMA NatConcatAssociative ==
    ASSUME NEW u \in Seq(Nat), NEW v \in Seq(Nat), NEW w \in Seq(Nat)
    PROVE  (u \o v) \o w = u \o (v \o w)
  OBVIOUS

\* Cutting a sequence in two and moving the front behind another one changes nothing.
LEMMA MoveFront ==
    ASSUME NEW w \in Seq(Nat), NEW o \in Seq(Nat), NEW k \in 0..Len(o)
    PROVE  /\ SubSeq(o, 1, k) \in Seq(Nat) /\ SubSeq(o, k + 1, Len(o)) \in Seq(Nat)
           /\ w \o SubSeq(o, 1, k) \in Seq(Nat)
           /\ (w \o SubSeq(o, 1, k)) \o SubSeq(o, k + 1, Len(o)) = w \o o
<1>1. /\ 1 \in Int /\ k \in Int /\ k + 1 \in Int /\ Len(o) \in Int
      /\ \A i \in 1..k : o[i] \in Nat
      /\ \A i \in (k + 1)..Len(o) : o[i] \in Nat
  OBVIOUS
<1>2. SubSeq(o, 1, k) \in Seq(Nat) /\ SubSeq(o, k + 1, Len(o)) \in Seq(Nat)
  <2>1. SubSeq(o, 1, k) \in Seq(Nat)
    BY <1>1, SubSeqProperties, Zenon
  <2>2. SubSeq(o, k + 1, Len(o)) \in Seq(Nat)
    BY <1>1, SubSeqProperties, Zenon
  <2> QED BY <2>1, <2>2
<1>3. SubSeq(o, 1, k) \o SubSeq(o, k + 1, Len(o)) = o
  <2>1. 1 \in 1..Len(o) + 1 /\ k \in (1 - 1)..Len(o) /\ Len(o) \in k..Len(o)
    OBVIOUS
  <2>2. SubSeq(o, 1, k) \o SubSeq(o, k + 1, Len(o)) = SubSeq(o, 1, Len(o))
    BY <2>1, ConcatAdjacentSubSeq, Zenon
  <2>3. SubSeq(o, 1, Len(o)) = o
    BY SubSeqFull, Zenon
  <2> QED BY <2>2, <2>3
<1>4. (w \o SubSeq(o, 1, k)) \o SubSeq(o, k + 1, Len(o)) = w \o (SubSeq(o, 1, k) \o SubSeq(o, k + 1, Len(o)))
  BY <1>2, NatConcatAssociative, Zenon
<1>5. w \o SubSeq(o, 1, k) \in Seq(Nat)
  BY <1>2, ConcatProperties
<1> QED BY <1>2, <1>3, <1>4, <1>5

\* Numbers in order, and the next n behind them, are numbers in order.
LEMMA Numbered ==
    ASSUME NEW s \in Seq(Nat), \A i \in 1..Len(s) : s[i] = i, NEW n \in Nat,
           NEW b \in Seq(Nat), Len(b) = n, \A i \in 1..n : b[i] = Len(s) + i
    PROVE  /\ Len(s \o b) = Len(s) + n
           /\ \A i \in 1..Len(s \o b) : (s \o b)[i] = i
<1>1. /\ Len(s \o b) = Len(s) + n
      /\ \A i \in 1..(Len(s) + n) : (s \o b)[i] = IF i <= Len(s) THEN s[i] ELSE b[i - Len(s)]
  BY ConcatProperties
<1> QED BY <1>1

\* Where sendInLoop puts the bytes of a message: behind all the others, or, when the socket is
\* dead and nothing waits, nowhere.
LEMMA SendStream ==
    ASSUME TypeOK, StreamInv, sendInLoop(queue), UNCHANGED <<finSent, broken>>
    PROVE  StreamInv'
<1>1. /\ wire \in Seq(Nat) /\ outputBuffer_ \in Seq(Nat) /\ accepted \in Nat
      /\ MsgLen \in Nat \ {0}
  BY SizesAssumption DEF TypeOK
<1>2. wire \o outputBuffer_ \in Seq(Nat) /\ Len(wire \o outputBuffer_) = Len(wire) + Len(outputBuffer_)
  BY <1>1, ConcatProperties
<1>3. CASE state_ = "kDisconnected" /\ UNCHANGED <<dataVars, chanVars>>
  BY <1>3 DEF StreamInv, StreamInOrder, SocketDead, DirectWrite, dataVars, chanVars
<1>4. CASE /\ DirectWrite /\ SocketDead /\ accepted' = accepted + MsgLen
           /\ UNCHANGED <<outputBuffer_, wire, chanVars>>
  BY <1>4 DEF StreamInv, StreamInOrder, SocketDead, DirectWrite, chanVars
<1>5. CASE state_ # "kDisconnected" /\ ~(DirectWrite /\ SocketDead)
  <2> DEFINE b == Bytes(MsgLen)
  <2>1. Len(wire \o outputBuffer_) = accepted
    BY <1>2, <1>5 DEF StreamInv, StreamInOrder
  <2>2. b \in Seq(Nat) /\ Len(b) = MsgLen /\ \A i \in 1..MsgLen : b[i] = accepted + i
    BY <1>1 DEF Bytes
  <2>3. PICK k \in 0..(IF DirectWrite THEN MsgLen ELSE 0) :
          /\ wire' = wire \o SubSeq(b, 1, k)
          /\ outputBuffer_' = outputBuffer_ \o SubSeq(b, k + 1, MsgLen)
    BY <1>5 DEF sendInLoop
  <2>4. accepted' = accepted + MsgLen
    BY <1>5 DEF sendInLoop
  <2> HIDE DEF b
  <2>5. k \in 0..Len(b) /\ (k = 0 \/ outputBuffer_ = <<>>)
    BY <1>1, <2>2, <2>3 DEF DirectWrite
  <2>6. /\ SubSeq(b, 1, k) \in Seq(Nat) /\ SubSeq(b, k + 1, MsgLen) \in Seq(Nat)
        /\ wire' \in Seq(Nat) /\ wire' \o SubSeq(b, k + 1, MsgLen) = wire \o b
    BY <1>1, <2>2, <2>3, <2>5, MoveFront
  <2>7. outputBuffer_' \in Seq(Nat)
    BY <1>1, <2>3, <2>6, ConcatProperties
  <2>8. wire' \o outputBuffer_' = (wire \o outputBuffer_) \o b
    <3>1. CASE outputBuffer_ = <<>>
      <4>1. outputBuffer_' = SubSeq(b, k + 1, MsgLen) /\ wire \o outputBuffer_ = wire
        BY <3>1, <1>1, <2>3, <2>6, ConcatEmptySeq
      <4> QED BY <2>6, <4>1
    <3>2. CASE k = 0
      <4>1. SubSeq(b, 1, k) = <<>> /\ SubSeq(b, k + 1, MsgLen) = b
        BY <3>2, <2>2, SubSeqEmpty, SubSeqFull
      <4>2. wire' = wire /\ outputBuffer_' = outputBuffer_ \o b
        BY <1>1, <2>3, <4>1, ConcatEmptySeq
      <4>3. (wire \o outputBuffer_) \o b = wire \o (outputBuffer_ \o b)
        BY <1>1, <2>2, NatConcatAssociative, Zenon
      <4> QED BY <4>2, <4>3, Zenon
    <3> QED BY <2>5, <3>1, <3>2
  <2>9. /\ Len(wire' \o outputBuffer_') = accepted'
        /\ \A i \in 1..Len(wire' \o outputBuffer_') : (wire' \o outputBuffer_')[i] = i
    <3> DEFINE s == wire \o outputBuffer_
    <3>1. s \in Seq(Nat) /\ Len(s) = accepted /\ MsgLen \in Nat
          /\ \A i \in 1..MsgLen : b[i] = Len(s) + i
      BY <1>1, <1>2, <2>1, <2>2
    <3>2. \A i \in 1..Len(s) : s[i] = i
      BY DEF StreamInv, StreamInOrder
    <3> HIDE DEF s
    <3>3. Len(s \o b) = Len(s) + MsgLen /\ \A i \in 1..Len(s \o b) : (s \o b)[i] = i
      BY <2>2, <3>1, <3>2, Numbered
    <3>4. wire' \o outputBuffer_' = s \o b
      BY <2>8 DEF s
    <3> QED BY <2>4, <3>1, <3>3, <3>4
  <2>10. Len(wire' \o outputBuffer_') = Len(wire') + Len(outputBuffer_')
    BY <2>6, <2>7, ConcatProperties
  <2> QED BY <2>9, <2>10 DEF StreamInv, StreamInOrder
<1> QED BY <1>3, <1>4, <1>5 DEF sendInLoop

\* handleWrite moves the front of the buffer to the wire.
LEMMA WriteStream ==
    ASSUME TypeOK, StreamInv, handleWrite
    PROVE  StreamInv'
<1>1. wire \in Seq(Nat) /\ outputBuffer_ \in Seq(Nat)
  BY DEF TypeOK
<1>2. PICK k \in 1..Len(outputBuffer_) :
        /\ wire' = wire \o SubSeq(outputBuffer_, 1, k)
        /\ outputBuffer_' = SubSeq(outputBuffer_, k + 1, Len(outputBuffer_))
  BY DEF handleWrite
<1>3. k \in 0..Len(outputBuffer_)
  OBVIOUS
<1>4. wire' \in Seq(Nat) /\ outputBuffer_' \in Seq(Nat)
      /\ wire' \o outputBuffer_' = wire \o outputBuffer_
  BY <1>1, <1>2, <1>3, MoveFront
<1>5. Len(wire' \o outputBuffer_') = Len(wire') + Len(outputBuffer_')
  BY <1>4, ConcatProperties
<1>6. accepted' = accepted /\ Len(wire \o outputBuffer_) = accepted
  BY DEF handleWrite, StreamInv, StreamInOrder
<1> QED BY <1>4, <1>5, <1>6 DEF StreamInv, StreamInOrder

\* Every step keeps the stream in order.
LEMMA StreamInductive == TypeOK /\ StreamInv /\ [Next]_vars => StreamInv'
<1> SUFFICES ASSUME TypeOK, StreamInv, [Next]_vars PROVE StreamInv'
  OBVIOUS
<1>1. CASE UserSend \/ RunSend
  BY <1>1, SendStream DEF UserSend, RunSend, Functor, netVars
<1>2. CASE handleWrite
  BY <1>2, WriteStream
<1>3. CASE ~UserSend /\ ~RunSend /\ ~handleWrite
  <2>1. UNCHANGED dataVars /\ (SocketDead => SocketDead')
        /\ (isWriting(events_)' => isWriting(events_))
    BY <1>3, DataSteps
  <2> QED BY <2>1 DEF StreamInv, StreamInOrder, DirectWrite, dataVars
<1> QED BY <1>1, <1>2, <1>3

\* The wire and then the buffer hold what was sent, in order and without a gap, and all of it
\* while the socket lives (TcpConnection.cc:132-183, 335-369).
THEOREM StreamStaysInOrder == SafetySpec => []StreamInOrder
<1>1. Init => StreamInv
  BY DEF Init, StreamInv, StreamInOrder, DirectWrite, isWriting, kNoneEvent
<1>2. StreamInv => StreamInOrder
  BY DEF StreamInv
<1> QED BY <1>1, <1>2, TypeCorrect, StreamInductive, PTL DEF SafetySpec

-----------------------------------------------------------------------------
(* The functors and the callbacks that wait *)

\* Putting a functor at the end of a queue.
LEMMA AppendQueue ==
    ASSUME NEW s \in Seq(FunctorNames), NEW x \in FunctorNames, NEW name
    PROVE  /\ Append(s, x) \in Seq(FunctorNames)
           /\ Append(s, x) # <<>>
           /\ s # <<>> => Append(s, x)[1] = s[1]
           /\ Absent(s, name) /\ x # name => Absent(Append(s, x), name)
           /\ Once(s, name) /\ x # name => Once(Append(s, x), name)
           /\ Absent(s, name) => Once(Append(s, x), name)
<1>1. /\ Len(Append(s, x)) = Len(s) + 1 /\ Append(s, x) \in Seq(FunctorNames)
      /\ \A i \in 1..Len(s) : Append(s, x)[i] = s[i]
      /\ Append(s, x)[Len(s) + 1] = x
  OBVIOUS
<1>2. \A i \in 1..Len(Append(s, x)) : i \in 1..Len(s) \/ i = Len(s) + 1
  BY <1>1
<1>3. Absent(s, name) /\ x # name => Absent(Append(s, x), name)
  BY <1>1, <1>2 DEF Absent
<1>4. Once(s, name) /\ x # name => Once(Append(s, x), name)
  BY <1>1, <1>2 DEF Once
<1>5. Absent(s, name) => Once(Append(s, x), name)
  BY <1>1, <1>2 DEF Absent, Once
<1>6. Append(s, x) # <<>>
  BY <1>1
<1>7. s # <<>> => Append(s, x)[1] = s[1]
  BY <1>1
<1> QED BY <1>1, <1>3, <1>4, <1>5, <1>6, <1>7

\* Taking the first functor of a queue.
LEMMA TailQueue ==
    ASSUME NEW s \in Seq(FunctorNames), s # <<>>, NEW name
    PROVE  /\ Tail(s) \in Seq(FunctorNames)
           /\ Absent(s, name) => Absent(Tail(s), name)
           /\ Once(s, name) => Once(Tail(s), name)
           /\ Once(s, name) /\ s[1] = name => Absent(Tail(s), name)
<1>1. /\ Tail(s) \in Seq(FunctorNames) /\ Len(Tail(s)) = Len(s) - 1
      /\ \A i \in 1..Len(Tail(s)) : Tail(s)[i] = s[i + 1] /\ i + 1 \in 1..Len(s) /\ i + 1 # 1
      /\ 1 \in 1..Len(s)
  OBVIOUS
<1>2. Absent(s, name) => Absent(Tail(s), name)
  BY <1>1 DEF Absent
<1>3. Once(s, name) => Once(Tail(s), name)
  <2> SUFFICES ASSUME Once(s, name), NEW i \in 1..Len(Tail(s)), NEW j \in 1..Len(Tail(s)),
                      Tail(s)[i] = name, Tail(s)[j] = name
               PROVE  i = j
    BY DEF Once
  <2>1. i + 1 = j + 1
    BY <1>1 DEF Once
  <2> QED BY <2>1
<1>4. Once(s, name) /\ s[1] = name => Absent(Tail(s), name)
  BY <1>1 DEF Once, Absent
<1> QED BY <1>1, <1>2, <1>3, <1>4

\* Making the first callback of an event.
LEMMA TailTodo ==
    ASSUME NEW s \in Seq(CallbackNames), s # <<>>
    PROVE  /\ NoneEnds(s) => NoneEnds(Tail(s)) /\ Head(s) \notin Ending
           /\ OneEnds(s) => OneEnds(Tail(s))
           /\ OneEnds(s) /\ Head(s) \in Ending => NoneEnds(Tail(s))
<1>1. /\ Len(Tail(s)) = Len(s) - 1 /\ Head(s) = s[1]
      /\ \A i \in 1..Len(Tail(s)) : Tail(s)[i] = s[i + 1] /\ i + 1 \in 1..Len(s) /\ i + 1 # 1
      /\ 1 \in 1..Len(s)
  OBVIOUS
<1>2. NoneEnds(s) => NoneEnds(Tail(s)) /\ Head(s) \notin Ending
  BY <1>1 DEF NoneEnds
<1>3. OneEnds(s) => OneEnds(Tail(s))
  <2> SUFFICES ASSUME OneEnds(s), NEW i \in 1..Len(Tail(s)), NEW j \in 1..Len(Tail(s)),
                      Tail(s)[i] \in Ending, Tail(s)[j] \in Ending
               PROVE  i = j
    BY DEF OneEnds
  <2>1. i + 1 = j + 1
    BY <1>1 DEF OneEnds
  <2> QED BY <2>1
<1>4. OneEnds(s) /\ Head(s) \in Ending => NoneEnds(Tail(s))
  BY <1>1 DEF OneEnds, NoneEnds
<1> QED BY <1>2, <1>3, <1>4

\* handleEventWithGuard reads or closes, never both (Channel.cc:88-119).
LEMMA CallbacksOneEnds ==
    ASSUME NEW r
    PROVE  OneEnds(Callbacks(r))
<1> DEFINE If(b, cb) == IF b THEN <<cb>> ELSE <<>>
<1> DEFINE c == If("HUP" \in r /\ "IN" \notin r, "close")
<1> DEFINE e == If("ERR" \in r, "error")
<1> DEFINE d == If("IN" \in r, "read")
<1> DEFINE w == If("OUT" \in r, "write")
<1>1. Callbacks(r) = c \o e \o d \o w
  BY DEF Callbacks
<1>2. CASE "IN" \in r
  <2>1. c = <<>> /\ d = <<"read">> /\ (e = <<>> \/ e = <<"error">>) /\ (w = <<>> \/ w = <<"write">>)
    BY <1>2
  <2> HIDE DEF c, e, d, w
  <2> QED BY <1>1, <2>1 DEF OneEnds, Ending
<1>3. CASE "IN" \notin r
  <2>1. d = <<>> /\ (c = <<>> \/ c = <<"close">>) /\ (e = <<>> \/ e = <<"error">>)
        /\ (w = <<>> \/ w = <<"write">>)
    BY <1>3
  <2> HIDE DEF c, e, d, w
  <2> QED BY <1>1, <2>1 DEF OneEnds, Ending
<1> QED BY <1>2, <1>3

\* The phases of the loop.
LEMMA LoopInductive == TypeOK /\ LoopInv /\ [Next]_vars => LoopInv'
<1> SUFFICES ASSUME TypeOK, LoopInv, [Next]_vars PROVE LoopInv'
  OBVIOUS
<1>0. /\ todo \in Seq(CallbackNames)
      /\ phase \in {"poll", "active", "handle", "functors"}
  BY DEF TypeOK
<1> USE DEF LoopInv, loopVars
<1>1. CASE UNCHANGED <<batch, todo, phase>>
  BY <1>1
<1>2. ASSUME NEW cb, Handling(cb) PROVE LoopInv'
  BY <1>0, <1>2, TailTodo DEF Handling
<1>3. ASSUME NEW name, Functor(name) PROVE LoopInv'
  BY <1>3 DEF Functor
<1>4. CASE handleEvent \/ PollOther \/ EndFunctors
  BY <1>4 DEF handleEvent, PollOther, EndFunctors
<1>5. CASE SwapPending
  BY <1>5 DEF SwapPending
<1>6. ASSUME NEW r \in PossibleEvents, Poll(r) PROVE LoopInv'
  BY <1>6, CallbacksOneEnds DEF Poll
<1>7. CASE Handlers
  BY <1>2, <1>7 DEF Handlers, ReadData, ReadEof, ReadError, handleWrite, WriteNothing, HandleHup,
                    handleError
<1>8. CASE Functors
  BY <1>3, <1>8 DEF Functors, connectEstablished, connectDestroyed, RunSend, RunShutdown,
                    RunForceClose, RunRead, RunCallback
<1>9. CASE DelayFires \/ UserReturns \/ RemoveConnection \/ ServerDies \/ PeerFin \/ PeerReset
  BY <1>1, <1>9 DEF DelayFires, UserReturns, RemoveConnection, ServerDies, PeerFin, PeerReset
<1>10. CASE UserCalls
  BY <1>1, <1>10 DEF UserCalls, UserSend, UserShutdown, UserForceClose, UserRead
<1>11. ASSUME NEW t \in Threads, (\E op \in OffLoopOps : Begin(t, op)) \/ Finish(t) PROVE LoopInv'
  BY <1>1, <1>11 DEF Begin, Finish
<1>12. CASE UNCHANGED vars
  BY <1>1, <1>12 DEF vars
<1> QED BY <1>4, <1>5, <1>6, <1>7, <1>8, <1>9, <1>10, <1>11, <1>12 DEF Next, LoopStep

\* What a functor queued by a caller can be.
CallNames == FunctorNames \ {"connectEstablished", "connectDestroyed"}

\* sendInLoop queues at most one callback.
LEMMA SendQueue ==
    ASSUME TypeOK, sendInLoop(queue)
    PROVE  queue' = queue \/ \E x \in CallNames : queue' = Append(queue, x)
<1>1. queue \in Seq(FunctorNames)
  BY DEF TypeOK
<1>2. \/ queue' = queue \/ queue' = queue \o <<>>
      \/ queue' = queue \o <<"writeComplete">> \/ queue' = queue \o <<"highWater">>
  BY DEF sendInLoop
<1>3. /\ queue \o <<>> = queue
      /\ queue \o <<"writeComplete">> = Append(queue, "writeComplete")
      /\ queue \o <<"highWater">> = Append(queue, "highWater")
  BY <1>1
<1>4. "writeComplete" \in CallNames /\ "highWater" \in CallNames
  BY DEF CallNames, FunctorNames
<1> QED BY <1>2, <1>3, <1>4

\* Two queues, the first of which is taken from and the second of which is added to.
LEMMA TwoQueues ==
    ASSUME NEW b \in Seq(FunctorNames), NEW q \in Seq(FunctorNames)
    PROVE  /\ b \o q \in Seq(FunctorNames)
           /\ b # <<>> => /\ b \o q # <<>> /\ (b \o q)[1] = Head(b)
                          /\ Tail(b) \o q = Tail(b \o q)
           /\ \A x \in FunctorNames : b \o Append(q, x) = Append(b \o q, x)
           /\ b = <<>> => b \o q = q
           /\ q \o <<>> = q
BY SMTT(30)

\* A functor is the first of those that wait; of the functors only send queues another.
LEMMA FunctorPending ==
    ASSUME TypeOK, Functors
    PROVE  /\ Pending \in Seq(FunctorNames) /\ Pending # <<>> /\ Pending[1] = Head(batch)
           /\ Pending' = Tail(Pending) \/ \E x \in CallNames : Pending' = Append(Tail(Pending), x)
<1>1. batch \in Seq(FunctorNames) /\ queue \in Seq(FunctorNames)
  BY DEF TypeOK
<1>2. /\ batch # <<>> /\ batch' = Tail(batch)
      /\ queue' = queue \/ \E x \in CallNames : queue' = Append(queue, x)
  <2> USE DEF Functor
  <2>1. CASE RunSend
    BY <2>1, SendQueue DEF RunSend
  <2>2. CASE ~RunSend
    BY <2>2 DEF Functors, connectEstablished, connectDestroyed, RunShutdown, RunForceClose,
                RunRead, RunCallback
  <2> QED BY <2>1, <2>2
<1>3. Tail(batch) \in Seq(FunctorNames)
  BY <1>1, <1>2
<1>4. Pending \in Seq(FunctorNames) /\ Pending # <<>> /\ Pending[1] = Head(batch)
      /\ Tail(batch) \o queue = Tail(Pending)
  BY <1>1, <1>2, TwoQueues DEF Pending
<1>5. \A x \in CallNames : Tail(batch) \o Append(queue, x) = Append(Tail(Pending), x)
  <2>1. \A x \in FunctorNames : Tail(batch) \o Append(queue, x) = Append(Tail(batch) \o queue, x)
    BY <1>1, <1>3, TwoQueues, Zenon
  <2> QED BY <1>4, <2>1, Zenon DEF CallNames
<1> QED BY <1>2, <1>4, <1>5 DEF Pending

\* Every other step queues at most one functor; connectDestroyed comes from the server.
LEMMA OtherPending ==
    ASSUME TypeOK, LoopInv, [Next]_vars, ~Functors
    PROVE  /\ Pending \in Seq(FunctorNames)
           /\ \/ Pending' = Pending
              \/ \E x \in CallNames : Pending' = Append(Pending, x)
              \/ /\ RemoveConnection \/ ServerDies
                 /\ Pending' = Append(Pending, "connectDestroyed")
<1>1. batch \in Seq(FunctorNames) /\ queue \in Seq(FunctorNames)
  BY DEF TypeOK
<1>2. /\ CallNames \subseteq FunctorNames /\ "connectDestroyed" \in FunctorNames
      /\ "forceClose" \in CallNames /\ "writeComplete" \in CallNames
      /\ \A op \in Ops : op = "forceCloseWithDelay" \/ FunctorOf(op) \in CallNames
  BY DEF CallNames, FunctorNames, Ops, FunctorOf
<1>3. CASE SwapPending
  BY <1>1, <1>3, TwoQueues DEF SwapPending, Pending, LoopInv
<1>4. CASE ~SwapPending
  <2> USE DEF loopVars
  <2> HIDE DEF TypeOK, LoopInv
  <2> DEFINE Goal == /\ batch' = batch
                     /\ \/ queue' = queue
                        \/ \E x \in CallNames : queue' = Append(queue, x)
                        \/ /\ RemoveConnection \/ ServerDies
                           /\ queue' = Append(queue, "connectDestroyed")
  <2>1. Goal
    <3>1. CASE Handlers
      BY <1>2, <3>1 DEF Handlers, Handling, ReadData, ReadEof, ReadError, handleWrite, WriteNothing,
                        HandleHup, handleError
    <3>2. CASE handleEvent \/ UserReturns \/ EndFunctors \/ PollOther \/ DelayFires
      BY <3>2 DEF handleEvent, UserReturns, EndFunctors, PollOther, DelayFires
    <3>3. CASE UserSend
      BY <3>3, SendQueue DEF UserSend
    <3>4. CASE UserShutdown \/ UserForceClose \/ UserRead
      BY <1>2, <3>4 DEF UserShutdown, UserForceClose, UserRead
    <3>5. CASE RemoveConnection \/ ServerDies
      BY <3>5 DEF RemoveConnection, ServerDies
    <3>6. ASSUME NEW r \in PossibleEvents, Poll(r) PROVE Goal
      BY <3>6 DEF Poll
    <3>7. ASSUME NEW t \in Threads, NEW op \in OffLoopOps, Begin(t, op) PROVE Goal
      BY <3>7 DEF Begin
    <3>8. ASSUME NEW t \in Threads, Finish(t) PROVE Goal
      <4>1. racing[t] \in Ops
        BY <3>8 DEF Finish, TypeOK
      <4> QED BY <1>2, <3>8, <4>1 DEF Finish
    <3>9. CASE PeerFin \/ PeerReset
      BY <3>9 DEF PeerFin, PeerReset
    <3>10. CASE UNCHANGED vars
      BY <3>10 DEF vars
    <3> QED BY <1>4, <3>1, <3>2, <3>3, <3>4, <3>5, <3>6, <3>7, <3>8, <3>9, <3>10
            DEF Next, LoopStep, UserCalls
  <2>2. Pending \in Seq(FunctorNames)
        /\ \A x \in FunctorNames : batch \o Append(queue, x) = Append(Pending, x)
    BY <1>1, TwoQueues DEF Pending
  <2> QED BY <1>2, <2>1, <2>2 DEF Pending
<1> QED BY <1>3, <1>4

-----------------------------------------------------------------------------
(* The start *)

\* Before connectEstablished nothing but the calls of other threads, the server and poll() can
\* move, and none of that leaves kConnecting.
LEMMA FreshSteps ==
    ASSUME TypeOK, LoopInv, StartInv, state_ = "kConnecting", [Next]_vars, ~connectEstablished
    PROVE  ~Functors /\ state_' = "kConnecting" /\ (Pending' # <<>> /\ Pending'[1] = "connectEstablished" => Fresh')
<1>1. Fresh
  BY DEF StartInv
<1>2. ~Functors
  <2> SUFFICES ASSUME Functors PROVE FALSE
    OBVIOUS
  <2>1. Head(batch) = "connectEstablished"
    BY <1>1, FunctorPending DEF Fresh
  <2> QED BY <2>1 DEF Functors, Functor, connectDestroyed, RunSend, RunShutdown, RunForceClose,
                      RunRead, RunCallback
<1>3. user = "none" /\ todo = <<>> /\ ~delayed /\ index_ = "kNew" /\ ups = 0
  BY <1>1 DEF Fresh
<1> DEFINE Same == UNCHANGED <<ups, events_, outputBuffer_, index_, user, todo, delayed, finSent,
                               closes, destroyed, state_>>
<1>4. CASE Same /\ racing' = racing
  BY <1>1, <1>2, <1>4 DEF Fresh
<1> USE DEF dataVars, chanVars, netVars, histVars, callVars, loopVars
<1>5. CASE handleEvent \/ PollOther \/ SwapPending \/ EndFunctors \/ RemoveConnection \/ ServerDies
  BY <1>4, <1>5 DEF handleEvent, PollOther, SwapPending, EndFunctors, RemoveConnection, ServerDies
<1>6. ASSUME NEW t \in Threads, NEW op \in OffLoopOps, Begin(t, op)
      PROVE  /\ state_' = "kConnecting"
             /\ Pending' # <<>> /\ Pending'[1] = "connectEstablished" => Fresh'
  <2>1. op \notin LateCalls /\ racing' = [racing EXCEPT ![t] = op] /\ Same
    BY <1>6 DEF Begin, LateCalls, Open
  <2>2. racing \in [Threads -> Ops \cup {"none"}]
    BY DEF TypeOK
  <2>3. \A u \in Threads : racing'[u] \notin LateCalls
    BY <1>1, <2>1, <2>2 DEF Fresh
  <2> QED BY <1>1, <2>1, <2>3 DEF Fresh
<1>7. ASSUME NEW t \in Threads, Finish(t)
      PROVE  /\ state_' = "kConnecting"
             /\ Pending' # <<>> /\ Pending'[1] = "connectEstablished" => Fresh'
  <2>1. racing[t] \notin LateCalls
    BY <1>1 DEF Fresh
  <2>2. racing' = [racing EXCEPT ![t] = "none"] /\ Same
    BY <1>7, <2>1 DEF Finish, LateCalls
  <2>3. racing \in [Threads -> Ops \cup {"none"}]
    BY DEF TypeOK
  <2>4. \A u \in Threads : racing'[u] \notin LateCalls
    BY <1>1, <2>2, <2>3 DEF Fresh, LateCalls
  <2> QED BY <1>1, <2>2, <2>4 DEF Fresh
<1>8. ~Handlers
  BY <1>3 DEF Handlers, Handling, ReadData, ReadEof, ReadError, handleWrite, WriteNothing, HandleHup,
              handleError
<1>9. /\ ~UserReturns /\ ~UserCalls /\ ~DelayFires /\ ~PeerFin /\ ~PeerReset
      /\ \A r \in PossibleEvents : ~Poll(r)
  BY <1>3 DEF UserReturns, UserCalls, UserSend, UserShutdown, UserForceClose, UserRead, InLoop,
              DelayFires, PeerFin, PeerReset, Poll
<1>10. CASE UNCHANGED vars
  BY <1>4, <1>10 DEF vars
<1> QED BY <1>2, <1>5, <1>6, <1>7, <1>8, <1>9, <1>10 DEF Next, LoopStep

\* No step but connectEstablished counts an "up" or leads back to kConnecting.
LEMMA UpSteps ==
    ASSUME TypeOK, [Next]_vars, ~connectEstablished
    PROVE  ups' = ups /\ (state_' = "kConnecting" => state_ = "kConnecting")
<1> USE DEF dataVars, chanVars, netVars, histVars, callVars, loopVars
<1> HIDE DEF TypeOK
<1>1. handleClose \/ forceCloseInLoop =>
        ups' = ups /\ (state_' = "kConnecting" => state_ = "kConnecting")
  BY DEF handleClose, forceCloseInLoop
<1>2. CASE Handlers
  BY <1>1, <1>2 DEF Handlers, Handling, ReadData, ReadEof, ReadError, handleWrite, WriteNothing,
                    HandleHup, handleError
<1>3. CASE Functors
  BY <1>1, <1>3 DEF Functors, Functor, connectDestroyed, RunSend, RunShutdown, RunForceClose,
                    RunRead, RunCallback
<1>4. CASE UserReturns \/ handleEvent \/ SwapPending \/ EndFunctors \/ PollOther \/ DelayFires
  BY <1>1, <1>4 DEF UserReturns, handleEvent, SwapPending, EndFunctors, PollOther, DelayFires
<1>5. CASE UserCalls
  BY <1>5 DEF UserCalls, UserSend, UserShutdown, UserForceClose, UserRead
<1>6. CASE RemoveConnection \/ ServerDies \/ PeerFin \/ PeerReset
  BY <1>6 DEF RemoveConnection, ServerDies, PeerFin, PeerReset
<1>7. CASE \E r \in PossibleEvents : Poll(r)
  BY <1>7 DEF Poll
<1>8. CASE \E t \in Threads : (\E op \in OffLoopOps : Begin(t, op)) \/ Finish(t)
  BY <1>8 DEF Begin, Finish
<1>9. CASE UNCHANGED vars
  BY <1>9 DEF vars
<1> QED BY <1>2, <1>3, <1>4, <1>5, <1>6, <1>7, <1>8, <1>9 DEF Next, LoopStep

\* connectEstablished finds the connection in kConnecting, as its assertion says
\* (TcpConnection.cc:292).
LEMMA EstablishedFirst ==
    ASSUME TypeOK, StartInv, connectEstablished
    PROVE  state_ = "kConnecting" /\ Fresh
<1>1. Pending \in Seq(FunctorNames) /\ Pending # <<>> /\ Pending[1] = "connectEstablished"
  BY FunctorPending DEF Functors, connectEstablished, Functor
<1>2. 1 \in 1..Len(Pending)
  BY <1>1
<1> QED BY <1>1, <1>2 DEF StartInv, Absent

\* connectEstablished runs once, before anything else.
LEMMA StartInductive == TypeOK /\ LoopInv /\ StartInv /\ [Next]_vars => StartInv'
<1> SUFFICES ASSUME TypeOK, LoopInv, StartInv, [Next]_vars PROVE StartInv'
  OBVIOUS
<1>0. \A x \in CallNames : x \in FunctorNames /\ x # "connectEstablished"
  BY DEF CallNames
<1>1. CASE Functors
  <2>1. /\ Pending \in Seq(FunctorNames) /\ Pending # <<>> /\ Pending[1] = Head(batch)
        /\ Pending' = Tail(Pending) \/ \E x \in CallNames : Pending' = Append(Tail(Pending), x)
    BY <1>1, FunctorPending
  <2>2. Once(Pending', "connectEstablished")
    <3>1. Once(Pending, "connectEstablished")
      BY DEF StartInv
    <3>2. Tail(Pending) \in Seq(FunctorNames) /\ Once(Tail(Pending), "connectEstablished")
      BY ONLY <2>1, <3>1, TailQueue
    <3> QED BY ONLY <1>0, <2>1, <3>2, AppendQueue
  <2>3. Absent(Pending, "connectEstablished") \/ Pending[1] = "connectEstablished"
        => Absent(Pending', "connectEstablished")
    <3>1. Once(Pending, "connectEstablished")
      BY DEF StartInv
    <3>2. /\ Tail(Pending) \in Seq(FunctorNames)
          /\ Absent(Pending, "connectEstablished") \/ Pending[1] = "connectEstablished"
             => Absent(Tail(Pending), "connectEstablished")
      BY <2>1, <3>1, TailQueue
    <3>3. \A x \in CallNames : Absent(Tail(Pending), "connectEstablished")
                               => Absent(Append(Tail(Pending), x), "connectEstablished")
      BY <1>0, <3>2, AppendQueue
    <3> QED BY <2>1, <3>2, <3>3
  <2>4. Absent(Pending', "connectEstablished")
    BY <2>3 DEF StartInv, Fresh
  <2>5. CASE connectEstablished
    <3>1. state_ = "kConnecting"
      BY <2>5, EstablishedFirst
    <3> QED BY <2>2, <2>4, <2>5, <3>1 DEF connectEstablished, StartInv, Fresh
  <2>6. CASE ~connectEstablished
    <3>1. state_ # "kConnecting"
      BY <1>1, <2>6, FreshSteps
    <3> QED BY <2>2, <2>4, <2>6, <3>1, UpSteps DEF StartInv
  <2> QED BY <2>5, <2>6
<1>2. CASE ~Functors
  <2>1. /\ Pending \in Seq(FunctorNames)
        /\ \/ Pending' = Pending
           \/ \E x \in FunctorNames : x # "connectEstablished" /\ Pending' = Append(Pending, x)
    <3>1. "connectDestroyed" \in FunctorNames
      BY DEF FunctorNames
    <3> QED BY <1>0, <1>2, <3>1, OtherPending
  <2>2. /\ Once(Pending', "connectEstablished")
        /\ Absent(Pending, "connectEstablished") => Absent(Pending', "connectEstablished")
        /\ Pending # <<>> => Pending' # <<>> /\ Pending'[1] = Pending[1]
    <3>1. Once(Pending, "connectEstablished")
      BY DEF StartInv
    <3>2. CASE Pending' = Pending
      BY <3>1, <3>2
    <3>3. ASSUME NEW x \in FunctorNames, x # "connectEstablished", Pending' = Append(Pending, x)
          PROVE  /\ Once(Pending', "connectEstablished")
                 /\ Absent(Pending, "connectEstablished") => Absent(Pending', "connectEstablished")
                 /\ Pending # <<>> => Pending' # <<>> /\ Pending'[1] = Pending[1]
      BY <2>1, <3>1, <3>3, AppendQueue
    <3> QED BY <2>1, <3>2, <3>3
  <2>3. ~connectEstablished
    BY <1>2 DEF Functors
  <2>4. CASE state_ = "kConnecting"
    <3>1. state_' = "kConnecting" /\ Fresh'
      BY <2>2, <2>3, <2>4, FreshSteps DEF StartInv, Fresh
    <3> QED BY <2>2, <3>1 DEF StartInv
  <2>5. CASE state_ # "kConnecting"
    BY <2>2, <2>3, <2>5, UpSteps DEF StartInv
  <2> QED BY <2>4, <2>5
<1> QED BY <1>1, <1>2

-----------------------------------------------------------------------------
(* Writing *)

\* A close is never forgotten: what is revived stays so.
LEMMA RevivedSticks ==
    ASSUME TypeOK, [Next]_vars, revived
    PROVE  revived'
<1> USE DEF dataVars, chanVars, netVars, histVars, callVars, loopVars
<1>1. (\E ev : updateChannel(ev)) \/ UNCHANGED chanVars => revived'
  BY DEF updateChannel
<1>2. handleClose \/ forceCloseInLoop => revived'
  BY DEF handleClose, forceCloseInLoop
<1>3. sendInLoop(queue) => revived'
  BY <1>1 DEF sendInLoop
<1>4. \A op : readInLoop(op) => revived'
  BY <1>1 DEF readInLoop, startReadInLoop, stopReadInLoop
<1> HIDE DEF TypeOK
<1>5. CASE Handlers
  BY <1>1, <1>2, <1>5 DEF Handlers, Handling, ReadData, ReadEof, ReadError, handleWrite,
                          WriteNothing, HandleHup, handleError
<1>6. CASE Functors
  BY <1>1, <1>2, <1>3, <1>4, <1>6 DEF Functors, Functor, connectEstablished, connectDestroyed,
              RunSend, RunShutdown, RunForceClose, RunRead, RunCallback
<1>7. CASE UserReturns \/ handleEvent \/ SwapPending \/ EndFunctors \/ PollOther \/ DelayFires
  BY <1>2, <1>7 DEF UserReturns, handleEvent, SwapPending, EndFunctors, PollOther, DelayFires
<1>8. CASE UserCalls
  BY <1>3, <1>4, <1>8 DEF UserCalls, UserSend, UserShutdown, UserForceClose, UserRead
<1>9. CASE RemoveConnection \/ ServerDies \/ PeerFin \/ PeerReset
  BY <1>9 DEF RemoveConnection, ServerDies, PeerFin, PeerReset
<1>10. CASE \E r \in PossibleEvents : Poll(r)
  BY <1>10 DEF Poll
<1>11. CASE \E t \in Threads : (\E op \in OffLoopOps : Begin(t, op)) \/ Finish(t)
  BY <1>11 DEF Begin, Finish
<1>12. CASE UNCHANGED vars
  BY <1>12 DEF vars
<1> QED BY <1>5, <1>6, <1>7, <1>8, <1>9, <1>10, <1>11, <1>12 DEF Next, LoopStep

\* A connection comes up by connectEstablished only, unless a late call revives it.
LEMMA OpenSteps ==
    ASSUME TypeOK, StartInv, [Next]_vars, ~connectEstablished, Alive'
    PROVE  Alive
<1> USE DEF dataVars, chanVars, netVars, histVars, callVars, loopVars
<1>1. ~revived
  BY RevivedSticks DEF Alive
<1> SUFFICES ASSUME state_ \notin Open PROVE FALSE
  BY <1>1 DEF Alive
<1>2. state_' \in Open /\ ~revived'
  BY DEF Alive
<1>3. \A t \in Threads : Finish(t) => state_' \notin Open \/ revived'
  <2> SUFFICES ASSUME NEW t \in Threads, Finish(t), state_' \in Open PROVE revived'
    OBVIOUS
  <2>1. racing[t] \in LateCalls /\ state_' # state_
    BY DEF Finish, LateCalls
  <2>2. state_ # "kConnecting"
    BY <2>1 DEF StartInv, Fresh
  <2>3. state_ = "kDisconnected"
    BY <2>2 DEF TypeOK, StateE, Open
  <2> QED BY <2>1, <2>3 DEF Finish
<1> HIDE DEF TypeOK, StartInv
<1>4. ~handleClose /\ ~(forceCloseInLoop /\ state_' # state_)
  BY <1>2 DEF handleClose, forceCloseInLoop, Open
<1>5. state_' # state_
  BY <1>2
<1>6. ~Handlers
  BY <1>4, <1>5 DEF Handlers, Handling, ReadData, ReadEof, ReadError, handleWrite, WriteNothing,
                    HandleHup, handleError
<1>7. ~Functors
  BY <1>2, <1>4, <1>5 DEF Functors, Functor, connectDestroyed, RunSend, RunShutdown,
                          RunForceClose, RunRead, RunCallback, Open
<1>8. ~(UserReturns \/ handleEvent \/ SwapPending \/ EndFunctors \/ PollOther \/ DelayFires)
  BY <1>4, <1>5 DEF UserReturns, handleEvent, SwapPending, EndFunctors, PollOther, DelayFires
<1>9. ~UserCalls
  BY <1>5 DEF UserCalls, UserSend, UserShutdown, UserForceClose, UserRead, Open
<1>10. ~(RemoveConnection \/ ServerDies \/ PeerFin \/ PeerReset)
  BY <1>5 DEF RemoveConnection, ServerDies, PeerFin, PeerReset
<1>11. ~(\E r \in PossibleEvents : Poll(r))
  BY <1>5 DEF Poll
<1>12. \A t \in Threads : ~(\E op \in OffLoopOps : Begin(t, op))
  BY <1>5 DEF Begin
<1>13. ~(UNCHANGED vars)
  BY <1>5 DEF vars
<1> QED BY <1>2, <1>3, <1>6, <1>7, <1>8, <1>9, <1>10, <1>11, <1>12, <1>13 DEF Next, LoopStep

\* Besides sendInLoop and handleWrite, what leaves a connection open keeps the buffer and the
\* interest in POLLOUT, and a FIN goes out only without that interest.
LEMMA WriteSteps ==
    ASSUME TypeOK, [Next]_vars, state_' \in Open,
           ~connectEstablished, ~UserSend, ~RunSend, ~handleWrite
    PROVE  /\ outputBuffer_' = outputBuffer_
           /\ isWriting(events_)' <=> isWriting(events_)
           /\ finSent' => finSent \/ ~isWriting(events_)
<1> USE DEF dataVars, chanVars, netVars, histVars, callVars, loopVars
<1> HIDE DEF TypeOK
<1> DEFINE Kept == /\ outputBuffer_' = outputBuffer_
                   /\ isWriting(events_)' <=> isWriting(events_)
                   /\ finSent' => finSent \/ ~isWriting(events_)
<1>1. \A op : readInLoop(op) => (isWriting(events_)' <=> isWriting(events_))
  BY MaskWriting DEF readInLoop, startReadInLoop, stopReadInLoop, updateChannel, register
<1>2. ~handleClose /\ (forceCloseInLoop => events_' = events_)
  BY DEF handleClose, forceCloseInLoop, Open
<1>3. CASE Handlers
  BY <1>2, <1>3 DEF Handlers, Handling, ReadData, ReadEof, ReadError, WriteNothing, HandleHup,
                    handleError
<1>4. CASE Functors
  <2> USE DEF Functor
  <2>1. CASE connectDestroyed BY <2>1 DEF connectDestroyed, Open
  <2>2. CASE RunShutdown BY <2>2 DEF RunShutdown, FinIfIdle
  <2>3. CASE RunForceClose BY <2>3, <1>2 DEF RunForceClose
  <2>4. CASE RunRead BY <2>4, <1>1 DEF RunRead
  <2>5. CASE RunCallback BY <2>5 DEF RunCallback
  <2> QED BY <1>4, <2>1, <2>2, <2>3, <2>4, <2>5 DEF Functors
<1>5. CASE UserReturns \/ handleEvent \/ SwapPending \/ EndFunctors \/ PollOther \/ DelayFires
  BY <1>2, <1>5 DEF UserReturns, handleEvent, SwapPending, EndFunctors, PollOther, DelayFires
<1>6. CASE UserCalls
  <2>1. CASE UserShutdown BY <2>1 DEF UserShutdown, FinIfIdle
  <2>2. CASE UserForceClose BY <2>2 DEF UserForceClose
  <2>3. CASE UserRead BY <2>3, <1>1 DEF UserRead
  <2> QED BY <1>6, <2>1, <2>2, <2>3 DEF UserCalls
<1>7. CASE RemoveConnection \/ ServerDies \/ PeerFin \/ PeerReset
  BY <1>7 DEF RemoveConnection, ServerDies, PeerFin, PeerReset
<1>8. CASE \E r \in PossibleEvents : Poll(r)
  BY <1>8 DEF Poll
<1>9. CASE \E t \in Threads : (\E op \in OffLoopOps : Begin(t, op)) \/ Finish(t)
  BY <1>9 DEF Begin, Finish
<1>10. CASE UNCHANGED vars
  BY <1>10 DEF vars
<1> QED BY <1>3, <1>4, <1>5, <1>6, <1>7, <1>8, <1>9, <1>10 DEF Next, LoopStep

\* sendInLoop asks for POLLOUT when it leaves bytes behind, and leaves none behind a FIN.
LEMMA SendWrites ==
    ASSUME TypeOK, sendInLoop(queue), state_ \in Open, finSent' = finSent,
           isWriting(events_) <=> outputBuffer_ # <<>>, finSent => outputBuffer_ = <<>>
    PROVE  /\ isWriting(events_)' <=> outputBuffer_' # <<>>
           /\ finSent' => outputBuffer_' = <<>>
<1>1. outputBuffer_ \in Seq(Nat) /\ MsgLen \in Nat \ {0}
  BY SizesAssumption DEF TypeOK
<1>2. CASE UNCHANGED <<outputBuffer_, chanVars>>
  BY <1>2 DEF chanVars
<1>3. CASE ~(DirectWrite /\ SocketDead)
  <2>1. ~finSent
    BY <1>3 DEF DirectWrite, SocketDead
  <2>2. PICK k \in 0..(IF DirectWrite THEN MsgLen ELSE 0) :
             LET left == SubSeq(Bytes(MsgLen), k + 1, MsgLen) IN
             /\ outputBuffer_' = outputBuffer_ \o left
             /\ IF left # <<>> /\ ~isWriting(events_)
                THEN updateChannel(enableWriting(events_)) ELSE UNCHANGED chanVars
    BY <1>3 DEF sendInLoop, Open
  <2> DEFINE left == SubSeq(Bytes(MsgLen), k + 1, MsgLen)
  <2>3. left \in Seq(Nat)
    <3>1. \A i \in (k + 1)..MsgLen : Bytes(MsgLen)[i] \in Nat
      <4>1. accepted \in Nat /\ k \in Nat
        BY <1>1 DEF TypeOK
      <4> QED BY <1>1, <4>1 DEF Bytes
    <3>2. k + 1 \in Int /\ MsgLen \in Int
      BY <1>1
    <3> QED BY <3>1, <3>2, SubSeqProperties, Zenon
  <2> HIDE DEF left
  <2>4. CASE left = <<>>
    <3>1. outputBuffer_' = outputBuffer_ /\ events_' = events_
      BY <1>1, <2>2, <2>4, ConcatEmptySeq DEF left, chanVars
    <3> QED BY <2>1, <3>1
  <2>5. CASE left # <<>>
    <3>1. outputBuffer_' # <<>>
      <4>1. outputBuffer_' = outputBuffer_ \o left
        BY <2>2 DEF left
      <4>2. Len(outputBuffer_ \o left) = Len(outputBuffer_) + Len(left)
        BY <1>1, <2>3, ConcatProperties, Zenon
      <4>3. Len(outputBuffer_) \in Nat /\ Len(left) \in Nat /\ Len(left) # 0
        BY <1>1, <2>3, <2>5
      <4> QED BY <4>1, <4>2, <4>3
    <3>2. isWriting(events_)'
      BY <2>2, <2>5, MaskWriting DEF left, updateChannel, register, chanVars
    <3> QED BY <2>1, <3>1, <3>2
  <2> QED BY <2>4, <2>5
<1> QED BY <1>2, <1>3 DEF sendInLoop, Open

\* Every step keeps the interest in POLLOUT and the buffer together, and the FIN behind the data.
LEMMA WriteInductive == TypeOK /\ StartInv /\ WriteInv /\ [Next]_vars => WriteInv'
<1> SUFFICES ASSUME TypeOK, StartInv, WriteInv, [Next]_vars, Alive'
             PROVE  /\ isWriting(events_)' <=> outputBuffer_' # <<>>
                    /\ finSent' => outputBuffer_' = <<>>
  BY DEF WriteInv, WritingIffBuffered, FinAfterData
<1>1. CASE connectEstablished
  <2>1. events_ = {} /\ outputBuffer_ = <<>> /\ ~finSent
    BY <1>1, EstablishedFirst DEF Fresh
  <2>2. outputBuffer_' = outputBuffer_ /\ finSent' = finSent /\ events_' = enableReading(events_)
    BY <1>1 DEF connectEstablished, updateChannel, register, dataVars
  <2> QED BY <2>1, <2>2, MaskWriting DEF isWriting
<1>2. CASE ~connectEstablished
  <2>1. Alive
    BY <1>2, OpenSteps
  <2>2. state_ \in Open /\ (isWriting(events_) <=> outputBuffer_ # <<>>)
        /\ (finSent => outputBuffer_ = <<>>)
    BY <2>1 DEF WriteInv, WritingIffBuffered, FinAfterData, Alive
  <2>3. CASE UserSend \/ RunSend
    BY <2>2, <2>3, SendWrites DEF UserSend, RunSend
  <2>4. CASE handleWrite
    <3>1. isWriting(events_) /\ ~finSent
      BY <2>4 DEF handleWrite, SocketDead
    <3>2. CASE outputBuffer_' = <<>>
      BY <2>4, <3>2, MaskWriting DEF handleWrite, updateChannel, register
    <3>3. CASE outputBuffer_' # <<>>
      BY <2>4, <3>1, <3>3 DEF handleWrite, chanVars
    <3> QED BY <3>2, <3>3
  <2>5. CASE ~UserSend /\ ~RunSend /\ ~handleWrite
    BY <1>2, <2>2, <2>5, WriteSteps DEF Alive
  <2> QED BY <2>3, <2>4, <2>5
<1> QED BY <1>1, <1>2

\* The invariants that hold from the start.
LEMMA InitInv == Init => LoopInv /\ StartInv /\ WriteInv
<1> SUFFICES ASSUME Init PROVE LoopInv /\ StartInv /\ WriteInv
  OBVIOUS
<1>1. Pending = <<"connectEstablished">>
  BY DEF Init, Pending
<1>2. LoopInv
  BY DEF Init, LoopInv, OneEnds
<1>3. StartInv
  BY <1>1 DEF Init, StartInv, Fresh, Once, LateCalls, kNoneEvent
<1>4. WriteInv
  BY DEF Init, WriteInv, WritingIffBuffered, FinAfterData, Alive, Open
<1> QED BY <1>2, <1>3, <1>4

\* Together these invariants hold in every state.
LEMMA Reachable == SafetySpec => [](TypeOK /\ LoopInv /\ StartInv)
  BY InitInv, TypeCorrect, LoopInductive, StartInductive, PTL DEF SafetySpec

\* An open connection waits for POLLOUT exactly while it has bytes to write, whatever is
\* called on it and in whatever order (TcpConnection.cc:132-183, 264-287, 335-369).
THEOREM WaitsWhileBuffered == SafetySpec => []WritingIffBuffered
<1>1. WriteInv => WritingIffBuffered
  BY DEF WriteInv
<1> QED BY <1>1, InitInv, Reachable, WriteInductive, PTL DEF SafetySpec

\* A FIN never overtakes bytes that were buffered before it (TcpConnection.cc:197-204, 345-357).
THEOREM FinIsLast == SafetySpec => []FinAfterData
<1>1. WriteInv => FinAfterData
  BY DEF WriteInv
<1> QED BY <1>1, InitInv, Reachable, WriteInductive, PTL DEF SafetySpec

-----------------------------------------------------------------------------
(* Closing *)

\* A callback that ends the connection is made on an open one only.
LEMMA EndsOpen ==
    ASSUME TypeOK, LoopInv, StartInv, Quiet, NEW cb \in Ending, Handling(cb)
    PROVE  ~Closed /\ state_ \in Open /\ NoneEnds(todo') /\ phase = "handle"
<1>1. todo \in Seq(CallbackNames) /\ todo # <<>> /\ Head(todo) \in Ending /\ todo' = Tail(todo)
  BY DEF TypeOK, Handling
<1>2. ~NoneEnds(todo) /\ NoneEnds(todo')
  BY <1>1, TailTodo DEF LoopInv
<1>3. ~Closed
  BY <1>2 DEF Quiet
<1>4. state_ # "kConnecting"
  BY <1>1 DEF StartInv, Fresh
<1>5. state_ \in Open
  BY <1>3, <1>4 DEF Closed, Open, TypeOK, StateE
<1> QED BY <1>2, <1>3, <1>5 DEF Handling

\* handleClose of an open connection takes it out of the epoll set, or revives it.
LEMMA CloseQuiet ==
    ASSUME handleClose, state_ \in Open, ~revived'
    PROVE  index_' # "kAdded" /\ phase # "active"
<1>1. ~Revives(kNoneEvent)
  BY DEF handleClose
<1>2. isNoneEvent(kNoneEvent)
  BY DEF isNoneEvent, kNoneEvent
<1> QED BY <1>1, <1>2 DEF Revives

\* A closed connection that is not revived stays out of the epoll set, and no data or POLLHUP
\* that was reported before the close is handled after it.
LEMMA QuietSteps ==
    ASSUME TypeOK, LoopInv, StartInv, Quiet, [Next]_vars, ~revived'
    PROVE  Quiet'
<1> USE DEF dataVars, chanVars, netVars, histVars, callVars, loopVars
<1>0. todo \in Seq(CallbackNames) /\ NoneEnds(<<>>)
  BY DEF TypeOK, NoneEnds
<1>1. ASSUME Closed' => Closed, UNCHANGED todo \/ (todo # <<>> /\ todo' = Tail(todo)),
             (\E ev : updateChannel(ev)) \/ UNCHANGED index_
      PROVE  Quiet'
  <2>1. NoneEnds(todo) => NoneEnds(todo')
    BY <1>0, <1>1, TailTodo
  <2>2. Closed => index_' # "kAdded"
    BY <1>1 DEF Quiet, updateChannel, Revives
  <2> QED BY <1>1, <2>1, <2>2 DEF Quiet
<1>2. \A op : readInLoop(op) => (\E ev : updateChannel(ev)) \/ UNCHANGED index_
  BY DEF readInLoop, startReadInLoop, stopReadInLoop
<1>3. sendInLoop(queue) => (\E ev : updateChannel(ev)) \/ UNCHANGED index_
  BY DEF sendInLoop
<1>4. forceCloseInLoop /\ UNCHANGED todo /\ (phase # "active" => todo = <<>>) => Quiet'
  <2>1. CASE handleClose /\ state_ \in Open /\ UNCHANGED todo /\ (phase # "active" => todo = <<>>)
    BY <1>0, <2>1, CloseQuiet DEF Quiet
  <2>2. CASE UNCHANGED <<state_, chanVars, histVars, todo>>
    BY <2>2 DEF Quiet, Closed
  <2> QED BY <2>1, <2>2 DEF forceCloseInLoop
<1>5. ReadEof \/ HandleHup => Quiet'
  <2> SUFFICES ASSUME ReadEof \/ HandleHup PROVE Quiet'
    OBVIOUS
  <2>1. \E cb \in Ending : Handling(cb)
    BY DEF ReadEof, HandleHup, Ending
  <2> QED BY <2>1, EndsOpen, CloseQuiet DEF ReadEof, HandleHup, Quiet
<1>6. connectEstablished => Quiet'
  BY EstablishedFirst DEF connectEstablished, Fresh, Quiet, Closed
<1>7. connectDestroyed => Quiet'
  <2> SUFFICES ASSUME connectDestroyed PROVE Quiet'
    OBVIOUS
  <2>1. todo = <<>> /\ todo' = todo
    BY DEF connectDestroyed, Functor, LoopInv
  <2>2. isNoneEvent(disableAll(events_))
    BY DEF isNoneEvent, disableAll
  <2>3. index_' # "kAdded"
    BY <2>2 DEF connectDestroyed, updateChannel, Revives
  <2> QED BY <1>0, <2>1, <2>3 DEF Quiet
<1>8. CASE Handlers
  <2> USE DEF Handling
  <2>1. CASE ReadData \/ ReadError \/ WriteNothing \/ handleError
    BY <1>1, <2>1 DEF ReadData, ReadError, WriteNothing, handleError, Closed
  <2>2. CASE handleWrite
    BY <1>1, <2>2 DEF handleWrite, Closed
  <2> QED BY <1>5, <1>8, <2>1, <2>2 DEF Handlers
<1>9. CASE Functors
  <2> USE DEF Functor
  <2>1. CASE RunSend BY <1>1, <1>3, <2>1 DEF RunSend, Closed
  <2>2. CASE RunShutdown \/ RunCallback BY <1>1, <2>2 DEF RunShutdown, RunCallback, Closed
  <2>3. CASE RunForceClose BY <1>4, <2>3 DEF RunForceClose, LoopInv
  <2>4. CASE RunRead BY <1>1, <1>2, <2>4 DEF RunRead, Closed
  <2> QED BY <1>6, <1>7, <1>9, <2>1, <2>2, <2>3, <2>4 DEF Functors
<1>10. CASE UserReturns
  BY <1>10 DEF UserReturns, Quiet, Closed
<1>11. CASE handleEvent \/ SwapPending \/ EndFunctors \/ PollOther
  BY <1>1, <1>11 DEF handleEvent, SwapPending, EndFunctors, PollOther, Closed
<1>12. CASE DelayFires
  BY <1>4, <1>12 DEF DelayFires
<1>13. CASE UserCalls
  <2>1. CASE UserSend BY <1>1, <1>3, <2>1 DEF UserSend, Closed
  <2>2. CASE UserShutdown \/ UserForceClose
    BY <1>1, <2>2 DEF UserShutdown, UserForceClose, Closed
  <2>3. CASE UserRead BY <1>1, <1>2, <2>3 DEF UserRead, Closed
  <2> QED BY <1>13, <2>1, <2>2, <2>3 DEF UserCalls
<1>14. CASE RemoveConnection \/ ServerDies \/ PeerFin \/ PeerReset
  BY <1>1, <1>14 DEF RemoveConnection, ServerDies, PeerFin, PeerReset, Closed
<1>15. ASSUME NEW r \in PossibleEvents, Poll(r) PROVE Quiet'
  BY <1>15 DEF Poll, Quiet, Closed
<1>16. ASSUME NEW t \in Threads, (\E op \in OffLoopOps : Begin(t, op)) \/ Finish(t) PROVE Quiet'
  <2>1. (Closed' => Closed) /\ UNCHANGED <<todo, index_>>
    BY <1>16 DEF Begin, Finish, Closed
  <2> QED BY <1>1, <2>1
<1>17. CASE UNCHANGED vars
  BY <1>1, <1>17 DEF vars, Closed
<1> QED BY <1>8, <1>9, <1>10, <1>11, <1>12, <1>13, <1>14, <1>15, <1>16, <1>17 DEF Next, LoopStep

\* handleClose runs once; each call of closeCallback_ is due, waits or was acted on.
LEMMA ClosingSteps ==
    ASSUME TypeOK, LoopInv, StartInv, Quiet, Closing, [Next]_vars, ~revived'
    PROVE  Closing'
<1> USE DEF dataVars, chanVars, netVars, histVars, callVars, loopVars
<1>0. closes \in Nat /\ removing \in Nat /\ (state_ \in Open => closes = 0)
  BY DEF TypeOK, Closing, Open
<1>1. ASSUME UNCHANGED <<closes, removing, server>>, user' = user \/ (user = "none" /\ user' # "down"),
             state_ = "kDisconnected" => state_' = state_
      PROVE  Closing'
  BY <1>0, <1>1 DEF Closing
<1>2. ASSUME handleClose, user = "none", state_ \in Open, UNCHANGED <<removing, server>>
      PROVE  Closing'
  <2>1. closes = 0 /\ closes' = 1 /\ state_' = "kDisconnected" /\ user' = "down"
    BY <1>0, <1>2 DEF handleClose
  <2>2. removing = 0 /\ server # "erased"
    BY <1>0, <1>2, <2>1 DEF Closing
  <2> QED BY <1>2, <2>1, <2>2 DEF Closing
<1>3. forceCloseInLoop /\ user = "none" /\ UNCHANGED <<removing, server>> => Closing'
  <2>1. CASE handleClose /\ state_ \in Open /\ user = "none" /\ UNCHANGED <<removing, server>>
    BY <1>2, <2>1
  <2>2. CASE UNCHANGED <<state_, closes, removing, server, user>>
    BY <1>1, <2>2
  <2> QED BY <2>1, <2>2 DEF forceCloseInLoop
<1>4. ReadEof \/ HandleHup => Closing'
  <2> SUFFICES ASSUME ReadEof \/ HandleHup PROVE Closing'
    OBVIOUS
  <2>1. \E cb \in Ending : Handling(cb)
    BY DEF ReadEof, HandleHup, Ending
  <2>2. state_ \in Open /\ handleClose /\ user = "none" /\ UNCHANGED <<removing, server>>
    BY <2>1, EndsOpen DEF ReadEof, HandleHup, Handling
  <2> QED BY <1>2, <2>2
<1>5. connectEstablished => Closing'
  <2> SUFFICES ASSUME connectEstablished PROVE Closing'
    OBVIOUS
  <2>1. state_ = "kConnecting"
    BY EstablishedFirst
  <2> QED BY <1>1, <2>1 DEF connectEstablished, Functor
<1>6. CASE Handlers
  <2> USE DEF Handling
  <2>1. CASE ReadData \/ ReadError \/ WriteNothing \/ handleError
    BY <1>1, <2>1 DEF ReadData, ReadError, WriteNothing, handleError
  <2>2. CASE handleWrite
    BY <1>1, <2>2 DEF handleWrite
  <2> QED BY <1>4, <1>6, <2>1, <2>2 DEF Handlers
<1>7. CASE Functors
  <2> USE DEF Functor
  <2>1. CASE connectDestroyed BY <1>1, <2>1 DEF connectDestroyed
  <2>2. CASE RunSend BY <1>1, <2>2 DEF RunSend
  <2>3. CASE RunShutdown \/ RunCallback BY <1>1, <2>3 DEF RunShutdown, RunCallback
  <2>4. CASE RunForceClose BY <1>3, <2>4 DEF RunForceClose
  <2>5. CASE RunRead BY <1>1, <2>5 DEF RunRead
  <2> QED BY <1>5, <1>7, <2>1, <2>2, <2>3, <2>4, <2>5 DEF Functors
<1>8. CASE UserReturns
  BY <1>0, <1>8 DEF UserReturns, Closing
<1>9. CASE handleEvent \/ SwapPending \/ EndFunctors \/ PollOther
  BY <1>1, <1>9 DEF handleEvent, SwapPending, EndFunctors, PollOther
<1>10. CASE DelayFires
  BY <1>3, <1>10 DEF DelayFires
<1>11. CASE UserCalls
  <2>1. CASE UserSend BY <1>1, <2>1 DEF UserSend
  <2>2. CASE UserShutdown \/ UserForceClose
    BY <1>1, <2>2 DEF UserShutdown, UserForceClose, Open
  <2>3. CASE UserRead BY <1>1, <2>3 DEF UserRead
  <2> QED BY <1>11, <2>1, <2>2, <2>3 DEF UserCalls
<1>12. CASE RemoveConnection
  BY <1>0, <1>12 DEF RemoveConnection, Closing
<1>13. CASE ServerDies
  BY <1>0, <1>13 DEF ServerDies, Closing
<1>14. CASE PeerFin \/ PeerReset
  BY <1>1, <1>14 DEF PeerFin, PeerReset
<1>15. ASSUME NEW r \in PossibleEvents, Poll(r) PROVE Closing'
  BY <1>1, <1>15 DEF Poll
<1>16. ASSUME NEW t \in Threads, (\E op \in OffLoopOps : Begin(t, op)) \/ Finish(t) PROVE Closing'
  BY <1>1, <1>16 DEF Begin, Finish
<1>17. CASE UNCHANGED vars
  BY <1>1, <1>17 DEF vars
<1> QED BY <1>6, <1>7, <1>8, <1>9, <1>10, <1>11, <1>12, <1>13, <1>14, <1>15, <1>16, <1>17
        DEF Next, LoopStep

\* Only connectDestroyed counts as one, and only the base loop moves the server.
LEMMA ServerSteps ==
    ASSUME TypeOK, [Next]_vars
    PROVE  /\ ~connectDestroyed => destroyed' = destroyed
           /\ ~RemoveConnection /\ ~ServerDies => server' = server
<1> USE DEF dataVars, chanVars, netVars, histVars, callVars, loopVars
<1> HIDE DEF TypeOK
<1>1. handleClose \/ forceCloseInLoop => destroyed' = destroyed
  BY DEF handleClose, forceCloseInLoop
<1>2. CASE Handlers
  BY <1>1, <1>2 DEF Handlers, Handling, ReadData, ReadEof, ReadError, handleWrite, WriteNothing,
                    HandleHup, handleError
<1>3. CASE Functors
  BY <1>1, <1>3 DEF Functors, Functor, connectEstablished, connectDestroyed, RunSend, RunShutdown,
                    RunForceClose, RunRead, RunCallback
<1>4. CASE UserReturns \/ handleEvent \/ SwapPending \/ EndFunctors \/ PollOther \/ DelayFires
  BY <1>1, <1>4 DEF UserReturns, handleEvent, SwapPending, EndFunctors, PollOther, DelayFires
<1>5. CASE UserCalls
  BY <1>5 DEF UserCalls, UserSend, UserShutdown, UserForceClose, UserRead
<1>6. CASE RemoveConnection \/ ServerDies \/ PeerFin \/ PeerReset
  BY <1>6 DEF RemoveConnection, ServerDies, PeerFin, PeerReset
<1>7. CASE \E r \in PossibleEvents : Poll(r)
  BY <1>7 DEF Poll
<1>8. CASE \E t \in Threads : (\E op \in OffLoopOps : Begin(t, op)) \/ Finish(t)
  BY <1>8 DEF Begin, Finish
<1>9. CASE UNCHANGED vars
  BY <1>9 DEF vars
<1> QED BY <1>2, <1>3, <1>4, <1>5, <1>6, <1>7, <1>8, <1>9 DEF Next, LoopStep

\* The server has connectDestroyed run once, whether it removes the connection or goes away.
LEMMA DestroyingSteps ==
    ASSUME TypeOK, LoopInv, Closing, Destroying, [Next]_vars
    PROVE  Destroying'
<1>0. /\ \A x \in CallNames : x \in FunctorNames /\ x # "connectDestroyed"
      /\ "connectDestroyed" \in FunctorNames
  BY DEF CallNames, FunctorNames
<1>1. destroyed \in Nat /\ server \in {"owns", "erased", "gone"} /\ removing \in Nat
  BY DEF TypeOK
<1>2. CASE Functors
  <2>1. /\ Pending \in Seq(FunctorNames) /\ Pending # <<>> /\ Pending[1] = Head(batch)
        /\ Pending' = Tail(Pending) \/ \E x \in CallNames : Pending' = Append(Tail(Pending), x)
    BY <1>2, FunctorPending
  <2>2. /\ Tail(Pending) \in Seq(FunctorNames) /\ Once(Tail(Pending), "connectDestroyed")
        /\ Absent(Pending, "connectDestroyed") => Absent(Tail(Pending), "connectDestroyed")
        /\ Pending[1] = "connectDestroyed" => Absent(Tail(Pending), "connectDestroyed")
    BY <2>1, TailQueue DEF Destroying
  <2>3. /\ Once(Pending', "connectDestroyed")
        /\ Absent(Tail(Pending), "connectDestroyed") => Absent(Pending', "connectDestroyed")
    <3>1. CASE Pending' = Tail(Pending)
      BY <2>2, <3>1
    <3>2. ASSUME NEW x \in CallNames, Pending' = Append(Tail(Pending), x)
          PROVE  /\ Once(Pending', "connectDestroyed")
                 /\ Absent(Tail(Pending), "connectDestroyed") => Absent(Pending', "connectDestroyed")
      BY <1>0, <2>2, <3>2, AppendQueue
    <3> QED BY <2>1, <3>1, <3>2
  <2>4. CASE connectDestroyed
    <3>1. Pending[1] = "connectDestroyed" /\ server' = server /\ destroyed' = destroyed + 1
      BY <2>1, <2>4 DEF connectDestroyed, Functor
    <3>2. ~Absent(Pending, "connectDestroyed")
      <4>1. 1 \in 1..Len(Pending)
        BY <2>1
      <4> QED BY <3>1, <4>1 DEF Absent
    <3>3. destroyed = 0 /\ server # "owns"
      BY <1>1, <3>2 DEF Destroying
    <3> QED BY <2>2, <2>3, <3>1, <3>3 DEF Destroying
  <2>5. CASE ~connectDestroyed
    <3>1. ~RemoveConnection /\ ~ServerDies
      BY <1>2 DEF RemoveConnection, ServerDies, loopVars, Functors, connectEstablished, connectDestroyed,
                  RunSend, RunShutdown, RunForceClose, RunRead, RunCallback, Functor, TypeOK
    <3>2. server' = server /\ destroyed' = destroyed
      BY <2>5, <3>1, ServerSteps
    <3> QED BY <2>2, <2>3, <3>2 DEF Destroying
  <2> QED BY <2>4, <2>5
<1>3. CASE ~Functors
  <2>1. destroyed' = destroyed
    BY <1>3, ServerSteps DEF Functors
  <2>2. CASE RemoveConnection \/ ServerDies
    <3>1. server = "owns" /\ server' # "owns"
      BY <1>1, <2>2 DEF RemoveConnection, ServerDies, Closing
    <3>2. /\ Pending \in Seq(FunctorNames)
          /\ \/ Pending' = Pending
             \/ \E x \in FunctorNames : Pending' = Append(Pending, x)
      BY <1>0, <1>3, OtherPending
    <3>3. Once(Pending', "connectDestroyed")
      <4>1. Once(Pending, "connectDestroyed") /\ Absent(Pending, "connectDestroyed")
        BY <3>1 DEF Destroying
      <4>2. CASE Pending' = Pending
        BY <4>1, <4>2
      <4>3. CASE \E x \in FunctorNames : Pending' = Append(Pending, x)
        <5>1. PICK x \in FunctorNames : Pending' = Append(Pending, x)
          BY <4>3
        <5>2. Once(Append(Pending, x), "connectDestroyed")
          BY <3>2, <4>1, AppendQueue
        <5> QED BY <5>1, <5>2
      <4> QED BY <3>2, <4>2, <4>3
    <3> QED BY <2>1, <3>1, <3>3 DEF Destroying
  <2>3. CASE ~RemoveConnection /\ ~ServerDies
    <3>1. server' = server
      BY <2>3, ServerSteps
    <3>2. /\ Pending \in Seq(FunctorNames)
          /\ Pending' = Pending \/ \E x \in CallNames : Pending' = Append(Pending, x)
      BY <1>3, <2>3, OtherPending
    <3>3. /\ Absent(Pending, "connectDestroyed") => Absent(Pending', "connectDestroyed")
          /\ Once(Pending', "connectDestroyed")
      <4>1. CASE Pending' = Pending
        BY <4>1 DEF Destroying
      <4>2. ASSUME NEW x \in CallNames, Pending' = Append(Pending, x)
            PROVE  /\ Absent(Pending, "connectDestroyed") => Absent(Pending', "connectDestroyed")
                   /\ Once(Pending', "connectDestroyed")
        BY <1>0, <3>2, <4>2, AppendQueue DEF Destroying
      <4> QED BY <3>2, <4>1, <4>2
    <3> QED BY <2>1, <3>1, <3>3 DEF Destroying
  <2> QED BY <2>2, <2>3
<1> QED BY <1>2, <1>3

\* A connection that is not revived is closed, removed and destroyed along one path.
LEMMA CloseInductive == TypeOK /\ LoopInv /\ StartInv /\ CloseInv /\ [Next]_vars => CloseInv'
<1> SUFFICES ASSUME TypeOK, LoopInv, StartInv, CloseInv, [Next]_vars, ~revived'
             PROVE  Quiet' /\ Closing' /\ Destroying'
  BY DEF CloseInv
<1>1. Quiet /\ Closing /\ Destroying
  BY RevivedSticks DEF CloseInv
<1> QED BY <1>1, QuietSteps, ClosingSteps, DestroyingSteps

\* The invariants of a connection hold in every state.
LEMMA CloseInvariant == SafetySpec => [](TypeOK /\ LoopInv /\ StartInv /\ CloseInv)
<1>1. Init => CloseInv
  <2> SUFFICES ASSUME Init PROVE Quiet /\ Closing /\ Destroying
    BY DEF CloseInv
  <2>1. Pending = <<"connectEstablished">>
    BY DEF Init, Pending
  <2>2. Quiet /\ Closing
    BY DEF Init, Quiet, Closing, Closed
  <2>3. Destroying
    BY <2>1 DEF Init, Destroying, Absent, Once
  <2> QED BY <2>2, <2>3
<1> QED BY <1>1, Reachable, CloseInductive, PTL DEF SafetySpec

\* However the peer, the callbacks, the delayed close and the server race, a connection that is
\* not brought back after its close goes down once and is destroyed once
\* (TcpConnection.cc:228-235, 289-312, 371-383; TcpServer.cc, removeConnection).
THEOREM GoesDownOnce == SafetySpec => []ClosesOnceUnlessRevived
<1>1. TypeOK /\ StartInv /\ CloseInv => ClosesOnceUnlessRevived
  <2> SUFFICES ASSUME TypeOK, StartInv, CloseInv, ~revived
               PROVE  ups <= 1 /\ closes <= ups /\ destroyed <= 1
    BY DEF ClosesOnceUnlessRevived
  <2>1. Closing /\ Destroying /\ closes \in Nat
    BY DEF CloseInv, TypeOK
  <2>2. (ups = 0 /\ closes = 0) \/ ups = 1
    BY DEF StartInv, Fresh
  <2> QED BY <2>1, <2>2 DEF Closing, Destroying
<1> QED BY <1>1, CloseInvariant, PTL

\* After the "down" callback no data is delivered to the user, unless the connection was revived
\* (TcpConnection.cc:314-333, 371-383).
THEOREM NoDataAfterDown == SafetySpec => QuietAfterDown
<1>1. TypeOK /\ LoopInv /\ StartInv /\ CloseInv /\ [Next]_vars => [ReadData => ~Closed \/ revived]_vars
  <2> SUFFICES ASSUME TypeOK, LoopInv, StartInv, CloseInv, ReadData, ~revived PROVE ~Closed
    OBVIOUS
  <2>1. Quiet
    BY DEF CloseInv
  <2>2. "read" \in Ending /\ Handling("read")
    BY DEF Ending, ReadData
  <2> QED BY <2>1, <2>2, EndsOpen
<1> QED BY <1>1, CloseInvariant, PTL DEF SafetySpec, QuietAfterDown

=============================================================================
