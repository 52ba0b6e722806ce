-------------------------- MODULE EventLoopProofs --------------------------
(***************************************************************************)
(* Proofs about EventLoop for any number of threads and functors, any      *)
(* number of calls per callback and any width of the eventfd counter.      *)
(***************************************************************************)
EXTENDS EventLoop, TLAPS

-----------------------------------------------------------------------------
(* Sequences *)

\* Appending to the second of two queues appends to their concatenation.
LEMMA AppendConcat ==
    ASSUME NEW X, NEW s \in Seq(X), NEW t \in Seq(X), NEW x \in X
    PROVE  s \o Append(t, x) = Append(s \o t, x)
  OBVIOUS

\* Taking the head of the first of two queues takes it from their concatenation.
LEMMA TailConcat ==
    ASSUME NEW X, NEW s \in Seq(X), NEW t \in Seq(X), s # <<>>
    PROVE  /\ s \o t # <<>>
           /\ Tail(s \o t) = Tail(s) \o t
  OBVIOUS

\* An empty queue on either side adds nothing.
LEMMA EmptyConcat ==
    ASSUME NEW X, NEW s \in Seq(X)
    PROVE  s \o <<>> = s /\ <<>> \o s = s
  OBVIOUS

-----------------------------------------------------------------------------
(* Types *)

\* What the poller lists is a sequence of channels.
LEMMA ListingType ==
    ASSUME NEW S \in SUBSET Channels, NEW s \in Listings(S)
    PROVE  s \in Seq(Channels)
  BY DEF Listings

\* Every variable of the loop and of its callers keeps its type.
THEOREM TypeCorrect == SafetySpec => []TypeOK
<1>1. Init => TypeOK
  <2> SUFFICES ASSUME Init PROVE TypeOK
    OBVIOUS
  <2>1. wakeupFd \in 0..EventfdMax /\ calls \in 0..MaxCalls
    BY EventfdMaxAssumption, MaxCallsAssumption DEF Init
  <2>2. call \in [AllThreads -> {"none", "wakeup"}]
    BY DEF Init
  <2>3. ioReady \in BOOLEAN /\ callingPendingFunctors_ \in BOOLEAN
    BY DEF Init
  <2>4. pc \in LoopPC /\ quit_ \in LoopState
    BY DEF Init, LoopPC, UserCode, LoopState
  <2>5. /\ pendingFunctors_ \in Seq(Functors) /\ functors \in Seq(Functors)
        /\ activeChannels_ \in Seq(Channels) /\ startup \subseteq Functors
    BY DEF Init
  <2> QED BY <2>1, <2>2, <2>3, <2>4, <2>5 DEF TypeOK
<1>2. TypeOK /\ [Next]_vars => TypeOK'
  <2> SUFFICES ASSUME TypeOK, [Next]_vars PROVE TypeOK'
    OBVIOUS
  <2> USE MaxCallsAssumption, EventfdMaxAssumption
      DEF TypeOK, LoopPC, UserCode, LoopState, AllThreads, queueVars
  <2>1. CASE LoopStep
    <3>1. CASE EnterLoop BY <3>1 DEF EnterLoop
    <3>2. CASE CheckCreated BY <3>2 DEF CheckCreated
    <3>3. CASE StoreRunning BY <3>3 DEF StoreRunning
    <3>4. CASE While BY <3>4 DEF While
    <3>5. CASE PollReady
      <4>1. ReadyChannels \in SUBSET Channels
        BY DEF ReadyChannels, Channels
      <4>2. activeChannels_' \in Seq(Channels)
        BY <3>5, <4>1, ListingType DEF PollReady
      <4> QED BY <3>5, <4>2 DEF PollReady
    <3>6. CASE handleRead BY <3>6 DEF handleRead
    <3>7. CASE HandleIo
      <4>1. ioReady' \in BOOLEAN
        BY <3>7 DEF HandleIo
      <4>2. activeChannels_' \in Seq(Channels) /\ pc' \in LoopPC
        BY <3>7 DEF HandleIo
      <4> QED BY <3>7, <4>1, <4>2 DEF HandleIo
    <3>8. CASE AllHandled BY <3>8 DEF AllHandled
    <3>9. CASE SwapPending BY <3>9 DEF SwapPending
    <3>10. CASE RunFunctor BY <3>10 DEF RunFunctor
    <3>11. CASE EndPending BY <3>11 DEF EndPending
    <3>12. CASE CallbackReturns BY <3>12 DEF CallbackReturns
    <3> QED BY <2>1, <3>1, <3>2, <3>3, <3>4, <3>5, <3>6, <3>7, <3>8, <3>9, <3>10,
               <3>11, <3>12 DEF LoopStep
  <2>2. CASE PollEmpty BY <2>2 DEF PollEmpty
  <2>3. CASE Calls
    <3> SUFFICES ASSUME NEW t \in AllThreads,
                        \/ \E f \in Functors : queueInLoop(t, f) \/ runInLoop(t, f)
                        \/ quit(t)
                        \/ wakeup(t)
                 PROVE  TypeOK'
      BY <2>3 DEF Calls
    <3> USE DEF MayCall, CountCall, isInLoopThread
    <3>1. ASSUME NEW f \in Functors, queueInLoop(t, f) PROVE TypeOK'
      BY <3>1 DEF queueInLoop
    <3>2. CASE RunNow(t) BY <3>2 DEF RunNow
    <3>3. CASE quit(t) BY <3>3 DEF quit
    <3>4. CASE wakeup(t) BY <3>4 DEF wakeup
    <3> QED BY <3>1, <3>2, <3>3, <3>4 DEF runInLoop
  <2>4. CASE Arrive BY <2>4 DEF Arrive
  <2>5. CASE UNCHANGED vars BY <2>5 DEF vars
  <2> QED BY <2>1, <2>2, <2>3, <2>4, <2>5 DEF Next
<1> QED BY <1>1, <1>2, PTL DEF SafetySpec

-----------------------------------------------------------------------------
(* The loop does not sleep over work *)

\* Appending a functor adds it to the elements of a queue.
LEMMA ElementsAppend ==
    ASSUME NEW X, NEW s \in Seq(X), NEW x \in X
    PROVE  Elements(Append(s, x)) = Elements(s) \cup {x}
  BY DEF Elements

\* An empty queue has no elements.
LEMMA ElementsEmpty == Elements(<<>>) = {}
  BY DEF Elements

\* A newly constructed loop has no work and no quit to sleep over.
LEMMA AtStart == Init => WakeInv
  BY ElementsEmpty DEF Init, WakeInv, WorkWaits

\* Every step keeps WakeInv.
LEMMA WakeInductive == TypeOK /\ WakeInv /\ [Next]_vars => WakeInv'
<1> SUFFICES ASSUME TypeOK, WakeInv, [Next]_vars PROVE WakeInv'
  OBVIOUS
<1> USE DEF TypeOK, WakeInv, WorkWaits, WakeupComing, AllThreads, queueVars
<1>1. CASE LoopStep
  <2>1. CASE EnterLoop BY <2>1 DEF EnterLoop
  <2>2. CASE CheckCreated BY <2>2 DEF CheckCreated
  <2>3. CASE StoreRunning BY <2>3 DEF StoreRunning
  <2>4. CASE While BY <2>4 DEF While
  <2>5. CASE PollReady BY <2>5 DEF PollReady
  <2>6. CASE handleRead BY <2>6 DEF handleRead
  <2>7. CASE HandleIo BY <2>7 DEF HandleIo
  <2>8. CASE AllHandled BY <2>8 DEF AllHandled
  <2>9. CASE SwapPending
    <3>1. ~WorkWaits'
      BY <2>9, ElementsEmpty DEF SwapPending
    <3> QED BY <2>9, <3>1 DEF SwapPending
  <2>10. CASE RunFunctor BY <2>10 DEF RunFunctor
  <2>11. CASE EndPending BY <2>11 DEF EndPending
  <2>12. CASE CallbackReturns BY <2>12 DEF CallbackReturns
  <2> QED BY <1>1, <2>1, <2>2, <2>3, <2>4, <2>5, <2>6, <2>7, <2>8, <2>9, <2>10,
             <2>11, <2>12 DEF LoopStep
<1>2. CASE PollEmpty BY <1>2 DEF PollEmpty
<1>3. CASE Calls
  <2> SUFFICES ASSUME NEW t \in AllThreads,
                      \/ \E f \in Functors : queueInLoop(t, f) \/ runInLoop(t, f)
                      \/ quit(t)
                      \/ wakeup(t)
               PROVE  WakeInv'
    BY <1>3 DEF Calls
  <2> USE DEF MayCall, isInLoopThread, UserCode
  <2>1. ASSUME NEW f \in Functors, queueInLoop(t, f) PROVE WakeInv'
    <3>1. CASE NeedsWakeup(t)
      <4>1. call'[t] = "wakeup" BY <2>1, <3>1 DEF queueInLoop
      <4> QED BY <2>1, <4>1 DEF queueInLoop
    <3>2. CASE ~NeedsWakeup(t)
      <4>1. t = Loop /\ ~callingPendingFunctors_ /\ pc \in {"setup", "handler"}
        BY <2>1, <3>2 DEF queueInLoop, NeedsWakeup
      <4>2. call' = call
        BY <2>1, <3>2 DEF queueInLoop
      <4>3. CASE pc = "handler" BY <2>1, <4>3 DEF queueInLoop
      <4>4. CASE pc = "setup"
        <5>1. startup' = startup \cup {f}
          BY <2>1, <4>1, <4>4 DEF queueInLoop
        <5>2. Elements(pendingFunctors_') = Elements(pendingFunctors_) \cup {f}
          BY <2>1, ElementsAppend DEF queueInLoop
        <5>3. WorkWaits' => WorkWaits
          BY <5>1, <5>2
        <5> QED BY <2>1, <4>2, <4>4, <5>3 DEF queueInLoop
      <4> QED BY <4>1, <4>3, <4>4
    <3> QED BY <3>1, <3>2
  <2>2. CASE RunNow(t) BY <2>2 DEF RunNow
  <2>3. CASE quit(t)
    <3>1. CASE t = Loop BY <2>3, <3>1 DEF quit
    <3>2. CASE t # Loop
      <4>1. call'[t] = "wakeup" BY <2>3, <3>2 DEF quit
      <4> QED BY <2>3, <4>1 DEF quit
    <3> QED BY <3>1, <3>2
  <2>4. CASE wakeup(t)
    <3>1. wakeupFd' > 0
      BY <2>4, EventfdMaxAssumption DEF wakeup
    <3> QED BY <2>4, <3>1 DEF wakeup
  <2> QED BY <2>1, <2>2, <2>3, <2>4 DEF runInLoop
<1>4. CASE Arrive BY <1>4 DEF Arrive
<1>5. CASE UNCHANGED vars BY <1>5 DEF vars
<1> QED BY <1>1, <1>2, <1>3, <1>4, <1>5 DEF Next

\* WakeInv is an invariant of the loop.
LEMMA WakeInvariant == SafetySpec => []WakeInv
<1>1. SafetySpec => Init /\ [][Next]_vars
  BY DEF SafetySpec
<1> QED BY <1>1, AtStart, WakeInductive, TypeCorrect, PTL

\* The loop thread never sleeps in poll() over a functor that another thread or
\* one of its own callbacks queued, without a wakeup written or on its way.
THEOREM FunctorsNotSleptOver == SafetySpec => []NoSleepOnFunctor
<1>1. WakeInv => NoSleepOnFunctor
  BY DEF WakeInv, WorkWaits, NoSleepOnFunctor
<1> QED BY <1>1, WakeInvariant, PTL

\* The loop thread never sleeps in poll() over a quit() that reached quit_.
THEOREM QuitNotSleptOver == SafetySpec => []NoSleepOnQuit
<1>1. WakeInv => NoSleepOnQuit
  BY DEF WakeInv, NoSleepOnQuit
<1> QED BY <1>1, WakeInvariant, PTL

-----------------------------------------------------------------------------
(* The loop implements the queue *)

\* Every step keeps the batch of doPendingFunctors inside doPendingFunctors.
LEMMA BatchInductive == TypeOK /\ BatchInv /\ [Next]_vars => BatchInv'
<1> SUFFICES ASSUME TypeOK, BatchInv, [Next]_vars PROVE BatchInv'
  OBVIOUS
<1> USE DEF BatchInv, TypeOK
<1>1. CASE LoopStep \/ PollEmpty
  BY <1>1 DEF LoopStep, EnterLoop, CheckCreated, StoreRunning, While, PollReady, PollEmpty,
              handleRead, HandleIo, AllHandled, SwapPending, RunFunctor, EndPending,
              CallbackReturns, queueVars
<1>2. CASE Calls \/ Arrive
  BY <1>2 DEF Calls, Arrive, queueInLoop, runInLoop, RunNow, quit, wakeup, queueVars
<1>3. CASE UNCHANGED vars BY <1>3 DEF vars
<1> QED BY <1>1, <1>2, <1>3 DEF Next

\* A step of the loop or of a caller is a step of the abstract queue or leaves
\* it alone.
LEMMA StepRefines ==
    TypeOK /\ BatchInv /\ [Next]_vars => [TQ!Next]_(functors \o pendingFunctors_)
<1> SUFFICES ASSUME TypeOK, BatchInv, [Next]_vars
             PROVE  TQ!Next \/ UNCHANGED (functors \o pendingFunctors_)
  OBVIOUS
<1> USE DEF TypeOK
<1>1. CASE SwapPending
  <2>1. functors = <<>> BY <1>1 DEF BatchInv, SwapPending
  <2> QED BY <1>1, <2>1, EmptyConcat DEF SwapPending
<1>2. CASE RunFunctor
  <2>1. /\ functors \o pendingFunctors_ # <<>>
        /\ Tail(functors \o pendingFunctors_) = Tail(functors) \o pendingFunctors_
    BY <1>2, TailConcat DEF RunFunctor
  <2>2. TQ!RunHead BY <1>2, <2>1 DEF RunFunctor, TQ!RunHead
  <2> QED BY <2>2 DEF TQ!Next
<1>3. ASSUME NEW t \in AllThreads, NEW f \in Functors, queueInLoop(t, f)
      PROVE  TQ!Next
  <2>1. functors \o Append(pendingFunctors_, f) = Append(functors \o pendingFunctors_, f)
    BY AppendConcat
  <2>2. TQ!Submit(f) BY <1>3, <2>1 DEF queueInLoop, TQ!Submit
  <2> QED BY <2>2 DEF TQ!Next
<1>4. ASSUME UNCHANGED <<functors, pendingFunctors_>>
      PROVE  UNCHANGED (functors \o pendingFunctors_)
  BY <1>4
<1>5. CASE \/ EnterLoop \/ CheckCreated \/ StoreRunning \/ While \/ PollReady \/ PollEmpty
           \/ handleRead \/ HandleIo \/ AllHandled \/ EndPending \/ CallbackReturns \/ Arrive
           \/ UNCHANGED vars
  BY <1>4, <1>5 DEF EnterLoop, CheckCreated, StoreRunning, While, PollReady, PollEmpty,
                    handleRead, HandleIo, AllHandled, EndPending, CallbackReturns, Arrive,
                    queueVars, vars
<1>6. ASSUME NEW t \in AllThreads, RunNow(t) \/ quit(t) \/ wakeup(t)
      PROVE  UNCHANGED (functors \o pendingFunctors_)
  BY <1>4, <1>6 DEF RunNow, quit, wakeup, queueVars
<1>7. CASE Calls
  BY <1>3, <1>6, <1>7 DEF Calls, runInLoop
<1> QED BY <1>1, <1>2, <1>5, <1>7 DEF Next, LoopStep

\* EventLoop implements the FIFO queue of functors: nothing queued is dropped,
\* duplicated or overtaken while the loop runs, whatever the interleaving.
THEOREM ImplementsTaskQueue == SafetySpec => RunsInOrder
<1>1. Init => TQ!Init /\ BatchInv
  BY DEF Init, TQ!Init, BatchInv
<1>2. SafetySpec => []BatchInv
  <2>1. SafetySpec => Init /\ [][Next]_vars
    BY DEF SafetySpec
  <2> QED BY <1>1, <2>1, BatchInductive, TypeCorrect, PTL
<1>3. SafetySpec => Init /\ [][Next]_vars
  BY DEF SafetySpec
<1> QED BY <1>1, <1>2, <1>3, TypeCorrect, StepRefines, PTL DEF RunsInOrder, TQ!Spec
=============================================================================
