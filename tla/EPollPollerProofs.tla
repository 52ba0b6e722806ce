------------------------- MODULE EPollPollerProofs -------------------------
(***************************************************************************)
(* Proofs about EPollPoller for any set of channels and descriptors, any   *)
(* sharing of descriptors and any initial size of the event list.          *)
(***************************************************************************)
EXTENDS EPollPoller, TLAPS

\* The parts that every step needs together.
IInv == TypeOK /\ Placed /\ KernelMirrors /\ NoCtlFailure

\* enableReading and its siblings turn a mask of requested events into another.
LEMMA UpdatesType ==
    ASSUME NEW ev \in SUBSET Requested, NEW u \in Updates(ev)
    PROVE  u \in SUBSET Requested
  BY DEF Updates, enableReading, disableReading, enableWriting, disableWriting, disableAll,
         Requested, kReadEvent, kWriteEvent, kNoneEvent

\* The empty mask is a mask.
LEMMA NoneType == kNoneEvent \in SUBSET Requested
  BY DEF kNoneEvent

\* The new poller has no channels and an empty epoll set.
LEMMA AtStart == Init => IInv
<1> SUFFICES ASSUME Init PROVE IInv
  OBVIOUS
<1>1. TypeOK
  BY NoneType, ListSizeAssumption DEF Init, TypeOK, ChanOrNone, Index, Phases
<1>2. Placed /\ KernelMirrors
  BY NoneAssumption, FdOfAssumption DEF Init, Placed, KernelMirrors
<1>3. NoCtlFailure
  BY DEF Init, NoCtlFailure
<1> QED BY <1>1, <1>2, <1>3 DEF IInv

\* In a state of IInv epoll_ctl finds the entry it expects: an absent one for a
\* channel that is not kAdded, the channel's own for one that is.
LEMMA Lookup ==
    ASSUME IInv, NEW c \in Chans, Alive(c)
    PROVE  /\ index_[c] = "kAdded" => registered[FdOf[c]] = c
           /\ index_[c] # "kAdded" => registered[FdOf[c]] = None
           /\ index_[c] = "kNew" => channels_[FdOf[c]] \notin Chans
           /\ \A d \in Chans : FdOf[d] = FdOf[c] /\ d # c => index_[d] = "kNew"
<1> USE FdOfAssumption, NoneAssumption DEF IInv, TypeOK, ChanOrNone
<1>1. \A d \in Chans : FdOf[d] = FdOf[c] /\ d # c => index_[d] = "kNew"
  BY DEF KernelMirrors, Alive
<1>2. index_[c] # "kAdded" => registered[FdOf[c]] = None
  BY <1>1 DEF KernelMirrors, Placed
<1>3. index_[c] = "kNew" => channels_[FdOf[c]] \notin Chans
  BY <1>1 DEF KernelMirrors, Placed
<1> QED BY <1>1, <1>2, <1>3 DEF KernelMirrors

\* updateChannel keeps the invariant: ADD for a channel that is not in the epoll
\* set, MOD or DEL for one that is.
LEMMA UpdateKeeps ==
    ASSUME IInv, NEW c \in Chans, Update(c)
    PROVE  IInv'
<1> USE FdOfAssumption, NoneAssumption DEF IInv, ChanOrNone, Index, loopVars
<1> DEFINE fd == FdOf[c]
<1>1. PICK ev \in Updates(events_[c]) : events_' = [events_ EXCEPT ![c] = ev]
  BY DEF Update
<1>2. ev \in SUBSET Requested
  BY <1>1, UpdatesType DEF TypeOK
<1>3. events_'[c] = ev /\ events_' \in [Chans -> SUBSET Requested] /\ fd \in Fds
  BY <1>1, <1>2 DEF TypeOK
<1>4. Alive(c) /\ updateChannel(c)
  BY DEF Update
<1>5. CASE index_[c] \in {"kNew", "kDeleted"}
  <2>1. registered[fd] = None
    BY <1>4, <1>5, Lookup
  <2>2. update("ADD", c)
    BY <1>4, <1>5 DEF updateChannel
  <2>3. /\ registered' = [registered EXCEPT ![fd] = c]
        /\ mask' = [mask EXCEPT ![fd] = ev]
        /\ ctlFailed' = ctlFailed
    BY <1>3, <2>1, <2>2 DEF update, TypeOK
  <2>4. /\ index_' = [index_ EXCEPT ![c] = "kAdded"]
        /\ channels_' = IF index_[c] = "kNew" THEN [channels_ EXCEPT ![fd] = c] ELSE channels_
    BY <1>4, <1>5 DEF updateChannel
  <2>5. channels_' = [channels_ EXCEPT ![fd] = c]
    <3>1. CASE index_[c] = "kNew" BY <2>4, <3>1
    <3>2. CASE index_[c] = "kDeleted"
      <4>1. channels_[fd] = c /\ channels_' = channels_
        BY <2>4, <3>2 DEF KernelMirrors, fd
      <4>2. channels_ = [channels_ EXCEPT ![fd] = channels_[fd]]
        BY DEF TypeOK
      <4> QED BY <4>1, <4>2
    <3> QED BY <1>5, <3>1, <3>2
  <2>6. TypeOK' BY <1>2, <1>3, <2>3, <2>4, <2>5 DEF TypeOK, Update
  <2>7. Placed' BY <1>3, <2>3, <2>5 DEF Placed, Update, TypeOK
  <2>8. KernelMirrors'
    BY <1>1, <1>2, <1>3, <1>4, <2>3, <2>4, <2>5, Lookup
       DEF KernelMirrors, Update, TypeOK, Alive, Placed
  <2> QED BY <2>3, <2>6, <2>7, <2>8 DEF NoCtlFailure
<1>6. CASE index_[c] = "kAdded"
  <2>1. registered[fd] = c /\ registered[fd] # None
    BY <1>4, <1>6, Lookup
  <2>2. CASE isNoneEvent(ev)
    <3>1. update("DEL", c) /\ index_' = [index_ EXCEPT ![c] = "kDeleted"]
          /\ channels_' = channels_
      BY <1>3, <1>4, <1>6, <2>2 DEF updateChannel
    <3>2. /\ registered' = [registered EXCEPT ![fd] = None]
          /\ mask' = [mask EXCEPT ![fd] = kNoneEvent]
          /\ ctlFailed' = ctlFailed
      BY <2>1, <3>1 DEF update, TypeOK
    <3>3. TypeOK' BY <1>3, <3>1, <3>2, NoneType DEF TypeOK, Update
    <3>4. Placed' BY <1>3, <3>1, <3>2 DEF Placed, Update, TypeOK
    <3>5. KernelMirrors'
      <4>1. ev = kNoneEvent
        BY <2>2 DEF isNoneEvent
      <4> QED BY <1>1, <1>3, <1>4, <1>6, <3>1, <3>2, <4>1, Lookup
              DEF KernelMirrors, Update, TypeOK, Alive, Placed
    <3> QED BY <3>2, <3>3, <3>4, <3>5 DEF NoCtlFailure
  <2>3. CASE ~isNoneEvent(ev)
    <3>1. update("MOD", c) /\ index_' = index_ /\ channels_' = channels_
      BY <1>3, <1>4, <1>6, <2>3 DEF updateChannel
    <3>2. /\ registered' = [registered EXCEPT ![fd] = c]
          /\ mask' = [mask EXCEPT ![fd] = ev]
          /\ ctlFailed' = ctlFailed
      BY <1>3, <2>1, <3>1 DEF update, TypeOK
    <3>3. TypeOK' BY <1>2, <1>3, <3>1, <3>2 DEF TypeOK, Update
    <3>4. Placed' BY <1>3, <3>1, <3>2 DEF Placed, Update, TypeOK
    <3>5. KernelMirrors'
      BY <1>1, <1>3, <1>4, <1>6, <2>1, <3>1, <3>2, Lookup
         DEF KernelMirrors, Update, TypeOK, Alive, Placed
    <3> QED BY <3>2, <3>3, <3>4, <3>5 DEF NoCtlFailure
  <2> QED BY <2>2, <2>3
<1> QED BY <1>5, <1>6 DEF TypeOK

\* removeChannel keeps the invariant.
LEMMA RemoveKeeps ==
    ASSUME IInv, NEW c \in Chans, Remove(c)
    PROVE  IInv'
<1> USE FdOfAssumption, NoneAssumption DEF IInv, ChanOrNone, Index, loopVars
<1> DEFINE fd == FdOf[c]
<1>1. /\ Alive(c) /\ fd \in Fds /\ index_[c] # "kNew" /\ isNoneEvent(events_[c])
      /\ channels_' = [channels_ EXCEPT ![fd] = None]
      /\ index_' = [index_ EXCEPT ![c] = "kNew"]
      /\ events_' = events_
  BY DEF Remove, removeChannel
<1>2. /\ registered' = [registered EXCEPT ![fd] = None]
      /\ mask' = [mask EXCEPT ![fd] = IF index_[c] = "kAdded" THEN kNoneEvent ELSE mask[fd]]
      /\ ctlFailed' = ctlFailed
  <2>1. CASE index_[c] = "kAdded"
    <3>1. registered[fd] = c /\ registered[fd] # None
      BY <1>1, <2>1, Lookup
    <3>2. update("DEL", c)
      BY <2>1 DEF Remove, removeChannel
    <3> QED BY <2>1, <3>1, <3>2 DEF update, TypeOK
  <2>2. CASE index_[c] # "kAdded"
    <3>1. registered[fd] = None
      BY <1>1, <2>2, Lookup
    <3>2. registered' = registered /\ mask' = mask /\ ctlFailed' = ctlFailed
      BY <2>2 DEF Remove, removeChannel, kernelVars
    <3>3. registered = [registered EXCEPT ![fd] = registered[fd]]
      BY DEF TypeOK
    <3>4. mask = [mask EXCEPT ![fd] = mask[fd]]
      BY DEF TypeOK
    <3> QED BY <2>2, <3>1, <3>2, <3>3, <3>4
  <2> QED BY <2>1, <2>2
<1>3. TypeOK' BY <1>1, <1>2, NoneType DEF TypeOK, Remove
<1>4. Placed' BY <1>1, <1>2 DEF Placed, Remove, TypeOK
<1>5. KernelMirrors'
  BY <1>1, <1>2, Lookup DEF KernelMirrors, Remove, TypeOK, Alive, Placed, isNoneEvent
<1> QED BY <1>2, <1>3, <1>4, <1>5 DEF NoCtlFailure

\* So does a new channel object, also on a reused descriptor.
LEMMA ConstructKeeps ==
    ASSUME IInv, NEW c \in Chans, Construct(c)
    PROVE  IInv'
<1> USE FdOfAssumption, NoneAssumption
    DEF IInv, ChanOrNone, Index, loopVars, kernelVars, Construct
<1>1. \A d \in Chans : FdOf[d] = FdOf[c] => index_[d] = "kNew"
  BY DEF KernelMirrors, Alive
<1>2. TypeOK' BY NoneType DEF TypeOK
<1>3. Placed' BY DEF Placed, TypeOK
<1>4. KernelMirrors'
  BY <1>1 DEF KernelMirrors, TypeOK, Alive
<1> QED BY <1>2, <1>3, <1>4 DEF NoCtlFailure

\* So does closing a descriptor whose channel was removed.
LEMMA CloseKeeps ==
    ASSUME IInv, NEW c \in Chans, Close(c)
    PROVE  IInv'
<1> USE FdOfAssumption, NoneAssumption DEF IInv, ChanOrNone, Index, loopVars, Close
<1>1. \A d \in Chans : FdOf[d] = FdOf[c] => index_[d] = "kNew"
  BY Lookup
<1>2. TypeOK' BY NoneType DEF TypeOK
<1>3. Placed' BY DEF Placed, TypeOK
<1>4. KernelMirrors'
  BY <1>1 DEF KernelMirrors, TypeOK, Alive
<1> QED BY <1>2, <1>3, <1>4 DEF NoCtlFailure

\* poll, the dispatch and the descriptors' conditions change no registration.
LEMMA LoopKeeps ==
    ASSUME IInv, LoopStep \/ (\E fd \in Fds : Condition(fd)) \/ UNCHANGED vars
    PROVE  IInv'
<1> USE DEF IInv
<1>1. UNCHANGED <<chanVars, kernelVars>>
  BY DEF LoopStep, poll, Dispatch, EndHandling, EndFunctors, Condition, vars
<1>2. Placed' /\ KernelMirrors' /\ NoCtlFailure'
  BY <1>1 DEF chanVars, kernelVars, Placed, KernelMirrors, NoCtlFailure, Alive
<1>3. TypeOK'
  <2> USE DEF TypeOK, chanVars, kernelVars, loopVars, ChanOrNone, Phases
  <2>1. CASE poll
    <3>1. PICK S \in SUBSET Reportable :
            /\ activeChannels' = {registered[fd] : fd \in S}
            /\ listSize' = IF Cardinality(S) = listSize THEN 2 * listSize ELSE listSize
      BY <2>1 DEF poll
    <3>2. activeChannels' \subseteq Chans
      BY <3>1 DEF Reportable
    <3>3. listSize' \in Nat \ {0}
      BY <3>1
    <3> QED BY <1>1, <2>1, <3>2, <3>3 DEF poll
  <2>2. CASE Dispatch BY <1>1, <2>2 DEF Dispatch
  <2>3. CASE EndHandling BY <1>1, <2>3 DEF EndHandling
  <2>4. CASE EndFunctors BY <1>1, <2>4 DEF EndFunctors
  <2>5. ASSUME NEW fd \in Fds, Condition(fd) PROVE TypeOK'
    <3>1. ready' \in [Fds -> SUBSET (Requested \cup Unasked)]
      BY <2>5 DEF Condition, Unasked
    <3> QED BY <1>1, <2>5, <3>1 DEF Condition
  <2>6. CASE UNCHANGED vars BY <2>6 DEF vars
  <2> QED BY <2>1, <2>2, <2>3, <2>4, <2>5, <2>6 DEF LoopStep
<1> QED BY <1>2, <1>3

\* The inductive invariant of the poller.
LEMMA InductiveInvariant == SafetySpec => []IInv
<1>1. IInv /\ [Next]_vars => IInv'
  BY UpdateKeeps, RemoveKeeps, ConstructKeeps, CloseKeeps, LoopKeeps DEF Next
<1>2. SafetySpec => Init /\ [][Next]_vars
  BY DEF SafetySpec
<1> QED BY <1>1, <1>2, AtStart, PTL

\* Every variable of the poller keeps its type.
THEOREM TypeCorrect == SafetySpec => []TypeOK
  BY InductiveInvariant, PTL DEF IInv

\* The registration state of every channel agrees with the kernel's epoll set
\* and the map channels_, through any sequence of updates and reuses of
\* descriptors.
THEOREM IndexIsTrue == SafetySpec => []KernelMirrors
  BY InductiveInvariant, PTL DEF IInv

\* epoll_ctl never fails, so updateChannel never reaches LOG_SYSFATAL.
THEOREM CtlNeverFails == SafetySpec => []NoCtlFailure
  BY InductiveInvariant, PTL DEF IInv

-----------------------------------------------------------------------------
(* The epoll set implements the channels' interests *)

\* The refinement mapping of ImplementsInterest.
Interest == [c \in Chans |-> IF registered[FdOf[c]] = c THEN mask[FdOf[c]] ELSE kNoneEvent]

\* The initial states map to the initial state of PollerInterest.
LEMMA InterestAtStart == Init => PI!Init
  BY NoneAssumption, FdOfAssumption DEF Init, PI!Init

\* A channel that changes its mask changes its interest to that mask and no
\* one else's.
LEMMA UpdateRefines ==
    ASSUME IInv, NEW c \in Chans, Update(c)
    PROVE  \E m \in SUBSET Requested :
              /\ events_' = [events_ EXCEPT ![c] = m]
              /\ Interest' = [Interest EXCEPT ![c] = m]
<1> USE FdOfAssumption, NoneAssumption DEF IInv, ChanOrNone
<1> DEFINE fd == FdOf[c]
<1>1. PICK ev \in Updates(events_[c]) : events_' = [events_ EXCEPT ![c] = ev]
  BY DEF Update
<1>2. ev \in SUBSET Requested /\ events_'[c] = ev /\ fd \in Fds
  BY <1>1, UpdatesType DEF TypeOK
<1>3. Alive(c) /\ updateChannel(c)
  BY DEF Update
<1>4. \A d \in Chans : FdOf[d] = fd /\ d # c => registered[fd] # d
  BY <1>3, Lookup DEF KernelMirrors
<1>5. IInv'
  BY UpdateKeeps
<1>6. \/ registered' = [registered EXCEPT ![fd] = c] /\ mask' = [mask EXCEPT ![fd] = ev]
      \/ /\ ev = kNoneEvent
         /\ registered' = [registered EXCEPT ![fd] = None]
         /\ mask' = [mask EXCEPT ![fd] = kNoneEvent]
  <2>1. ctlFailed = FALSE /\ ctlFailed' = FALSE
    BY <1>5 DEF NoCtlFailure, TypeOK
  <2>2. CASE update("ADD", c) \/ update("MOD", c)
    <3>1. registered' = [registered EXCEPT ![fd] = c] /\ mask' = [mask EXCEPT ![fd] = ev]
      BY <1>2, <2>1, <2>2 DEF update
    <3> QED BY <3>1
  <2>3. CASE update("DEL", c) /\ isNoneEvent(ev)
    BY <1>2, <2>1, <2>3 DEF update, isNoneEvent
  <2> QED BY <1>2, <1>3, <2>2, <2>3 DEF updateChannel
<1>7. \A d \in Chans : Interest'[d] = IF d = c THEN ev ELSE Interest[d]
  BY <1>2, <1>4, <1>6 DEF TypeOK, Interest
<1>8. Interest' = [Interest EXCEPT ![c] = ev]
  BY <1>7 DEF Interest
<1> QED BY <1>1, <1>2, <1>8

\* A removed channel asked for nothing, and nothing changes.
LEMMA RemoveRefines ==
    ASSUME IInv, NEW c \in Chans, Remove(c)
    PROVE  Interest' = Interest /\ Interest[c] = kNoneEvent
<1> USE FdOfAssumption, NoneAssumption DEF IInv, ChanOrNone
<1> DEFINE fd == FdOf[c]
<1>1. Alive(c) /\ removeChannel(c) /\ events_[c] = kNoneEvent /\ fd \in Fds
  BY DEF Remove, isNoneEvent
<1>2. Interest[c] = kNoneEvent
  BY <1>1 DEF KernelMirrors, Interest
<1>3. \A d \in Chans : FdOf[d] = fd /\ d # c => registered[fd] # d
  BY <1>1, Lookup DEF KernelMirrors
<1>4. CASE index_[c] = "kAdded"
  <2>1. registered[fd] # None /\ update("DEL", c)
    BY <1>1, <1>4, Lookup DEF removeChannel
  <2>2. registered' = [registered EXCEPT ![fd] = None]
        /\ mask' = [mask EXCEPT ![fd] = kNoneEvent]
    BY <2>1 DEF update
  <2>3. \A d \in Chans : Interest'[d] = Interest[d]
    BY <1>1, <1>2, <1>3, <2>2 DEF TypeOK, Interest
  <2> QED BY <1>2, <2>3 DEF Interest
<1>5. CASE index_[c] # "kAdded"
  BY <1>1, <1>2, <1>5 DEF removeChannel, kernelVars, Interest
<1> QED BY <1>4, <1>5

\* Closing a descriptor finds no entry of it left.
LEMMA CloseRefines ==
    ASSUME IInv, NEW c \in Chans, Close(c)
    PROVE  Interest' = Interest
<1> USE FdOfAssumption, NoneAssumption DEF IInv, ChanOrNone, Close
<1>1. registered[FdOf[c]] = None
  BY Lookup
<1>2. \A d \in Chans : Interest'[d] = Interest[d]
  BY <1>1 DEF TypeOK, Interest
<1> QED BY <1>2 DEF Interest

\* A channel object constructed anew asked for nothing before.
LEMMA ConstructRefines ==
    ASSUME IInv, NEW c \in Chans, Construct(c)
    PROVE  events_' = events_ /\ Interest' = Interest
<1>1. index_[c] = "kNew"
  BY FdOfAssumption, NoneAssumption DEF IInv, KernelMirrors, Alive, Construct
<1>2. events_[c] = kNoneEvent
  BY <1>1 DEF IInv, KernelMirrors
<1>3. events_' = events_
  BY <1>2 DEF Construct, IInv, TypeOK
<1> QED BY <1>3 DEF Construct, kernelVars, Interest

\* The poller implements PollerInterest: through registrations, deregistrations
\* and reuses of a descriptor the kernel waits for exactly the events each
\* channel last asked for.
THEOREM RefinesInterest == SafetySpec => ImplementsInterest
<1>1. IInv /\ [Next]_vars => [PI!Next]_(PI!vars)
  <2> SUFFICES ASSUME IInv, [Next]_vars
               PROVE  PI!Next \/ (events_' = events_ /\ Interest' = Interest)
    BY DEF PI!vars, Interest
  <2>1. ASSUME NEW c \in Chans, Update(c) PROVE PI!Next
    <3>1. PICK m \in SUBSET Requested : /\ events_' = [events_ EXCEPT ![c] = m]
                                         /\ Interest' = [Interest EXCEPT ![c] = m]
      BY <2>1, UpdateRefines
    <3>2. PI!Change(c, m)
      BY <3>1 DEF PI!Change, Interest
    <3> QED BY <3>2 DEF PI!Next
  <2>2. ASSUME NEW c \in Chans, Remove(c) PROVE events_' = events_ /\ Interest' = Interest
    BY <2>2, RemoveRefines DEF Remove
  <2>3. ASSUME NEW c \in Chans, Close(c) PROVE events_' = events_ /\ Interest' = Interest
    BY <2>3, CloseRefines DEF Close
  <2>4. ASSUME UNCHANGED <<chanVars, kernelVars>>
        PROVE  events_' = events_ /\ Interest' = Interest
    BY <2>4 DEF chanVars, kernelVars, Interest
  <2>5. ASSUME NEW c \in Chans, Construct(c) PROVE events_' = events_ /\ Interest' = Interest
    BY <2>5, ConstructRefines
  <2>6. CASE LoopStep \/ (\E fd \in Fds : Condition(fd)) \/ UNCHANGED vars
    BY <2>4, <2>6 DEF LoopStep, poll, Dispatch, EndHandling, EndFunctors, Condition, vars
  <2> QED BY <2>1, <2>2, <2>3, <2>5, <2>6 DEF Next
<1>2. SafetySpec => Init /\ [][Next]_vars
  BY DEF SafetySpec
<1> QED BY <1>1, <1>2, InductiveInvariant, InterestAtStart, PTL
        DEF ImplementsInterest, PI!Spec
=============================================================================
