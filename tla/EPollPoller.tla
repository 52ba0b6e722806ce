---------------------------- MODULE EPollPoller ----------------------------
(***************************************************************************)
(* cnet/net/poller/EPollPoller.cc with the channels that register with it  *)
(* and the kernel's epoll set: the three registration states of a channel, *)
(* the map channels_, the list events_ that bounds what one epoll_wait     *)
(* returns, and the loop that dispatches what was returned.                *)
(*                                                                         *)
(* Several channel objects may use the same file descriptor one after the  *)
(* other: descriptor numbers are reused after close().                     *)
(*                                                                         *)
(* The clients obey what every client in cnet/net does: a channel is       *)
(* removed with no events left, before its descriptor is closed, and while *)
(* channels are being dispatched only the channel whose handler runs, or   *)
(* one that is not waiting for its dispatch, is removed (the assertion of  *)
(* EventLoop::removeChannel).                                              *)
(***************************************************************************)
EXTENDS Channel, Naturals, FiniteSets

CONSTANTS
    Chans,               \* channel objects
    Fds,                 \* file descriptors
    FdOf,                \* the descriptor of each channel object
    None,                \* no channel
    kInitEventListSize   \* initial size of events_

ASSUME FdOfAssumption == FdOf \in [Chans -> Fds]
ASSUME NoneAssumption == None \notin Chans
ASSUME ListSizeAssumption == kInitEventListSize \in Nat \ {0}

VARIABLES
    owner,            \* the open descriptor's channel object, or None
    events_,          \* Channel::events_
    index_,           \* Channel::index_
    channels_,        \* Poller::channels_
    registered,       \* kernel: data.ptr of the descriptor's entry, or None
    mask,             \* kernel: the entry's events
    ctlFailed,        \* some epoll_ctl failed
    listSize,         \* events_.size()
    ready,            \* kernel: the condition of each descriptor
    phase,            \* what the loop is doing
    activeChannels,   \* channels still to dispatch in this iteration
    current           \* EventLoop::currentActiveChannel_

chanVars == <<owner, events_, index_, channels_>>
kernelVars == <<registered, mask, ctlFailed>>
loopVars == <<phase, activeChannels, current>>
vars == <<chanVars, kernelVars, listSize, ready, loopVars>>

ChanOrNone == Chans \cup {None}
Index == {"kNew", "kAdded", "kDeleted"}
Phases == {"poll", "handle", "functors"}

Init ==
    /\ owner = [fd \in Fds |-> None]
    /\ events_ = [c \in Chans |-> kNoneEvent]
    /\ index_ = [c \in Chans |-> "kNew"]
    /\ channels_ = [fd \in Fds |-> None]
    /\ registered = [fd \in Fds |-> None]
    /\ mask = [fd \in Fds |-> kNoneEvent]
    /\ ctlFailed = FALSE
    /\ listSize = kInitEventListSize
    /\ ready = [fd \in Fds |-> {}]
    /\ phase = "functors"
    /\ activeChannels = {}
    /\ current = None

Alive(c) == owner[FdOf[c]] = c
InUserCode == phase = "functors" \/ current # None

-----------------------------------------------------------------------------
(* The kernel's epoll set, as EPollPoller::update uses it. *)

\* Mutant of update: the kernel is given the mask from before the change.
update_StaleMask(op, c) ==
    LET fd == FdOf[c] IN
    /\ registered' = [registered EXCEPT ![fd] = IF op = "DEL" THEN None ELSE c]
    /\ mask' = [mask EXCEPT ![fd] = IF op = "DEL" THEN kNoneEvent ELSE events_[c]]
    /\ UNCHANGED ctlFailed

\* EPOLL_CTL_ADD of a present descriptor and EPOLL_CTL_MOD or DEL of an absent
\* one fail; update() aborts on the first two and logs the third.
update(op, c) ==
    LET fd == FdOf[c]
        ok == (op = "ADD") <=> (registered[fd] = None)
    IN  /\ ctlFailed' = (ctlFailed \/ ~ok)
        /\ registered' =
              IF ok THEN [registered EXCEPT ![fd] = IF op = "DEL" THEN None ELSE c]
                    ELSE registered
        /\ mask' =
              IF ok THEN [mask EXCEPT ![fd] = IF op = "DEL" THEN kNoneEvent ELSE events_'[c]]
                    ELSE mask

-----------------------------------------------------------------------------
(* EPollPoller *)

updateChannel(c) ==
    LET fd == FdOf[c] IN
    \/ /\ index_[c] \in {"kNew", "kDeleted"}
       /\ channels_' = IF index_[c] = "kNew" THEN [channels_ EXCEPT ![fd] = c] ELSE channels_
       /\ index_' = [index_ EXCEPT ![c] = "kAdded"]
       /\ update("ADD", c)
    \/ /\ index_[c] = "kAdded"
       /\ isNoneEvent(events_'[c])
       /\ update("DEL", c)
       /\ index_' = [index_ EXCEPT ![c] = "kDeleted"]
       /\ UNCHANGED channels_
    \/ /\ index_[c] = "kAdded"
       /\ ~isNoneEvent(events_'[c])
       /\ update("MOD", c)
       /\ UNCHANGED <<index_, channels_>>

\* Mutants of removeChannel: set_index(kNew) is missing, or the EPOLL_CTL_DEL is.
removeChannel_KeepsIndex(c) ==
    /\ channels_' = [channels_ EXCEPT ![FdOf[c]] = None]
    /\ \/ index_[c] = "kAdded" /\ update("DEL", c)
       \/ index_[c] # "kAdded" /\ UNCHANGED kernelVars
    /\ UNCHANGED index_
removeChannel_NoDel(c) ==
    /\ channels_' = [channels_ EXCEPT ![FdOf[c]] = None]
    /\ index_' = [index_ EXCEPT ![c] = "kNew"]
    /\ UNCHANGED kernelVars

removeChannel(c) ==
    /\ channels_' = [channels_ EXCEPT ![FdOf[c]] = None]
    /\ index_' = [index_ EXCEPT ![c] = "kNew"]
    /\ \/ index_[c] = "kAdded" /\ update("DEL", c)
       \/ index_[c] # "kAdded" /\ UNCHANGED kernelVars

\* What epoll_wait can report for a descriptor: requested events that hold,
\* and HUP and ERR whatever was requested.
Revents(fd) == ready[fd] \cap (mask[fd] \cup Unasked)
Reportable == {fd \in Fds : registered[fd] # None /\ Revents(fd) # {}}

\* Mutant of poll: a full list is not enlarged.
poll_FixedList ==
    /\ phase = "poll"
    /\ \E S \in SUBSET Reportable :
          /\ Cardinality(S) = IF Cardinality(Reportable) < listSize
                              THEN Cardinality(Reportable) ELSE listSize
          /\ activeChannels' = {registered[fd] : fd \in S}
    /\ phase' = "handle"
    /\ UNCHANGED <<chanVars, kernelVars, listSize, ready, current>>

\* epoll_wait fills at most listSize entries; which ones is the kernel's choice.
\* A full list is doubled.  poll with nothing reportable is a timeout or EINTR.
poll ==
    /\ phase = "poll"
    /\ \E S \in SUBSET Reportable :
          /\ Cardinality(S) = IF Cardinality(Reportable) < listSize
                              THEN Cardinality(Reportable) ELSE listSize
          /\ activeChannels' = {registered[fd] : fd \in S}
          /\ listSize' = IF Cardinality(S) = listSize THEN 2 * listSize ELSE listSize
    /\ phase' = "handle"
    /\ UNCHANGED <<chanVars, kernelVars, ready, current>>

-----------------------------------------------------------------------------
(* EventLoop::loop: the dispatch of the active channels, then the functors. *)

\* The active list's order is the kernel's: any channel left may be next.
Dispatch ==
    /\ phase = "handle"
    /\ \E c \in activeChannels :
          /\ current' = c
          /\ activeChannels' = activeChannels \ {c}
    /\ UNCHANGED <<chanVars, kernelVars, listSize, ready, phase>>

EndHandling ==
    /\ phase = "handle"
    /\ activeChannels = {}
    /\ current' = None
    /\ phase' = "functors"
    /\ UNCHANGED <<chanVars, kernelVars, listSize, ready, activeChannels>>

EndFunctors ==
    /\ phase = "functors"
    /\ phase' = "poll"
    /\ UNCHANGED <<chanVars, kernelVars, listSize, ready, activeChannels, current>>

-----------------------------------------------------------------------------
(* Clients, from a handler or a functor. *)

\* A descriptor is opened and a channel constructed on it.
Construct(c) ==
    /\ InUserCode
    /\ owner[FdOf[c]] = None
    /\ owner' = [owner EXCEPT ![FdOf[c]] = c]
    /\ events_' = [events_ EXCEPT ![c] = kNoneEvent]
    /\ index_' = [index_ EXCEPT ![c] = "kNew"]
    /\ ready' = [ready EXCEPT ![FdOf[c]] = {}]
    /\ UNCHANGED <<channels_, kernelVars, listSize, loopVars>>

\* enableReading, disableReading, enableWriting, disableWriting, disableAll:
\* change events_ and update().
Update(c) ==
    /\ InUserCode
    /\ Alive(c)
    /\ \E ev \in Updates(events_[c]) : events_' = [events_ EXCEPT ![c] = ev]
    /\ updateChannel(c)
    /\ UNCHANGED <<owner, listSize, ready, loopVars>>

Remove(c) ==
    /\ InUserCode
    /\ Alive(c)
    /\ index_[c] # "kNew"
    /\ isNoneEvent(events_[c])
    /\ c \notin activeChannels
    /\ removeChannel(c)
    /\ UNCHANGED <<owner, events_, listSize, ready, loopVars>>

\* The channel object is destroyed and its descriptor closed; closing drops
\* the descriptor from the epoll set if it is still there.
Close(c) ==
    LET fd == FdOf[c] IN
    /\ InUserCode
    /\ Alive(c)
    /\ index_[c] = "kNew"
    /\ c # current
    /\ owner' = [owner EXCEPT ![fd] = None]
    /\ registered' = [registered EXCEPT ![fd] = None]
    /\ mask' = [mask EXCEPT ![fd] = kNoneEvent]
    /\ ready' = [ready EXCEPT ![fd] = {}]
    /\ UNCHANGED <<events_, index_, channels_, ctlFailed, listSize, loopVars>>

\* The condition of an open descriptor changes.
Condition(fd) ==
    /\ owner[fd] # None
    /\ \E r \in SUBSET (Requested \cup {"HUP"}) : ready' = [ready EXCEPT ![fd] = r]
    /\ UNCHANGED <<chanVars, kernelVars, listSize, loopVars>>

LoopStep == poll \/ Dispatch \/ EndHandling \/ EndFunctors

Next ==
    \/ LoopStep
    \/ \E c \in Chans : Construct(c) \/ Update(c) \/ Remove(c) \/ Close(c)
    \/ \E fd \in Fds : Condition(fd)

\* The loop thread keeps running and its callbacks return.
SafetySpec == Init /\ [][Next]_vars
Spec == SafetySpec /\ WF_vars(LoopStep)

-----------------------------------------------------------------------------
(* Properties *)

\* Every variable stays in its type.
TypeOK ==
    /\ owner \in [Fds -> ChanOrNone]
    /\ events_ \in [Chans -> SUBSET Requested]
    /\ index_ \in [Chans -> Index]
    /\ channels_ \in [Fds -> ChanOrNone]
    /\ registered \in [Fds -> ChanOrNone]
    /\ mask \in [Fds -> SUBSET Requested]
    /\ ctlFailed \in BOOLEAN
    /\ listSize \in Nat \ {0}
    /\ ready \in [Fds -> SUBSET (Requested \cup Unasked)]
    /\ phase \in Phases
    /\ activeChannels \subseteq Chans
    /\ current \in ChanOrNone

\* A channel's index_ tells the truth about the epoll set and channels_ in any
\* order of updates, removals and reuses of descriptors: the assertions of
\* updateChannel, removeChannel and fillActiveChannels (EPollPoller.cc:92-178).
KernelMirrors ==
    \A c \in Chans :
        LET fd == FdOf[c] IN
        /\ index_[c] = "kAdded" <=> registered[fd] = c
        /\ index_[c] # "kNew" <=> channels_[fd] = c
        /\ index_[c] = "kAdded" => mask[fd] = events_[c]
        /\ index_[c] # "kAdded" => events_[c] = kNoneEvent
        /\ index_[c] # "kNew" => Alive(c)

\* epoll_ctl never fails, so update() never aborts the process nor logs.
NoCtlFailure == ~ctlFailed

\* The map, the epoll set and the owners name a descriptor's own channels only.
Placed ==
    \A fd \in Fds : \A c \in Chans :
        c \in {owner[fd], channels_[fd], registered[fd]} => FdOf[c] = fd

\* What the kernel waits for is what the channels last asked for, and a change
\* of one channel's events reaches no other's, also when they share a descriptor
\* one after the other.
PI == INSTANCE PollerInterest
        WITH Masks <- SUBSET Requested, NoMask <- kNoneEvent, asked <- events_,
             interest <- [c \in Chans |-> IF registered[FdOf[c]] = c
                                          THEN mask[FdOf[c]] ELSE kNoneEvent]
ImplementsInterest == PI!Spec

Deliverable(c) ==
    /\ registered[FdOf[c]] = c
    /\ Revents(FdOf[c]) # {}

\* However short events_ is at the start and whichever ready descriptors the
\* kernel prefers, a channel whose event stays pending is dispatched again and
\* again: the list doubles until no one is left out (EPollPoller.cc:62).
NoStarvation ==
    \A c \in Chans : <>[]Deliverable(c) => []<>(current = c)
=============================================================================
