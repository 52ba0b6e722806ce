----------------------------- MODULE TimerQueue -----------------------------
(***************************************************************************)
(* cnet/net/TimerQueue.{h,cc} with Timer and TimerId: the ordered set of   *)
(* timers, the set used to cancel, the timerfd, the heap the timers live   *)
(* in, and the threads that add and cancel.                                *)
(*                                                                         *)
(* An id is a pair <<address, sequence>>; addresses are reused after       *)
(* delete, sequences never.  A cell of the heap with seq 0 is free.  Calls *)
(* from other threads go through the loop's queue of functors (TaskQueue). *)
(* Time is counted in units of the 100 microseconds that                   *)
(* howMuchTimeFromNow takes as its minimum.  The timerfd counts monotonic  *)
(* time and Timestamp is wall-clock time: it may fire early or late.       *)
(***************************************************************************)
EXTENDS Naturals, Sequences, FiniteSets

CONSTANTS
    Threads,    \* threads other than the loop's
    Addrs,      \* addresses for Timer objects, a set of numbers
    MaxSeq,     \* bound: timers created
    MaxTime,    \* bound: the clock; timers are set for one unit more
    MaxQueue,   \* bound: functors waiting in the loop
    Interval    \* the interval of repeating timers

ASSUME AddrsAssumption == Addrs \subseteq Nat \ {0}   \* 0 is the null pointer
ASSUME BoundsAssumption == MaxSeq \in Nat /\ MaxTime \in Nat /\ MaxQueue \in Nat
ASSUME IntervalAssumption == Interval \in Nat \ {0}

VARIABLES
    now,                     \* the wall clock
    heap,                    \* the Timer objects
    created,                 \* Timer::s_numCreated_
    timers_, activeTimers_,
    callingExpiredTimers_, cancelingTimers_,
    expired,                 \* handleRead: addresses moved out of timers_
    toRun,                   \* handleRead: those whose callback has not started
    batchNow,                \* handleRead: its now
    armed,                   \* when the timerfd is to fire; 0: disarmed
    readable,                \* the timerfd has fired
    active,                  \* poll() reported the timerfd's channel
    queue,                   \* the loop's pending functors
    reading,                 \* the timer whose sequence() a thread in addTiemr
                             \* is about to read; 0: none
    ids,                     \* the TimerIds clients hold
    cancelled                \* history: sequences cancelled while in a batch

setVars == <<timers_, activeTimers_>>
batchVars == <<callingExpiredTimers_, cancelingTimers_, expired, toRun, batchNow>>
fdVars == <<armed, readable>>
clientVars == <<queue, reading, ids>>
vars == <<now, heap, created, setVars, batchVars, fdVars, active, clientVars, cancelled>>

Free == [seq |-> 0, expiration |-> 0, repeat |-> FALSE]

Init ==
    /\ now = 1
    /\ heap = [a \in Addrs |-> Free]
    /\ created = 0
    /\ timers_ = {} /\ activeTimers_ = {}
    /\ callingExpiredTimers_ = FALSE /\ cancelingTimers_ = {}
    /\ expired = {} /\ toRun = {} /\ batchNow = 0
    /\ armed = 0 /\ readable = FALSE
    /\ active = FALSE
    /\ queue = <<>>
    /\ reading = [t \in Threads |-> 0]
    /\ ids = {}
    /\ cancelled = {}

\* The id under which an address is, or would be, in activeTimers_.
ActiveTimer(a) == <<a, heap[a].seq>>

-----------------------------------------------------------------------------
(* The timerfd *)

\* Mutant of howMuchTimeFromNow: of a time that has come nothing is left.
howMuchTimeFromNow_NoFloor(when) == IF when < now THEN 0 ELSE when - now

\* The time that is left, and never less than one unit.
howMuchTimeFromNow(when) == IF when < now + 1 THEN 1 ELSE when - now

\* timerfd_settime with a relative time, of which 0 disarms; a fired timerfd
\* that was not read yet is no longer readable.
resetTimerfd(when) ==
    /\ armed' = IF howMuchTimeFromNow(when) = 0 THEN 0 ELSE now + howMuchTimeFromNow(when)
    /\ readable' = FALSE

-----------------------------------------------------------------------------
(* TimerQueue, in the loop thread *)

\* insert: the timer joins both sets; is it the earliest?
Inserted(S, a, when) == S \cup {<<when, a>>}
\* Mutant of earliestChanged: it is never set.
earliestChanged_Never(when) == FALSE

earliestChanged(when) == \A e \in timers_ : when < e[1]

\* Mutant of addTimerInLoop: the timer joins timers_ only.
addTimerInLoop_OneSet(a, timer) ==
    /\ timers_' = Inserted(timers_, a, timer.expiration)
    /\ IF earliestChanged(timer.expiration)
       THEN resetTimerfd(timer.expiration) ELSE UNCHANGED fdVars
    /\ UNCHANGED activeTimers_

addTimerInLoop(a, timer) ==
    /\ timers_' = Inserted(timers_, a, timer.expiration)
    /\ activeTimers_' = activeTimers_ \cup {<<a, timer.seq>>}
    /\ IF earliestChanged(timer.expiration)
       THEN resetTimerfd(timer.expiration) ELSE UNCHANGED fdVars

\* Mutant of cancelInLoop: the erased timer is not deleted.
cancelInLoop_NoDelete(id) ==
    /\ timers_' = timers_ \ {<<heap[id[1]].expiration, id[1]>>}
    /\ activeTimers_' = activeTimers_ \ {id}
    /\ UNCHANGED <<heap, cancelingTimers_, cancelled>>

\* An id whose timer is in the sets is erased and deleted; during the callbacks
\* any other id is noted; otherwise nothing happens.
cancelInLoop(id) ==
    \/ /\ id \in activeTimers_
       /\ timers_' = timers_ \ {<<heap[id[1]].expiration, id[1]>>}
       /\ activeTimers_' = activeTimers_ \ {id}
       /\ heap' = [heap EXCEPT ![id[1]] = Free]
       /\ UNCHANGED <<cancelingTimers_, cancelled>>
    \/ /\ id \notin activeTimers_
       /\ cancelingTimers_' = IF callingExpiredTimers_
                              THEN cancelingTimers_ \cup {id} ELSE cancelingTimers_
       /\ cancelled' = IF \E a \in expired : ActiveTimer(a) = id
                       THEN cancelled \cup {id[2]} ELSE cancelled
       /\ UNCHANGED <<setVars, heap>>

\* handleRead up to the first callback: read the timerfd, getExpired, and
\* prepare for cancels made by the callbacks.
Due == {e \in timers_ : e[1] <= now}

handleRead ==
    /\ active
    /\ active' = FALSE
    /\ readable' = FALSE
    /\ batchNow' = now
    /\ timers_' = timers_ \ Due
    /\ expired' = {e[2] : e \in Due}
    /\ toRun' = expired'
    /\ activeTimers_' = activeTimers_ \ {ActiveTimer(a) : a \in expired'}
    /\ callingExpiredTimers_' = TRUE
    /\ cancelingTimers_' = {}
    /\ UNCHANGED <<now, heap, created, armed, clientVars, cancelled>>

\* The callbacks run in the order of the set timers_: by expiration, then by
\* address.
Before(a, b) ==
    \/ heap[a].expiration < heap[b].expiration
    \/ heap[a].expiration = heap[b].expiration /\ a < b

RunTimer ==
    /\ callingExpiredTimers_
    /\ \E a \in toRun :
          /\ \A b \in toRun \ {a} : Before(a, b)
          /\ toRun' = toRun \ {a}
    /\ UNCHANGED <<now, heap, created, setVars, callingExpiredTimers_, cancelingTimers_,
                   expired, batchNow, fdVars, active, clientVars, cancelled>>

\* Mutant of Restarted: cancels made by the callbacks are ignored.
Restarted_Cancelled == {a \in expired : heap[a].repeat}

\* reset: repeating timers that were not cancelled are restarted, the others
\* deleted; the timerfd is armed for the earliest timer, if any.
Restarted == {a \in expired : heap[a].repeat /\ ActiveTimer(a) \notin cancelingTimers_}

reset ==
    /\ callingExpiredTimers_
    /\ toRun = {}
    /\ callingExpiredTimers_' = FALSE
    /\ expired' = {} /\ batchNow' = 0
    /\ heap' = [a \in Addrs |->
                  IF a \in Restarted THEN [heap[a] EXCEPT !.expiration = batchNow + Interval]
                  ELSE IF a \in expired THEN Free
                  ELSE heap[a]]
    /\ timers_' = timers_ \cup {<<batchNow + Interval, a>> : a \in Restarted}
    /\ activeTimers_' = activeTimers_ \cup {ActiveTimer(a) : a \in Restarted}
    /\ IF timers_' = {} THEN UNCHANGED fdVars
       ELSE \E e \in timers_' :
               /\ \A f \in timers_' : e[1] <= f[1]
               /\ resetTimerfd(e[1])
    /\ UNCHANGED <<now, created, cancelingTimers_, toRun, active, clientVars, cancelled>>

-----------------------------------------------------------------------------
(* The event loop around it *)

\* The loop thread is in user code: another channel's callback or a functor,
\* or a timer's callback.
InUserCode == callingExpiredTimers_ => toRun # expired

\* poll() reports the readable timerfd; the callbacks of channels ahead of it
\* in the list may run first.
PollTimerfd ==
    /\ ~callingExpiredTimers_ /\ ~active
    /\ readable
    /\ active' = TRUE
    /\ UNCHANGED <<now, heap, created, setVars, batchVars, fdVars, clientVars, cancelled>>

RunAdd ==
    /\ ~callingExpiredTimers_
    /\ queue # <<>> /\ Head(queue).op = "add"
    /\ LET a == Head(queue).id[1] IN addTimerInLoop(a, heap[a])
    /\ queue' = Tail(queue)
    /\ UNCHANGED <<now, heap, created, batchVars, active, reading, ids, cancelled>>

RunCancel ==
    /\ ~callingExpiredTimers_
    /\ queue # <<>> /\ Head(queue).op = "cancel"
    /\ cancelInLoop(Head(queue).id)
    /\ queue' = Tail(queue)
    /\ UNCHANGED <<now, created, callingExpiredTimers_, expired, toRun, batchNow,
                   fdVars, active, reading, ids>>

-----------------------------------------------------------------------------
(* addTiemr and cancel *)

\* new Timer(cb, when, interval) at a free address.
NewTimer(a, when, rep) ==
    /\ heap[a] = Free
    /\ created < MaxSeq
    /\ created' = created + 1
    /\ heap' = [heap EXCEPT ![a] = [seq |-> created + 1, expiration |-> when, repeat |-> rep]]

\* addTiemr in the loop thread: addTimerInLoop runs inside it.
AddInLoop(a, when, rep) ==
    /\ InUserCode
    /\ NewTimer(a, when, rep)
    /\ addTimerInLoop(a, heap'[a])
    /\ ids' = ids \cup {<<a, created'>>}
    /\ UNCHANGED <<now, batchVars, active, queue, reading, cancelled>>

\* addTiemr in another thread: the functor is queued ...
AddOffLoop(t, a, when, rep) ==
    /\ reading[t] = 0
    /\ Len(queue) < MaxQueue
    /\ NewTimer(a, when, rep)
    /\ queue' = Append(queue, [op |-> "add", id |-> <<a, created'>>])
    /\ reading' = [reading EXCEPT ![t] = a]
    /\ UNCHANGED <<now, setVars, batchVars, fdVars, active, ids, cancelled>>

\* ... and then timer->sequence() is read to make the id.  The timer may be
\* gone by now, or its address another timer's: the id is what the cell holds.
ReadSequence(t) ==
    /\ reading[t] # 0
    /\ ids' = ids \cup {ActiveTimer(reading[t])}
    /\ reading' = [reading EXCEPT ![t] = 0]
    /\ UNCHANGED <<now, heap, created, setVars, batchVars, fdVars, active, queue, cancelled>>

CancelHere(id) ==
    /\ InUserCode
    /\ cancelInLoop(id)
    /\ UNCHANGED <<now, created, callingExpiredTimers_, expired, toRun, batchNow,
                   fdVars, active, clientVars>>

CancelOffLoop(id) ==
    /\ Threads # {}
    /\ Len(queue) < MaxQueue
    /\ queue' = Append(queue, [op |-> "cancel", id |-> id])
    /\ UNCHANGED <<now, heap, created, setVars, batchVars, fdVars, active, reading, ids,
                   cancelled>>

-----------------------------------------------------------------------------
Tick ==
    /\ now < MaxTime
    /\ now' = now + 1
    /\ UNCHANGED <<heap, created, setVars, batchVars, fdVars, active, clientVars, cancelled>>

Fire ==
    /\ armed # 0
    /\ armed' = 0
    /\ readable' = TRUE
    /\ UNCHANGED <<now, heap, created, setVars, batchVars, active, clientVars, cancelled>>

RunFunctor == RunAdd \/ RunCancel

Clients ==
    \/ \E a \in Addrs, when \in 1..(MaxTime + 1), rep \in BOOLEAN :
          AddInLoop(a, when, rep) \/ \E t \in Threads : AddOffLoop(t, a, when, rep)
    \/ \E t \in Threads : ReadSequence(t)
    \/ \E id \in ids : CancelHere(id) \/ CancelOffLoop(id)

Next ==
    \/ handleRead \/ RunTimer \/ reset \/ PollTimerfd \/ RunFunctor
    \/ Clients \/ Tick \/ Fire

(***************************************************************************)
(* The loop thread keeps running and callbacks return; an armed timerfd    *)
(* fires at last.                                                          *)
(***************************************************************************)
SafetySpec == Init /\ [][Next]_vars
Spec ==
    /\ SafetySpec
    /\ WF_vars(handleRead) /\ WF_vars(RunTimer) /\ WF_vars(reset)
    /\ WF_vars(PollTimerfd) /\ WF_vars(RunFunctor) /\ WF_vars(Fire)

-----------------------------------------------------------------------------
(* Properties *)

Scheduled == {e[2] : e \in timers_}

\* timers_ and activeTimers_ describe the same timers, each once, under its own
\* expiration and sequence, through cancels from inside callbacks and reuse of
\* addresses: the assertions at TimerQueue.cc:158-173, 200-222, 260-281.
SetsAgree ==
    /\ timers_ = {<<heap[a].expiration, a>> : a \in Scheduled}
    /\ activeTimers_ = {ActiveTimer(a) : a \in Scheduled}

InQueue == {queue[i].id[1] : i \in {j \in 1..Len(queue) : queue[j].op = "add"}}

\* Every Timer object has exactly one place that will delete it: a queued
\* functor, the sets, or the batch of handleRead.  Nothing leaks, nothing is
\* deleted twice, and no set refers to a deleted timer.
OneOwner ==
    /\ {a \in Addrs : heap[a] # Free} = Scheduled \cup expired \cup InQueue
    /\ Scheduled \cap expired = {}
    /\ (Scheduled \cup expired) \cap InQueue = {}

Later(x, y) == IF x < y THEN y ELSE x

\* Between two batches a pending timer always has the timerfd armed for its
\* time or earlier, or already fired: no cancel, early wakeup, overwritten
\* timerfd_settime or relative time that has shrunk to 0, which would disarm
\* the timerfd, leaves a timer without an alarm.
AlarmCovers ==
    timers_ # {} /\ ~callingExpiredTimers_ =>
        \/ readable \/ active
        \/ armed # 0 /\ \A e \in timers_ : armed <= Later(e[1], now + 1)

\* A timer cancelled while handleRead had moved it out of the sets - by its own
\* callback, or by one that ran before it - is not scheduled again: it is still
\* in that batch, noted for deletion, or gone.
CancelSticks ==
    \A a \in Addrs :
        heap[a].seq \in cancelled => a \in expired /\ ActiveTimer(a) \in cancelingTimers_

\* The queue catches up: timers that are due run or are cancelled, until none
\* is due.
DueTimersRun == (Due # {}) ~> (Due = {})

\* "Must be thread safe. Usually be called from other threads."
\* (TimerQueue.h:37): the timer whose sequence addTiemr is about to read
\* (TimerQueue.cc:122) is the one it created.  The loop thread may have run and
\* deleted it already.
SequenceReadAlive ==
    \A t \in Threads : reading[t] # 0 => heap[reading[t]] # Free
=============================================================================
