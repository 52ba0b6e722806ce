----------------------------- MODULE EventLoop -----------------------------
(***************************************************************************)
(* The reactor of cnet/net/EventLoop.{h,cc}: one loop thread that polls,   *)
(* dispatches the active channels and runs the functors other threads (and *)
(* its own callbacks) queued, and the threads that call runInLoop,         *)
(* queueInLoop and quit.                                                   *)
(*                                                                         *)
(* A step is what a thread does between two accesses to shared state: the  *)
(* push under mutex_ and the write to the eventfd are two steps of         *)
(* queueInLoop, the store to quit_ and the write two steps of quit, the    *)
(* test and the store of quit_ at the head of loop() two steps.            *)
(* eventHanding_, looping_ and currentActiveChannel_ are functions of pc.  *)
(***************************************************************************)
EXTENDS Naturals, Sequences, FiniteSets

CONSTANTS
    Threads,     \* the threads other than the loop's
    Loop,        \* the loop thread (threadId_)
    Functors,    \* names of queued calls; a name is free again once it ran
    MaxCalls,    \* bound: library calls made by one callback
    EventfdMax   \* the largest value the eventfd counter holds

ASSUME ThreadsAssumption == Loop \notin Threads
ASSUME MaxCallsAssumption == MaxCalls \in Nat
ASSUME EventfdMaxAssumption == EventfdMax \in Nat \ {0}

VARIABLES
    pc,                       \* where the loop thread is
    quit_,                    \* LoopState
    callingPendingFunctors_,
    pendingFunctors_,         \* guarded by mutex_
    functors,                 \* doPendingFunctors' local vector: what is left of it
    wakeupFd,                 \* the eventfd's counter
    activeChannels_,
    ioReady,                  \* a user channel is readable (level triggered)
    call,                     \* what each thread still owes the call it is in
    calls,                    \* library calls the current callback has made
    startup                   \* history: queued by the loop thread before loop()
                              \* with no wakeup

queueVars == <<pendingFunctors_, functors, startup>>
vars == <<pc, quit_, callingPendingFunctors_, pendingFunctors_, functors,
          wakeupFd, activeChannels_, ioReady, call, calls, startup>>

AllThreads == Threads \cup {Loop}
LoopState == {"CREATED", "RUNNING", "QUITED"}
Channels == {"wakeup", "io"}

\* The places where the loop thread runs code that is not the library's.
UserCode == {"setup", "handler", "functor"}
LoopPC == UserCode \cup {"check", "start", "while", "poll", "handle", "swap", "run", "done"}

Elements(s) == {s[i] : i \in 1..Len(s)}
Queued == Elements(pendingFunctors_) \cup Elements(functors)

(***************************************************************************)
(* The constructor leaves callingPendingFunctors_ uninitialised: either    *)
(* value.                                                                  *)
(***************************************************************************)
Init ==
    /\ pc = "setup"
    /\ quit_ = "CREATED"
    /\ callingPendingFunctors_ \in BOOLEAN
    /\ pendingFunctors_ = <<>>
    /\ functors = <<>>
    /\ wakeupFd = 0
    /\ activeChannels_ = <<>>
    /\ ioReady = FALSE
    /\ call = [t \in AllThreads |-> "none"]
    /\ calls = 0
    /\ startup = {}

isInLoopThread(t) == t = Loop

\* Thread t is in user code and may enter the library.
MayCall(t) ==
    /\ call[t] = "none"
    /\ isInLoopThread(t) => pc \in UserCode /\ calls < MaxCalls

CountCall(t) == calls' = IF isInLoopThread(t) THEN calls + 1 ELSE calls

-----------------------------------------------------------------------------
(* The interface other threads and callbacks use. *)

\* Mutants of NeedsWakeup: the second or the first half of the test is forgotten.
NeedsWakeup_NotInBatch(t) == ~isInLoopThread(t)
NeedsWakeup_InBatchOnly(t) == callingPendingFunctors_

NeedsWakeup(t) == ~isInLoopThread(t) \/ callingPendingFunctors_

\* queueInLoop up to the decision to wake the loop; wakeup() is the next step.
queueInLoop(t, f) ==
    /\ MayCall(t)
    /\ f \notin Queued
    /\ pendingFunctors_' = Append(pendingFunctors_, f)
    /\ call' = [call EXCEPT ![t] = IF NeedsWakeup(t) THEN "wakeup" ELSE "none"]
    /\ startup' = IF isInLoopThread(t) /\ pc = "setup" /\ ~callingPendingFunctors_
                  THEN startup \cup {f} ELSE startup
    /\ CountCall(t)
    /\ UNCHANGED <<pc, quit_, callingPendingFunctors_, functors, wakeupFd,
                   activeChannels_, ioReady>>

\* In the loop thread cb() runs inside the call: more user code, no queue.
RunNow(t) ==
    /\ isInLoopThread(t)
    /\ MayCall(t)
    /\ CountCall(t)
    /\ UNCHANGED <<pc, quit_, callingPendingFunctors_, queueVars, wakeupFd,
                   activeChannels_, ioReady, call>>

runInLoop(t, f) == RunNow(t) \/ (~isInLoopThread(t) /\ queueInLoop(t, f))

\* Mutant of quit: the loop is not woken.
quit_NoWakeup(t) ==
    /\ MayCall(t)
    /\ quit_' = "QUITED"
    /\ CountCall(t)
    /\ UNCHANGED <<pc, callingPendingFunctors_, queueVars, wakeupFd,
                   activeChannels_, ioReady, call>>

\* quit() up to the decision to wake the loop.
quit(t) ==
    /\ MayCall(t)
    /\ quit_' = "QUITED"
    /\ call' = [call EXCEPT ![t] = IF isInLoopThread(t) THEN "none" ELSE "wakeup"]
    /\ CountCall(t)
    /\ UNCHANGED <<pc, callingPendingFunctors_, queueVars, wakeupFd,
                   activeChannels_, ioReady>>

\* The eventfd is non-blocking: a write that would overflow it fails, is
\* logged, and leaves it readable.
wakeup(t) ==
    /\ call[t] = "wakeup"
    /\ wakeupFd' = IF wakeupFd < EventfdMax THEN wakeupFd + 1 ELSE wakeupFd
    /\ call' = [call EXCEPT ![t] = "none"]
    /\ UNCHANGED <<pc, quit_, callingPendingFunctors_, queueVars,
                   activeChannels_, ioReady, calls>>

-----------------------------------------------------------------------------
(* The loop thread. *)

\* The owner of the loop calls loop(): looping_ = true.
EnterLoop ==
    /\ pc = "setup" /\ call[Loop] = "none"
    /\ pc' = "check"
    /\ calls' = 0
    /\ UNCHANGED <<quit_, callingPendingFunctors_, queueVars, wakeupFd,
                   activeChannels_, ioReady, call>>

\* Mutant of CheckCreated: loop() stores RUNNING without the test.
CheckCreated_Skipped ==
    /\ pc = "check"
    /\ pc' = "start"
    /\ UNCHANGED <<quit_, callingPendingFunctors_, queueVars, wakeupFd,
                   activeChannels_, ioReady, call, calls>>

CheckCreated ==
    /\ pc = "check"
    /\ pc' = IF quit_ = "CREATED" THEN "start" ELSE "while"
    /\ UNCHANGED <<quit_, callingPendingFunctors_, queueVars, wakeupFd,
                   activeChannels_, ioReady, call, calls>>

StoreRunning ==
    /\ pc = "start"
    /\ quit_' = "RUNNING"
    /\ pc' = "while"
    /\ UNCHANGED <<callingPendingFunctors_, queueVars, wakeupFd,
                   activeChannels_, ioReady, call, calls>>

\* while (quit_ == RUNNING), and activeChannels_.clear() in its body.
While ==
    /\ pc = "while"
    /\ pc' = IF quit_ = "RUNNING" THEN "poll" ELSE "done"
    /\ activeChannels_' = IF quit_ = "RUNNING" THEN <<>> ELSE activeChannels_
    /\ UNCHANGED <<quit_, callingPendingFunctors_, queueVars, wakeupFd,
                   ioReady, call, calls>>

ReadyChannels ==
    (IF wakeupFd > 0 THEN {"wakeup"} ELSE {}) \cup (IF ioReady THEN {"io"} ELSE {})

\* The kernel lists every ready channel once, in an order of its choice.
Listings(S) ==
    {s \in UNION {[1..n -> S] : n \in 0..Cardinality(Channels)} :
        /\ Elements(s) = S
        /\ \A i, j \in DOMAIN s : s[i] = s[j] => i = j}

PollReady ==
    /\ pc = "poll"
    /\ ReadyChannels # {}
    /\ activeChannels_' \in Listings(ReadyChannels)
    /\ pc' = "handle"
    /\ UNCHANGED <<quit_, callingPendingFunctors_, queueVars, wakeupFd,
                   ioReady, call, calls>>

\* kPollTimeMs elapsed, or the wait was interrupted by a signal.
PollEmpty ==
    /\ pc = "poll"
    /\ ReadyChannels = {}
    /\ pc' = "handle"
    /\ UNCHANGED <<quit_, callingPendingFunctors_, queueVars, wakeupFd,
                   activeChannels_, ioReady, call, calls>>

\* wakeupChannel_'s read callback: reading the eventfd resets it.
handleRead ==
    /\ pc = "handle"
    /\ activeChannels_ # <<>> /\ Head(activeChannels_) = "wakeup"
    /\ wakeupFd' = 0
    /\ activeChannels_' = Tail(activeChannels_)
    /\ UNCHANGED <<pc, quit_, callingPendingFunctors_, queueVars, ioReady, call, calls>>

\* handleEvent of a user channel: its callback consumes the input.
HandleIo ==
    /\ pc = "handle"
    /\ activeChannels_ # <<>> /\ Head(activeChannels_) = "io"
    /\ ioReady' = FALSE
    /\ activeChannels_' = Tail(activeChannels_)
    /\ pc' = "handler"
    /\ UNCHANGED <<quit_, callingPendingFunctors_, queueVars, wakeupFd, call, calls>>

AllHandled ==
    /\ pc = "handle"
    /\ activeChannels_ = <<>>
    /\ pc' = "swap"
    /\ UNCHANGED <<quit_, callingPendingFunctors_, queueVars, wakeupFd,
                   activeChannels_, ioReady, call, calls>>

\* Mutant of SwapPending: the vector is copied, not swapped.
SwapPending_Copies ==
    /\ pc = "swap"
    /\ callingPendingFunctors_' = TRUE
    /\ functors' = pendingFunctors_
    /\ pc' = "run"
    /\ UNCHANGED <<quit_, pendingFunctors_, wakeupFd, activeChannels_, ioReady, call, calls,
                   startup>>

\* doPendingFunctors: take the whole queue under mutex_.
SwapPending ==
    /\ pc = "swap"
    /\ callingPendingFunctors_' = TRUE
    /\ functors' = pendingFunctors_
    /\ pendingFunctors_' = <<>>
    /\ startup' = {}
    /\ pc' = "run"
    /\ UNCHANGED <<quit_, wakeupFd, activeChannels_, ioReady, call, calls>>

RunFunctor ==
    /\ pc = "run"
    /\ functors # <<>>
    /\ functors' = Tail(functors)
    /\ pc' = "functor"
    /\ UNCHANGED <<quit_, callingPendingFunctors_, pendingFunctors_, wakeupFd,
                   activeChannels_, ioReady, call, calls, startup>>

\* Mutant of EndPending: functors are run until none is left.
EndPending_Drains ==
    /\ pc = "run"
    /\ functors = <<>>
    /\ callingPendingFunctors_' = FALSE
    /\ pc' = IF pendingFunctors_ = <<>> THEN "while" ELSE "swap"
    /\ UNCHANGED <<quit_, queueVars, wakeupFd, activeChannels_, ioReady, call, calls>>

EndPending ==
    /\ pc = "run"
    /\ functors = <<>>
    /\ callingPendingFunctors_' = FALSE
    /\ pc' = "while"
    /\ UNCHANGED <<quit_, queueVars, wakeupFd, activeChannels_, ioReady, call, calls>>

\* A channel callback or a functor returns to the library.
CallbackReturns ==
    /\ pc \in {"handler", "functor"} /\ call[Loop] = "none"
    /\ pc' = IF pc = "handler" THEN "handle" ELSE "run"
    /\ calls' = 0
    /\ UNCHANGED <<quit_, callingPendingFunctors_, queueVars, wakeupFd,
                   activeChannels_, ioReady, call>>

\* Input arrives on the user channel.
Arrive ==
    /\ ~ioReady
    /\ ioReady' = TRUE
    /\ UNCHANGED <<pc, quit_, callingPendingFunctors_, queueVars, wakeupFd,
                   activeChannels_, call, calls>>

-----------------------------------------------------------------------------
\* What the loop thread does of its own accord, the poll timeout excepted.
LoopStep ==
    \/ EnterLoop \/ CheckCreated \/ StoreRunning \/ While
    \/ PollReady \/ handleRead \/ HandleIo \/ AllHandled
    \/ SwapPending \/ RunFunctor \/ EndPending \/ CallbackReturns

Calls ==
    \E t \in AllThreads :
        \/ \E f \in Functors : queueInLoop(t, f) \/ runInLoop(t, f)
        \/ quit(t)
        \/ wakeup(t)

Next == LoopStep \/ PollEmpty \/ Calls \/ Arrive

(***************************************************************************)
(* The loop thread keeps running, callbacks return, and a thread that      *)
(* began a library call finishes it.  The poll timeout is NOT assumed to   *)
(* ever fire: what is shown does not wait kPollTimeMs for it.              *)
(***************************************************************************)
Fairness == WF_vars(LoopStep) /\ \A t \in AllThreads : WF_vars(wakeup(t))

SafetySpec == Init /\ [][Next]_vars
Spec == SafetySpec /\ Fairness

-----------------------------------------------------------------------------
(* Properties *)

\* Every variable stays in its type.
TypeOK ==
    /\ pc \in LoopPC
    /\ quit_ \in LoopState
    /\ callingPendingFunctors_ \in BOOLEAN
    /\ pendingFunctors_ \in Seq(Functors)
    /\ functors \in Seq(Functors)
    /\ wakeupFd \in 0..EventfdMax
    /\ activeChannels_ \in Seq(Channels)
    /\ ioReady \in BOOLEAN
    /\ call \in [AllThreads -> {"none", "wakeup"}]
    /\ calls \in 0..MaxCalls
    /\ startup \subseteq Functors

WakeupComing == wakeupFd > 0 \/ \E t \in AllThreads : call[t] = "wakeup"

\* "It wakes up the loop, and run the cb" (EventLoop.h:74): the loop thread
\* never sleeps in poll() over a functor, whoever queued it and whenever,
\* unless its eventfd is readable or the caller is about to write it.  The
\* only functors exempt are the ones the loop's own thread queued before
\* loop(), for which queueInLoop makes no wakeup (EventLoop.cc:156).
NoSleepOnFunctor ==
    pc = "poll" /\ (\E f \in Elements(pendingFunctors_) : f \notin startup) => WakeupComing

\* A quit() that reached quit_ is never slept over in poll(): EventLoop::quit
\* stores first and wakes second, so the test of quit_ cannot miss both.
NoSleepOnQuit == pc = "poll" /\ quit_ = "QUITED" => WakeupComing

WorkWaits == \E f \in Elements(pendingFunctors_) : f \notin startup

\* Why the two properties above hold.  Work that arrives while the loop is on
\* its way to the swap needs no wakeup; anywhere else a wakeup is written or on
\* its way.  It rests on callingPendingFunctors_ being true while a batch runs:
\* a functor queued by a functor comes too late for the swap.
WakeInv ==
    /\ pc \in {"run", "functor"} => callingPendingFunctors_
    /\ WorkWaits /\ pc \notin {"handle", "handler", "swap", "done"} => WakeupComing
    /\ pc = "poll" /\ quit_ = "QUITED" => WakeupComing

\* The batch taken by doPendingFunctors is finished before the next swap.
BatchInv == functors # <<>> => pc \in {"run", "functor"}

\* Functors are run once each in the order queueInLoop accepted them, through
\* the swap of doPendingFunctors and across batches.
TQ == INSTANCE TaskQueue WITH queue <- functors \o pendingFunctors_
RunsInOrder == TQ!Spec

\* A queued functor eventually starts, without the help of the poll timeout,
\* unless the loop stops first (startup functors are the exception above).
FunctorRuns ==
    \A f \in Functors :
        (f \in Queued /\ f \notin startup) ~> (f \notin Queued \/ pc = "done")

\* A quit() by anyone ends loop(), provided it does not fall between the test
\* and the store at the head of loop().
QuitEndsLoop == (quit_ = "QUITED" /\ pc # "start") ~> (pc = "done")

\* Functors that keep queueing functors do not starve the channels: ready
\* input is handled unless the loop stops.
IoHandled == ioReady ~> (~ioReady \/ pc = "done")
=============================================================================
