-------------------------- MODULE EventLoopThread --------------------------
(***************************************************************************)
(* cnet/net/EventLoopThread.{h,cc} composed with the EventLoop it runs:    *)
(* an owner thread that calls startLoop(), uses the loop, and destroys the *)
(* EventLoopThread; the new thread that constructs the loop, publishes it  *)
(* under mutex_, runs it and clears the pointer.                           *)
(*                                                                         *)
(* pc = "setup" of EventLoop is callback_, run before the publication.     *)
(***************************************************************************)
EXTENDS EventLoop

CONSTANT Owner   \* the thread that owns the EventLoopThread, one of Threads

VARIABLES
    owner,   \* where the owner is
    loop_    \* "NULL" or "loop"

allVars == <<vars, owner, loop_>>

OwnerPC == {"constructed", "waiting", "using", "destructing", "quitting", "joining", "gone"}

InitT ==
    /\ Init
    /\ owner = "constructed"
    /\ loop_ = "NULL"

\* startLoop: thread_.start(), then the wait for loop_ != NULL.
startLoop ==
    /\ owner = "constructed"
    /\ owner' = "waiting"
    /\ UNCHANGED <<vars, loop_>>

\* The wait of startLoop ends: mutex_ is held and loop_ is not NULL.
startLoopReturns ==
    /\ owner = "waiting"
    /\ loop_ # "NULL"
    /\ owner' = "using"
    /\ UNCHANGED <<vars, loop_>>

\* threadFunc after callback_: loop_ = &loop and notify, under mutex_.
Publish ==
    /\ owner # "constructed"
    /\ pc = "setup" /\ call[Loop] = "none" /\ loop_ = "NULL"
    /\ loop_' = "loop"
    /\ UNCHANGED <<vars, owner>>

\* threadFunc after loop.loop(): loop_ = NULL, without mutex_.
ClearLoop ==
    /\ pc = "done" /\ loop_ # "NULL"
    /\ loop_' = "NULL"
    /\ UNCHANGED <<vars, owner>>

\* ~EventLoopThread: a NULL loop_ (never started, or already returned) needs
\* neither quit() nor join().
DestructNoLoop ==
    /\ owner \in {"constructed", "using"}
    /\ loop_ = "NULL"
    /\ owner' = "gone"
    /\ UNCHANGED <<vars, loop_>>

\* ~EventLoopThread: loop_ != NULL was read ...
DestructTest ==
    /\ owner = "using" /\ loop_ # "NULL" /\ call[Owner] = "none"
    /\ owner' = "destructing"
    /\ UNCHANGED <<vars, loop_>>

\* ... loop_->quit() stores and ...
DestructQuit ==
    /\ owner = "destructing"
    /\ quit(Owner)
    /\ owner' = "quitting"
    /\ UNCHANGED loop_

\* ... its wakeup() returns ...
QuitReturns ==
    /\ owner = "quitting" /\ call[Owner] = "none"
    /\ owner' = "joining"
    /\ UNCHANGED <<vars, loop_>>

\* ... and join() waits for threadFunc to return.
JoinReturns ==
    /\ owner = "joining"
    /\ pc = "done" /\ loop_ = "NULL"
    /\ owner' = "gone"
    /\ UNCHANGED <<vars, loop_>>

\* The loop thread runs once started, and enters loop() after the publication.
LoopThread ==
    /\ owner # "constructed"
    /\ \/ LoopStep /\ (pc = "setup" => loop_ # "NULL")
       \/ PollEmpty
    /\ UNCHANGED <<owner, loop_>>

Wakeup(t) == wakeup(t) /\ UNCHANGED <<owner, loop_>>

\* The new thread runs callback_, which the publication follows, or a callback
\* of the running loop.
InCallback == owner # "constructed" /\ (pc = "setup" => loop_ = "NULL")

\* The owner uses the loop between startLoop and the destructor; callbacks of
\* the loop queue functors and may quit the loop themselves.
UseLoop ==
    /\ \/ \E f \in Functors : owner = "using" /\ runInLoop(Owner, f)
       \/ InCallback /\ \E f \in Functors : queueInLoop(Loop, f)
       \/ InCallback /\ quit(Loop)
       \/ Arrive
    /\ UNCHANGED <<owner, loop_>>

OwnerStep ==
    \/ startLoop \/ startLoopReturns \/ DestructNoLoop \/ DestructTest \/ DestructQuit
    \/ QuitReturns \/ JoinReturns

NextT ==
    \/ OwnerStep \/ Publish \/ ClearLoop \/ LoopThread \/ UseLoop
    \/ \E t \in AllThreads : Wakeup(t)

(***************************************************************************)
(* Both threads keep running; here the poll timeout is fair too: even with *)
(* it the destructor hangs.                                                *)
(***************************************************************************)
SpecT ==
    /\ InitT /\ [][NextT]_allVars
    /\ WF_allVars(LoopThread) /\ WF_allVars(Publish) /\ WF_allVars(ClearLoop)
    /\ WF_allVars(DestructQuit) /\ WF_allVars(QuitReturns) /\ WF_allVars(JoinReturns)
    /\ \A t \in AllThreads : WF_allVars(Wakeup(t))

-----------------------------------------------------------------------------
\* "dtor calls quit()" (tests/EventLoopThread_unittest.cc:33): a destructor
\* that called loop_->quit() gets its thread back from join() and returns.
\* EventLoop::loop overwrites a quit_ stored between its test and its store
\* (EventLoop.cc:95), and then neither thread ever moves on.
DestructorReturns == owner \in {"quitting", "joining"} ~> (owner = "gone")
=============================================================================
