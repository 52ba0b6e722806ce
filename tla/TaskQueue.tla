----------------------------- MODULE TaskQueue -----------------------------
(***************************************************************************)
(* What EventLoop::queueInLoop promises its callers, without threads, the  *)
(* eventfd or the swap of vectors: one queue of functors that grows at its *)
(* end and is consumed from its front, so every functor runs at most once  *)
(* and in the order of the calls.  EventLoop.tla implements it.            *)
(***************************************************************************)
EXTENDS Sequences

CONSTANT Functors

VARIABLE queue

Init == queue = <<>>

\* queueInLoop: the functor becomes the last of the queue.
Submit(f) == queue' = Append(queue, f)

\* The loop thread starts the oldest functor.
RunHead ==
    /\ queue # <<>>
    /\ queue' = Tail(queue)

Next == (\E f \in Functors : Submit(f)) \/ RunHead

Spec == Init /\ [][Next]_queue
=============================================================================
