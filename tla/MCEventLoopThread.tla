------------------------- MODULE MCEventLoopThread -------------------------
(* TLC instance of EventLoopThread: the owner is the only other thread. *)
EXTENDS EventLoopThread
=============================================================================
