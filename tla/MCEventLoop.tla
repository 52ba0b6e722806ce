---------------------------- MODULE MCEventLoop ----------------------------
(***************************************************************************)
(* TLC instance of EventLoop: two threads besides the loop's, so that two  *)
(* pushes, two eventfd writes and the loop's read of it interleave.  No    *)
(* symmetry: the run checks liveness.                                      *)
(***************************************************************************)
EXTENDS EventLoop
=============================================================================
