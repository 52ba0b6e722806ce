---------------------------- MODULE MCPollPoller ----------------------------
(* TLC instance of PollPoller: three channels. *)
EXTENDS PollPoller
=============================================================================
