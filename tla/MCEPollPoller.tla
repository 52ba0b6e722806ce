--------------------------- MODULE MCEPollPoller ---------------------------
(* TLC instance of EPollPoller: channels a and b use descriptor 3 in turn,  *)
(* c has descriptor 4; the list of events starts with one entry.            *)
EXTENDS EPollPoller, TLC

CONSTANTS a, b, c3

MCFds == {3, 4}
MCFdOf == a :> 3 @@ b :> 3 @@ c3 :> 4
=============================================================================
