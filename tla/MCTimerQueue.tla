---------------------------- MODULE MCTimerQueue ----------------------------
(* TLC instance of TimerQueue: two addresses for up to three timers, so that *)
(* an address is reused.                                                     *)
EXTENDS TimerQueue
=============================================================================
