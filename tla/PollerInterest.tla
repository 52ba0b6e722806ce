-------------------------- MODULE PollerInterest --------------------------
(***************************************************************************)
(* What a Poller promises a Channel (Poller.h): when a channel changes     *)
(* what it asks for, the kernel waits for exactly that from then on, and   *)
(* nothing changes for any other channel.  There are no registration       *)
(* states, no map of file descriptors and no array of pollfds; a channel   *)
(* is removed when it asks for nothing, so removing it changes nothing.    *)
(***************************************************************************)
CONSTANTS Chans, Masks, NoMask

VARIABLES
    asked,      \* the events each channel asked for
    interest    \* the events the kernel waits for on its behalf

vars == <<asked, interest>>

Init ==
    /\ asked = [c \in Chans |-> NoMask]
    /\ interest = [c \in Chans |-> NoMask]

\* updateChannel
Change(c, m) ==
    /\ asked' = [asked EXCEPT ![c] = m]
    /\ interest' = [interest EXCEPT ![c] = m]

Next == \E c \in Chans : \E m \in Masks : Change(c, m)

Spec == Init /\ [][Next]_vars
=============================================================================
