------------------------------ MODULE Channel ------------------------------
(***************************************************************************)
(* The event masks of cnet/net/Channel.{h,cc} and the order in which       *)
(* handleEventWithGuard turns received events into callbacks.  A mask is a *)
(* set of bits; POLLIN and POLLPRI, which are only ever requested together,*)
(* are the one bit "IN", POLLERR and POLLNVAL the one bit "ERR".           *)
(***************************************************************************)
EXTENDS Sequences

kNoneEvent  == {}
kReadEvent  == {"IN"}
kWriteEvent == {"OUT"}

\* What a channel can ask for, and what the kernel reports unasked.
Requested  == kReadEvent \cup kWriteEvent
Unasked    == {"HUP", "ERR"}

enableReading(ev)  == ev \cup kReadEvent
disableReading(ev) == ev \ kReadEvent
enableWriting(ev)  == ev \cup kWriteEvent
disableWriting(ev) == ev \ kWriteEvent

disableAll(ev)     == kNoneEvent

isNoneEvent(ev) == ev = kNoneEvent
isWriting(ev) == ev \cap kWriteEvent # {}
isReading(ev) == ev \cap kReadEvent # {}

\* The values events_ can take in one call of the five functions above.
Updates(ev) == {enableReading(ev), disableReading(ev), enableWriting(ev),
                disableWriting(ev), disableAll(ev)}

\* handleEventWithGuard: the callbacks it makes for revents, in order.
Callbacks(revents) ==
    LET If(b, cb) == IF b THEN <<cb>> ELSE <<>>
    IN  If("HUP" \in revents /\ "IN" \notin revents, "close")
        \o If("ERR" \in revents, "error")
        \o If("IN" \in revents, "read")
        \o If("OUT" \in revents, "write")
=============================================================================
