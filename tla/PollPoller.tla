----------------------------- MODULE PollPoller -----------------------------
(***************************************************************************)
(* cnet/net/poller/PollPoller.cc, the poller chosen by CNET_USE_POLL: an   *)
(* array of pollfds and, in each channel, the index of its entry.          *)
(*                                                                         *)
(* An entry's descriptor is fd or, when the entry is to be ignored,        *)
(* -fd-1: a record with the descriptor and whether it is ignored.          *)
(***************************************************************************)
EXTENDS Channel, Integers

CONSTANTS Chans   \* channels, one per descriptor: a channel names its fd

VARIABLES
    events_,    \* Channel::events_
    index_,     \* Channel::index_
    channels_,  \* the channels in Poller::channels_
    pollfds_

vars == <<events_, index_, channels_, pollfds_>>

Init ==
    /\ events_ = [c \in Chans |-> kNoneEvent]
    /\ index_ = [c \in Chans |-> -1]
    /\ channels_ = {}
    /\ pollfds_ = <<>>

\* The entry a channel's index points at (indices count from 0).
InRange(c) == index_[c] >= 0 /\ index_[c] < Len(pollfds_)
Entry(c) == pollfds_[index_[c] + 1]

\* updateChannel of a channel with index_ < 0.
AddEntry(c) ==
    /\ index_[c] < 0
    /\ pollfds_' = Append(pollfds_, [fd |-> c, ignored |-> FALSE, events |-> events_'[c]])
    /\ index_' = [index_ EXCEPT ![c] = Len(pollfds_)]
    /\ channels_' = channels_ \cup {c}

\* updateChannel of a channel with an entry.  Nothing undoes ignored.
ChangeEntry(c) ==
    /\ InRange(c)
    /\ pollfds_' = [pollfds_ EXCEPT
            ![index_[c] + 1].events = events_'[c],
            ![index_[c] + 1].fd = IF isNoneEvent(events_'[c]) THEN c ELSE @,
            ![index_[c] + 1].ignored = isNoneEvent(events_'[c]) \/ @]
    /\ UNCHANGED <<index_, channels_>>

Update(c) ==
    /\ \E ev \in Updates(events_[c]) : events_' = [events_ EXCEPT ![c] = ev]
    /\ AddEntry(c) \/ ChangeEntry(c)

\* removeChannel: the entry is erased; no index_ is changed.
Remove(c) ==
    /\ c \in channels_
    /\ isNoneEvent(events_[c])
    /\ InRange(c)
    /\ channels_' = channels_ \ {c}
    /\ pollfds_' = SubSeq(pollfds_, 1, index_[c])
                   \o SubSeq(pollfds_, index_[c] + 2, Len(pollfds_))
    /\ UNCHANGED <<events_, index_>>

\* The channel object is destroyed and constructed again.
Construct(c) ==
    /\ c \notin channels_
    /\ events_' = [events_ EXCEPT ![c] = kNoneEvent]
    /\ index_' = [index_ EXCEPT ![c] = -1]
    /\ UNCHANGED <<channels_, pollfds_>>

Next == \E c \in Chans : Update(c) \/ Remove(c) \/ Construct(c)

Spec == Init /\ [][Next]_vars

-----------------------------------------------------------------------------
\* "assert(idx >=0 && idx < static_cast<int>(pollfds_.size()))" and
\* "assert(pfd.fd == channel->fd() || pfd.fd == -channel->fd()-1 )"
\* (PollPoller.cc:87,89): the entry at a registered channel's index is its own.
\* removeChannel erases an entry and leaves the indices of the later ones.
IndexFindsOwnEntry == \A c \in channels_ : InRange(c) /\ Entry(c).fd = c
=============================================================================
