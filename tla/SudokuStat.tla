----------------------------- MODULE SudokuStat -----------------------------
(***************************************************************************)
(* examples/sudoku/stat.h: counters and a window of the last kSeconds      *)
(* seconds, shared by the threads that solve.  Each record* call is one    *)
(* step under mutex_.  A thread reads the clock before it has the mutex,   *)
(* and the clock may be set: seconds arrive in any order, and a latency    *)
(* may be negative.  droppedRequests_, which nothing records, is left out. *)
(***************************************************************************)
EXTENDS Integers, Sequences, FiniteSetsExt

CONSTANTS
    kSeconds,
    Latencies,      \* of responses, in microseconds; negative if the clock was set back
    MaxSecond,      \* bound: seconds of the clock, from 1
    MaxRecorded     \* bound: calls of recordResponse between two resets

\* stat.h 193: the window has room.
ASSUME StatSizes == kSeconds \in Nat \ {0} /\ MaxSecond \in Nat /\ Latencies \subseteq Int

VARIABLE stat

NewStat ==
    [lastSecond |-> 0, requests |-> <<>>, latencies |-> <<>>,
     totalRequests |-> 0, totalResponses |-> 0, totalSolved |-> 0, badRequests |-> 0,
     totalLatency |-> 0, badLatency |-> 0,
     \* For the property: responses of each second, and the sum of their latencies.
     count |-> [t \in 1 .. MaxSecond |-> 0], sum |-> [t \in 1 .. MaxSecond |-> 0]]

StatStart == stat = NewStat
reset == stat' = NewStat

\* push_back into a circular buffer of kSeconds: the oldest element makes room.
PushBack(ring, x) == IF Len(ring) < kSeconds THEN Append(ring, x) ELSE Append(Tail(ring), x)
AddAt(ring, i, x) == [ring EXCEPT ![i] = @ + x]

\* The while loop that appends zeros for the seconds up to the one given.
PushZeros(ring, n) ==
    LET all == ring \o [i \in 1 .. n |-> 0]
    IN  SubSeq(all, Max({1, Len(all) - kSeconds + 1}), Len(all))

firstSecond_OffByOne(st) == st.lastSecond - Len(st.requests)
firstSecond(st) == st.lastSecond - Len(st.requests) + 1

\* The window moved to hold the second, where it moves at all.
Advance(st, second) ==
    IF st.lastSecond + 1 = second \/ st.lastSecond = 0
    THEN [st EXCEPT !.lastSecond = second, !.requests = PushBack(@, 0), !.latencies = PushBack(@, 0)]
    ELSE IF second > st.lastSecond /\ second < st.lastSecond + kSeconds
    THEN [st EXCEPT !.lastSecond = second, !.requests = PushZeros(@, second - st.lastSecond),
                    !.latencies = PushZeros(@, second - st.lastSecond)]
    ELSE IF second > st.lastSecond
    THEN [st EXCEPT !.lastSecond = second, !.requests = <<0>>, !.latencies = <<0>>]
    ELSE st

\* Counts in the slot of the second, unless the second is before the window.
Count(st, second, elapsed) ==
    LET idx == second - firstSecond(st) + 1 IN
    IF second = st.lastSecond
    THEN [st EXCEPT !.requests = AddAt(@, Len(@), 1), !.latencies = AddAt(@, Len(@), elapsed)]
    ELSE IF second >= firstSecond(st)
    THEN [st EXCEPT !.requests = AddAt(@, idx, 1), !.latencies = AddAt(@, idx, elapsed)]
    ELSE st

recordResponse(second, elapsed, solved) ==
    LET counted == [stat EXCEPT !.totalResponses = @ + 1,
                                !.totalSolved = @ + IF solved THEN 1 ELSE 0]
        timed == [counted EXCEPT !.totalLatency = @ + elapsed, !.count[second] = @ + 1,
                                 !.sum[second] = @ + elapsed]
    IN  /\ stat.totalResponses < MaxRecorded
        /\ stat' = IF elapsed < 0 THEN [counted EXCEPT !.badLatency = @ + 1]
                   ELSE Count(Advance(timed, second), second, elapsed)

recordRequest == stat.totalRequests < MaxRecorded /\ stat' = [stat EXCEPT !.totalRequests = @ + 1]
recordBadRequest == stat.badRequests < 1 /\ stat' = [stat EXCEPT !.badRequests = @ + 1]

StatNext ==
    \/ \E second \in 1 .. MaxSecond, elapsed \in Latencies, solved \in BOOLEAN :
        recordResponse(second, elapsed, solved)
    \/ recordRequest \/ recordBadRequest \/ reset

Total(ring) == MapThenSumSet(LAMBDA i : ring[i], DOMAIN ring)

\* What report() prints: requests of the window, mean latency of the window and over all.
report ==
    [requests60s |-> Total(stat.requests),
     latency60s |-> IF Total(stat.requests) = 0 THEN 0
                    ELSE Total(stat.latencies) \div Total(stat.requests),
     latencyAvg |-> IF stat.totalResponses = 0 THEN 0
                    ELSE stat.totalLatency \div stat.totalResponses]

(***************************************************************************)
(* Though threads report seconds out of order and the clock jumps, every   *)
(* slot of the window holds all the responses of its second since the last *)
(* reset and their latencies, the last slot being lastSecond_, and the     *)
(* window never reports more than there was.                               *)
(***************************************************************************)
WindowIsTrue ==
    /\ Len(stat.requests) <= kSeconds /\ Len(stat.latencies) = Len(stat.requests)
    /\ \A i \in DOMAIN stat.requests :
        LET second == stat.lastSecond - Len(stat.requests) + i IN
        IF second < 1 THEN stat.requests[i] = 0
        ELSE stat.requests[i] = stat.count[second] /\ stat.latencies[i] = stat.sum[second]
    /\ report.requests60s <= stat.totalResponses - stat.badLatency
    /\ stat.totalResponses = stat.badLatency => report.latency60s = 0
=============================================================================
