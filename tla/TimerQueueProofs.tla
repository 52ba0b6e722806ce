-------------------------- MODULE TimerQueueProofs --------------------------
(***************************************************************************)
(* Proofs about TimerQueue for any number of threads, addresses, timers    *)
(* and any time.                                                           *)
(***************************************************************************)
EXTENDS TimerQueue, SequenceTheorems, TLAPS

Timers == [seq : Nat, expiration : Nat, repeat : BOOLEAN]
Ids == Addrs \X Nat
FunctorSet == [op : {"add", "cancel"}, id : Ids]

\* The types of the variables.
TypeOK ==
    /\ now \in Nat /\ created \in Nat /\ batchNow \in Nat /\ armed \in Nat
    /\ heap \in [Addrs -> Timers]
    /\ timers_ \in SUBSET (Nat \X Addrs) /\ activeTimers_ \in SUBSET Ids
    /\ cancelingTimers_ \in SUBSET Ids
    /\ expired \in SUBSET Addrs /\ toRun \in SUBSET Addrs
    /\ callingExpiredTimers_ \in BOOLEAN /\ readable \in BOOLEAN /\ active \in BOOLEAN
    /\ queue \in Seq(FunctorSet)
    /\ reading \in [Threads -> Addrs \cup {0}]
    /\ ids \in SUBSET Ids /\ cancelled \in SUBSET Nat

\* handleRead's batch exists during the callbacks only, and handleRead is not entered again
\* before they are over.
BatchInv ==
    /\ ~callingExpiredTimers_ => expired = {}
    /\ active => ~callingExpiredTimers_

\* Sequence numbers: 0 marks a free cell, no two timers share one, none is ahead of the counter.
SeqInv ==
    /\ \A a \in Addrs : heap[a].seq = 0 <=> heap[a] = Free
    /\ \A a \in Addrs : heap[a].seq <= created
    /\ \A a, b \in Addrs : heap[a].seq = heap[b].seq /\ heap[a].seq # 0 => a = b
    /\ \A s \in cancelled : s \in 1..created

\* The addresses in the functors of addTiemr, and that none is in two of them.
Adds(q) == {q[i].id[1] : i \in {j \in 1..Len(q) : q[j].op = "add"}}
AddsOnce(q) ==
    \A i, j \in 1..Len(q) :
        q[i].op = "add" /\ q[j].op = "add" /\ q[i].id[1] = q[j].id[1] => i = j

\* The two sets, for the addresses S in them.
TimersOf(h, S) == {<<h[a].expiration, a>> : a \in S}
ActiveOf(h, S) == {<<a, h[a].seq>> : a \in S}

\* The owners of the timers: the sets hold S, the batch E, the queue Q.
Owners(h, S, E, Q) ==
    /\ {a \in Addrs : h[a] # Free} = S \cup E \cup Q
    /\ S \cap E = {} /\ (S \cup E) \cap Q = {}

OwnerInv ==
    /\ timers_ = TimersOf(heap, Scheduled) /\ activeTimers_ = ActiveOf(heap, Scheduled)
    /\ Owners(heap, Scheduled, expired, Adds(queue))
    /\ AddsOnce(queue)

Inv == TypeOK /\ BatchInv /\ SeqInv /\ OwnerInv /\ CancelSticks

-----------------------------------------------------------------------------
(* Types *)

\* The timerfd is armed for the time asked for, or for the next unit of time.
LEMMA TimerfdArmed ==
    ASSUME NEW when \in Nat, now \in Nat, resetTimerfd(when)
    PROVE  armed' = Later(when, now + 1) /\ armed' \in Nat /\ readable' = FALSE
<1>1. PICK d : d = howMuchTimeFromNow(when)
  OBVIOUS
<1>2. d \in Nat /\ d # 0 /\ now + d = Later(when, now + 1)
  BY <1>1 DEF howMuchTimeFromNow, Later
<1>3. Later(when, now + 1) \in Nat
  BY DEF Later
<1> QED BY <1>1, <1>2, <1>3 DEF resetTimerfd

\* addTimerInLoop keeps the types of what it changes.
LEMMA AddType ==
    ASSUME TypeOK, NEW a \in Addrs, NEW timer \in Timers, addTimerInLoop(a, timer)
    PROVE  /\ timers_' \in SUBSET (Nat \X Addrs) /\ activeTimers_' \in SUBSET Ids
           /\ armed' \in Nat /\ readable' \in BOOLEAN
<1>1. timer.expiration \in Nat /\ timer.seq \in Nat
  BY DEF Timers
<1>2. timers_' \in SUBSET (Nat \X Addrs)
  BY <1>1 DEF TypeOK, addTimerInLoop, Inserted
<1>3. activeTimers_' \in SUBSET Ids
  BY <1>1 DEF TypeOK, addTimerInLoop, Ids
<1>4. armed' \in Nat
  <2>1. now \in Nat /\ armed \in Nat
    BY DEF TypeOK
  <2>2. resetTimerfd(timer.expiration) => armed' \in Nat
    BY <1>1, <2>1, TimerfdArmed
  <2>3. resetTimerfd(timer.expiration) \/ armed' = armed
    BY DEF addTimerInLoop, fdVars
  <2> QED BY <2>1, <2>2, <2>3
<1>5. readable' \in BOOLEAN
  BY DEF TypeOK, addTimerInLoop, resetTimerfd, fdVars
<1> QED BY <1>2, <1>3, <1>4, <1>5

\* cancelInLoop keeps the types of what it changes.
LEMMA CancelType ==
    ASSUME TypeOK, NEW id \in Ids, cancelInLoop(id)
    PROVE  /\ timers_' \in SUBSET (Nat \X Addrs) /\ activeTimers_' \in SUBSET Ids
           /\ heap' \in [Addrs -> Timers] /\ cancelingTimers_' \in SUBSET Ids
           /\ cancelled' \in SUBSET Nat
<1>1. id[1] \in Addrs /\ id[2] \in Nat /\ Free \in Timers
  BY DEF Ids, Free, Timers
<1>2. CASE id \in activeTimers_
  BY <1>1, <1>2 DEF TypeOK, cancelInLoop
<1>3. CASE id \notin activeTimers_
  BY <1>1, <1>3 DEF TypeOK, cancelInLoop, setVars
<1> QED BY <1>2, <1>3

\* Every variable of the timer queue keeps its type.
LEMMA TypeInductive == TypeOK /\ [Next]_vars => TypeOK'
<1> SUFFICES ASSUME TypeOK, [Next]_vars PROVE TypeOK'
  OBVIOUS
<1> USE DEF TypeOK, setVars, batchVars, fdVars, clientVars
<1>1. CASE handleRead
  <2>1. expired' \in SUBSET Addrs
    BY <1>1 DEF handleRead, Due
  <2>2. timers_' \in SUBSET (Nat \X Addrs) /\ activeTimers_' \in SUBSET Ids
    BY <1>1 DEF handleRead
  <2> QED BY <1>1, <2>1, <2>2 DEF handleRead
<1>2. CASE RunTimer
  BY <1>2 DEF RunTimer
<1>3. CASE reset
  <2>1. Restarted \in SUBSET Addrs /\ batchNow + Interval \in Nat /\ Free \in Timers
    BY IntervalAssumption DEF Restarted, Free, Timers
  <2>2. heap' \in [Addrs -> Timers]
    <3>1. \A a \in Addrs : [heap[a] EXCEPT !.expiration = batchNow + Interval] \in Timers
      BY <2>1 DEF Timers
    <3>2. \A a \in Addrs : heap[a] \in Timers
      OBVIOUS
    <3>3. heap' = [a \in Addrs |->
                  IF a \in Restarted THEN [heap[a] EXCEPT !.expiration = batchNow + Interval]
                  ELSE IF a \in expired THEN Free
                  ELSE heap[a]]
      BY <1>3 DEF reset
    <3> HIDE DEF TypeOK
    <3> QED BY <2>1, <3>1, <3>2, <3>3
  <2>3. timers_' \in SUBSET (Nat \X Addrs)
    BY <1>3, <2>1 DEF reset
  <2>4. activeTimers_' \in SUBSET Ids
    <3>1. \A a \in Addrs : ActiveTimer(a) \in Ids
      BY DEF ActiveTimer, Ids, Timers
    <3> QED BY <1>3, <2>1, <3>1 DEF reset
  <2>5. armed' \in Nat /\ readable' \in BOOLEAN
    <3>1. CASE UNCHANGED fdVars
      BY <3>1
    <3>2. CASE \E e \in timers_' : resetTimerfd(e[1])
      <4>1. PICK e \in timers_' : resetTimerfd(e[1])
        BY <3>2
      <4>2. e[1] \in Nat /\ now \in Nat
        BY <2>3
      <4>3. armed' \in Nat /\ readable' = FALSE
        BY <4>1, <4>2, TimerfdArmed
      <4> QED BY <4>3
    <3> QED BY <1>3, <3>1, <3>2 DEF reset
  <2> QED BY <1>3, <2>2, <2>3, <2>4, <2>5 DEF reset
<1>4. CASE PollTimerfd
  BY <1>4 DEF PollTimerfd
<1>5. CASE RunAdd
  <2>1. Head(queue) \in FunctorSet /\ Tail(queue) \in Seq(FunctorSet)
    BY <1>5 DEF RunAdd
  <2>2. Head(queue).id[1] \in Addrs
    BY <2>1 DEF FunctorSet, Ids
  <2> QED BY <1>5, <2>1, <2>2, AddType DEF RunAdd
<1>6. CASE RunCancel
  <2>1. Head(queue) \in FunctorSet /\ Tail(queue) \in Seq(FunctorSet)
    BY <1>6 DEF RunCancel
  <2>2. Head(queue).id \in Ids
    BY <2>1 DEF FunctorSet
  <2> QED BY <1>6, <2>1, <2>2, CancelType DEF RunCancel
<1>7. ASSUME NEW a \in Addrs, NEW when \in 1..(MaxTime + 1), NEW rep \in BOOLEAN,
             NewTimer(a, when, rep)
      PROVE  heap' \in [Addrs -> Timers] /\ created' \in Nat /\ <<a, created'>> \in Ids
  <2>1. when \in Nat
    BY BoundsAssumption
  <2>2. [seq |-> created + 1, expiration |-> when, repeat |-> rep] \in Timers
    BY <2>1 DEF Timers
  <2> QED BY <1>7, <2>2 DEF NewTimer, Ids
<1>8. ASSUME NEW a \in Addrs, NEW when \in 1..(MaxTime + 1), NEW rep \in BOOLEAN,
             AddInLoop(a, when, rep)
      PROVE  TypeOK'
  <2>1. heap' \in [Addrs -> Timers] /\ created' \in Nat /\ <<a, created'>> \in Ids
    BY <1>7, <1>8 DEF AddInLoop
  <2> QED BY <1>8, <2>1, AddType DEF AddInLoop
<1>9. ASSUME NEW a \in Addrs, NEW when \in 1..(MaxTime + 1), NEW rep \in BOOLEAN,
             NEW t \in Threads, AddOffLoop(t, a, when, rep)
      PROVE  TypeOK'
  <2>1. heap' \in [Addrs -> Timers] /\ created' \in Nat /\ <<a, created'>> \in Ids
    BY <1>7, <1>9 DEF AddOffLoop
  <2>2. queue' \in Seq(FunctorSet)
    <3>1. [op |-> "add", id |-> <<a, created'>>] \in FunctorSet
      BY <2>1 DEF FunctorSet
    <3> QED BY <1>9, <3>1, AppendProperties DEF AddOffLoop
  <2> QED BY <1>9, <2>1, <2>2 DEF AddOffLoop
<1>10. ASSUME NEW t \in Threads, ReadSequence(t) PROVE TypeOK'
  <2>1. ActiveTimer(reading[t]) \in Ids
    BY <1>10 DEF ReadSequence, ActiveTimer, Ids, Timers
  <2> QED BY <1>10, <2>1 DEF ReadSequence
<1>11. ASSUME NEW id \in ids, CancelHere(id) PROVE TypeOK'
  BY <1>11, CancelType DEF CancelHere
<1>12. ASSUME NEW id \in ids, CancelOffLoop(id) PROVE TypeOK'
  <2>1. [op |-> "cancel", id |-> id] \in FunctorSet
    BY DEF FunctorSet
  <2> QED BY <1>12, <2>1, AppendProperties DEF CancelOffLoop
<1>13. CASE Tick BY <1>13 DEF Tick
<1>14. CASE Fire BY <1>14 DEF Fire
<1>15. CASE UNCHANGED vars BY <1>15 DEF vars
<1> QED BY <1>1, <1>2, <1>3, <1>4, <1>5, <1>6, <1>8, <1>9, <1>10, <1>11, <1>12, <1>13, <1>14, <1>15
        DEF Next, Clients, RunFunctor

-----------------------------------------------------------------------------
(* The batch and the sequence numbers *)

\* The batch exists during the callbacks only.
LEMMA BatchInductive == BatchInv /\ [Next]_vars => BatchInv'
<1> SUFFICES ASSUME BatchInv, [Next]_vars PROVE BatchInv'
  OBVIOUS
<1> USE DEF BatchInv, batchVars
<1>1. CASE handleRead \/ RunTimer \/ reset \/ PollTimerfd
  BY <1>1 DEF handleRead, RunTimer, reset, PollTimerfd
<1>2. CASE RunFunctor
  BY <1>2 DEF RunFunctor, RunAdd, RunCancel
<1>3. CASE Clients
  <2>1. UNCHANGED <<callingExpiredTimers_, expired, active>>
    BY <1>3 DEF Clients, AddInLoop, AddOffLoop, ReadSequence, CancelHere, CancelOffLoop
  <2> QED BY <2>1
<1>4. CASE Tick \/ Fire
  BY <1>4 DEF Tick, Fire
<1>5. CASE UNCHANGED vars
  BY <1>5 DEF vars
<1> QED BY <1>1, <1>2, <1>3, <1>4, <1>5 DEF Next

\* Deleting timers, and giving some a new expiration, keeps the sequence numbers.
LEMMA SeqKept ==
    ASSUME TypeOK, SeqInv, heap' \in [Addrs -> Timers], created' = created,
           \A a \in Addrs : heap'[a] = Free \/ (heap[a] # Free /\ heap'[a].seq = heap[a].seq) \/ heap'[a] = heap[a],
           \A s \in cancelled' : s \in cancelled \/ \E a \in Addrs : heap[a].seq = s /\ s # 0
    PROVE  SeqInv'
<1>1. created \in Nat /\ Free.seq = 0 /\ \A a \in Addrs : heap[a].seq \in Nat /\ heap'[a].seq \in Nat
  BY DEF TypeOK, Free, Timers
<1>2. \A a \in Addrs : heap'[a].seq = 0 <=> heap'[a] = Free
  BY <1>1 DEF SeqInv
<1>3. \A a \in Addrs : heap'[a].seq = 0 \/ heap'[a].seq = heap[a].seq
  BY <1>1
<1>4. \A a \in Addrs : heap'[a].seq <= created
  BY <1>1, <1>3 DEF SeqInv
<1>5. \A a, b \in Addrs : heap'[a].seq = heap'[b].seq /\ heap'[a].seq # 0 => a = b
  BY <1>3 DEF SeqInv
<1>6. \A s \in cancelled' : s \in 1..created
  BY <1>1 DEF SeqInv
<1> QED BY <1>2, <1>4, <1>5, <1>6 DEF SeqInv

\* A new timer has a new sequence number.
LEMMA SeqNew ==
    ASSUME TypeOK, SeqInv, NEW a \in Addrs, NEW when \in 1..(MaxTime + 1), NEW rep \in BOOLEAN,
           NewTimer(a, when, rep), cancelled' = cancelled
    PROVE  SeqInv' /\ heap'[a] # Free /\ heap'[a].seq \notin cancelled /\ heap'[a].seq = created'
<1>1. /\ created \in Nat /\ created' = created + 1 /\ heap[a] = Free /\ Free.seq = 0
      /\ \A b \in Addrs : heap[b].seq \in Nat
  BY DEF TypeOK, Free, Timers, NewTimer
<1>2. /\ heap'[a].seq = created + 1
      /\ \A b \in Addrs : b # a => heap'[b] = heap[b]
  BY DEF TypeOK, NewTimer
<1>3. heap'[a] # Free
  BY <1>1, <1>2
<1>4. \A b \in Addrs : heap'[b].seq = 0 <=> heap'[b] = Free
  BY <1>1, <1>2, <1>3 DEF SeqInv
<1>5. \A b \in Addrs : heap'[b].seq <= created'
  BY <1>1, <1>2 DEF SeqInv
<1>6. \A b, c \in Addrs : heap'[b].seq = heap'[c].seq /\ heap'[b].seq # 0 => b = c
  <2> SUFFICES ASSUME NEW b \in Addrs, NEW c \in Addrs, heap'[b].seq = heap'[c].seq, heap'[b].seq # 0
               PROVE  b = c
    OBVIOUS
  <2>1. CASE b = a \/ c = a
    BY <1>1, <1>2, <2>1 DEF SeqInv
  <2>2. CASE b # a /\ c # a
    BY <1>2, <2>2 DEF SeqInv
  <2> QED BY <2>1, <2>2
<1>7. \A s \in cancelled : s \in 1..created /\ s \in 1..created'
  BY <1>1 DEF SeqInv
<1>8. heap'[a].seq \notin cancelled
  BY <1>1, <1>2, <1>7
<1> QED BY <1>1, <1>2, <1>3, <1>4, <1>5, <1>6, <1>7, <1>8 DEF SeqInv

\* A cancel keeps the sequence numbers, and sticks.
LEMMA CancelSeq ==
    ASSUME TypeOK, BatchInv, SeqInv, CancelSticks, NEW id \in Ids, cancelInLoop(id),
           created' = created, expired' = expired, \A a \in expired : heap[a] # Free
    PROVE  SeqInv' /\ CancelSticks'
<1>1. heap' \in [Addrs -> Timers] /\ id[1] \in Addrs
  BY CancelType DEF Ids
<1>2. Free.seq = 0 /\ 0 \notin cancelled
  BY DEF Free, SeqInv
<1>3. CASE id \in activeTimers_
  <2>1. heap' = [heap EXCEPT ![id[1]] = Free] /\ UNCHANGED <<cancelingTimers_, cancelled>>
    BY <1>3 DEF cancelInLoop
  <2>2. \A a \in Addrs : heap'[a] = Free \/ heap'[a] = heap[a]
    BY <2>1 DEF TypeOK
  <2>3. SeqInv'
    BY <1>1, <2>1, <2>2, SeqKept
  <2>4. CancelSticks'
    BY <1>2, <2>1, <2>2 DEF CancelSticks, ActiveTimer
  <2> QED BY <2>3, <2>4
<1>4. CASE id \notin activeTimers_
  <2>1. /\ heap' = heap
        /\ cancelingTimers_' = IF callingExpiredTimers_
                               THEN cancelingTimers_ \cup {id} ELSE cancelingTimers_
        /\ cancelled' = IF \E a \in expired : ActiveTimer(a) = id
                        THEN cancelled \cup {id[2]} ELSE cancelled
    BY <1>4 DEF cancelInLoop
  <2>2. CASE ~ \E a \in expired : ActiveTimer(a) = id
    <3>1. SeqInv'
      BY <2>1, <2>2 DEF SeqInv
    <3>2. CancelSticks'
      BY <2>1, <2>2 DEF CancelSticks, ActiveTimer
    <3> QED BY <3>1, <3>2
  <2>3. CASE \E a \in expired : ActiveTimer(a) = id
    <3>1. PICK a \in expired : ActiveTimer(a) = id
      BY <2>3
    <3>2. a \in Addrs /\ heap[a].seq = id[2] /\ heap[a].seq # 0 /\ callingExpiredTimers_
      BY <3>1 DEF TypeOK, ActiveTimer, SeqInv, BatchInv
    <3>3. cancelled' = cancelled \cup {heap[a].seq} /\ id \in cancelingTimers_'
          /\ cancelingTimers_ \subseteq cancelingTimers_'
      BY <2>1, <2>3, <3>2
    <3>4. SeqInv'
      <4>1. \A s \in cancelled' : s \in cancelled \/ \E b \in Addrs : heap[b].seq = s /\ s # 0
        BY <3>2, <3>3
      <4> QED BY <1>1, <2>1, <4>1, SeqKept
    <3>5. ASSUME NEW b \in Addrs, heap'[b].seq \in cancelled'
          PROVE  b \in expired' /\ ActiveTimer(b)' \in cancelingTimers_'
      <4>1. CASE heap[b].seq \in cancelled
        BY <2>1, <3>3, <4>1 DEF CancelSticks, ActiveTimer
      <4>2. CASE heap[b].seq = heap[a].seq
        <5>1. b = a
          BY <3>2, <4>2 DEF SeqInv
        <5> QED BY <2>1, <3>1, <3>3, <5>1 DEF ActiveTimer
      <4> QED BY <2>1, <3>3, <3>5, <4>1, <4>2
    <3> QED BY <3>4, <3>5 DEF CancelSticks
  <2> QED BY <2>2, <2>3
<1> QED BY <1>3, <1>4

-----------------------------------------------------------------------------
(* The owners *)

\* The addresses can be read back from the set of timers.
LEMMA AddrsOf ==
    ASSUME NEW h, NEW S
    PROVE  {e[2] : e \in TimersOf(h, S)} = S
<1>1. ASSUME NEW a \in S PROVE a \in {e[2] : e \in TimersOf(h, S)}
  <2>1. <<h[a].expiration, a>> \in TimersOf(h, S) /\ <<h[a].expiration, a>>[2] = a
    BY DEF TimersOf
  <2> QED BY <2>1
<1>2. ASSUME NEW e \in TimersOf(h, S) PROVE e[2] \in S
  BY DEF TimersOf
<1> QED BY <1>1, <1>2

\* Both sets follow the heap: only the cells of their addresses matter.
LEMMA SetsSame ==
    ASSUME NEW h, NEW g, NEW S, \A a \in S : g[a] = h[a]
    PROVE  TimersOf(g, S) = TimersOf(h, S) /\ ActiveOf(g, S) = ActiveOf(h, S)
  BY DEF TimersOf, ActiveOf

\* Adding an address to both sets.
LEMMA SetsAdd ==
    ASSUME NEW h, NEW S, NEW R
    PROVE  /\ TimersOf(h, S \cup R) = TimersOf(h, S) \cup TimersOf(h, R)
           /\ ActiveOf(h, S \cup R) = ActiveOf(h, S) \cup ActiveOf(h, R)
  BY DEF TimersOf, ActiveOf

\* Taking addresses from both sets.
LEMMA SetsRemove ==
    ASSUME NEW h, NEW S, NEW R
    PROVE  /\ TimersOf(h, S \ R) = TimersOf(h, S) \ TimersOf(h, R)
           /\ ActiveOf(h, S \ R) = ActiveOf(h, S) \ ActiveOf(h, R)
  BY DEF TimersOf, ActiveOf

\* Queueing a functor.
LEMMA AppendAdds ==
    ASSUME NEW q \in Seq(FunctorSet), NEW f \in FunctorSet
    PROVE  /\ Adds(Append(q, f)) = Adds(q) \cup (IF f.op = "add" THEN {f.id[1]} ELSE {})
           /\ AddsOnce(q) /\ (f.op = "add" => f.id[1] \notin Adds(q)) => AddsOnce(Append(q, f))
<1> DEFINE p == Append(q, f)
<1>1. /\ Len(p) = Len(q) + 1 /\ Len(q) \in Nat
      /\ \A i \in 1..Len(q) : p[i] = q[i] /\ i \in 1..Len(p)
      /\ p[Len(q) + 1] = f /\ Len(q) + 1 \in 1..Len(p)
      /\ \A i \in 1..Len(p) : i \in 1..Len(q) \/ i = Len(q) + 1
  OBVIOUS
<1> HIDE DEF p
<1>2. Adds(p) = Adds(q) \cup (IF f.op = "add" THEN {f.id[1]} ELSE {})
  BY <1>1 DEF Adds
<1>3. AddsOnce(q) /\ (f.op = "add" => f.id[1] \notin Adds(q)) => AddsOnce(p)
  BY <1>1 DEF AddsOnce, Adds
<1> QED BY <1>2, <1>3 DEF p

\* Running the first functor.
LEMMA TailAdds ==
    ASSUME NEW q \in Seq(FunctorSet), q # <<>>, AddsOnce(q)
    PROVE  /\ Adds(Tail(q)) = Adds(q) \ (IF Head(q).op = "add" THEN {Head(q).id[1]} ELSE {})
           /\ Head(q).op = "add" => Head(q).id[1] \in Adds(q)
           /\ AddsOnce(Tail(q))
<1> DEFINE p == Tail(q)
<1>1. /\ Len(p) = Len(q) - 1 /\ Len(q) \in Nat /\ Head(q) = q[1] /\ 1 \in 1..Len(q)
      /\ \A i \in 1..Len(p) : p[i] = q[i + 1] /\ i + 1 \in 1..Len(q) /\ i + 1 # 1
      /\ \A i \in 1..Len(q) : i = 1 \/ (i - 1 \in 1..Len(p) /\ p[i - 1] = q[i])
  OBVIOUS
<1> HIDE DEF p
<1>2. Head(q).op = "add" => Head(q).id[1] \in Adds(q)
  BY <1>1 DEF Adds
<1>3. Adds(p) = Adds(q) \ (IF Head(q).op = "add" THEN {Head(q).id[1]} ELSE {})
  <2>1. ASSUME NEW a \in Adds(p)
        PROVE  a \in Adds(q) \ (IF Head(q).op = "add" THEN {Head(q).id[1]} ELSE {})
    <3>1. PICK i \in 1..Len(p) : p[i].op = "add" /\ p[i].id[1] = a
      BY DEF Adds
    <3>2. i + 1 \in 1..Len(q) /\ q[i + 1].op = "add" /\ q[i + 1].id[1] = a /\ i + 1 # 1
      BY <1>1, <3>1
    <3>3. Head(q).op = "add" => Head(q).id[1] # a
      BY <1>1, <3>2 DEF AddsOnce
    <3> QED BY <3>2, <3>3 DEF Adds
  <2>2. ASSUME NEW a \in Adds(q) \ (IF Head(q).op = "add" THEN {Head(q).id[1]} ELSE {})
        PROVE  a \in Adds(p)
    <3>1. PICK i \in 1..Len(q) : q[i].op = "add" /\ q[i].id[1] = a
      BY DEF Adds
    <3>2. i # 1
      BY <1>1, <3>1
    <3>3. i - 1 \in 1..Len(p) /\ p[i - 1] = q[i]
      BY <1>1, <3>2
    <3> QED BY <3>1, <3>3 DEF Adds
  <2> QED BY <2>1, <2>2
<1>4. AddsOnce(p)
  <2> SUFFICES ASSUME NEW i \in 1..Len(p), NEW j \in 1..Len(p), p[i].op = "add", p[j].op = "add",
                      p[i].id[1] = p[j].id[1]
               PROVE  i = j
    BY DEF AddsOnce
  <2>1. i + 1 = j + 1
    BY <1>1 DEF AddsOnce
  <2> QED BY <2>1
<1> QED BY <1>2, <1>3, <1>4 DEF p

\* OwnerInv holds once the sets and the owners are described by the addresses S.
LEMMA OwnerFrom ==
    ASSUME NEW S, timers_' = TimersOf(heap', S), activeTimers_' = ActiveOf(heap', S),
           Owners(heap', S, expired', Adds(queue')), AddsOnce(queue')
    PROVE  OwnerInv'
<1>1. Scheduled' = S
  BY AddrsOf DEF Scheduled
<1> QED BY <1>1 DEF OwnerInv

\* A new timer joins both sets, from a functor or in place.
LEMMA AddOwner ==
    ASSUME TypeOK, OwnerInv, NEW a \in Addrs, a \notin Scheduled, a \notin expired,
           addTimerInLoop(a, heap'[a]), \A b \in Addrs \ {a} : heap'[b] = heap[b],
           heap'[a] # Free, expired' = expired, AddsOnce(queue'),
           Adds(queue') = Adds(queue) \ {a}
    PROVE  OwnerInv'
<1> DEFINE S == Scheduled
<1>1. S \subseteq Addrs
  BY DEF Scheduled, TypeOK
<1>2. /\ timers_' = timers_ \cup TimersOf(heap', {a})
      /\ activeTimers_' = activeTimers_ \cup ActiveOf(heap', {a})
  BY DEF addTimerInLoop, Inserted, TimersOf, ActiveOf
<1>3. timers_ = TimersOf(heap', S) /\ activeTimers_ = ActiveOf(heap', S)
  BY <1>1, SetsSame DEF OwnerInv
<1>4. timers_' = TimersOf(heap', S \cup {a}) /\ activeTimers_' = ActiveOf(heap', S \cup {a})
  BY <1>2, <1>3, SetsAdd
<1>5. Owners(heap', S \cup {a}, expired', Adds(queue'))
  BY <1>1 DEF OwnerInv, Owners
<1> HIDE DEF S
<1> QED BY <1>4, <1>5, OwnerFrom

\* A cancelled timer leaves both sets and the heap together, or stays everywhere.
LEMMA CancelOwner ==
    ASSUME TypeOK, OwnerInv, NEW id \in Ids, cancelInLoop(id), expired' = expired,
           Adds(queue') = Adds(queue), AddsOnce(queue')
    PROVE  OwnerInv'
<1> DEFINE S == Scheduled
<1>1. S \subseteq Addrs
  BY DEF Scheduled, TypeOK
<1>2. CASE id \in activeTimers_
  <2>1. PICK a \in S : id = <<a, heap[a].seq>>
    BY <1>2 DEF OwnerInv, ActiveOf
  <2>2. /\ timers_' = timers_ \ TimersOf(heap, {a})
        /\ activeTimers_' = activeTimers_ \ ActiveOf(heap, {a})
        /\ heap' = [heap EXCEPT ![a] = Free]
    BY <1>2, <2>1 DEF cancelInLoop, TimersOf, ActiveOf
  <2>3. heap'[a] = Free /\ \A b \in Addrs \ {a} : heap'[b] = heap[b]
    BY <1>1, <2>2 DEF TypeOK
  <2>4. /\ timers_' = TimersOf(heap, S \ {a}) /\ activeTimers_' = ActiveOf(heap, S \ {a})
    <3>1. timers_ = TimersOf(heap, S) /\ activeTimers_ = ActiveOf(heap, S)
      BY DEF OwnerInv
    <3> HIDE DEF S
    <3>2. TimersOf(heap, S \ {a}) = TimersOf(heap, S) \ TimersOf(heap, {a})
      BY ONLY TRUE DEF TimersOf
    <3>3. ActiveOf(heap, S \ {a}) = ActiveOf(heap, S) \ ActiveOf(heap, {a})
      BY ONLY TRUE DEF ActiveOf
    <3> QED BY <2>2, <3>1, <3>2, <3>3
  <2>5. /\ TimersOf(heap', S \ {a}) = TimersOf(heap, S \ {a})
        /\ ActiveOf(heap', S \ {a}) = ActiveOf(heap, S \ {a})
    BY <1>1, <2>3, SetsSame
  <2>6. Owners(heap', S \ {a}, expired', Adds(queue'))
    <3>1. Owners(heap, S, expired, Adds(queue))
      BY DEF OwnerInv
    <3>2. {b \in Addrs : heap'[b] # Free} = {b \in Addrs : heap[b] # Free} \ {a}
      BY <2>3
    <3> QED BY <2>1, <3>1, <3>2 DEF Owners
  <2> HIDE DEF S
  <2> QED BY <2>4, <2>5, <2>6, OwnerFrom
<1>3. CASE id \notin activeTimers_
  <2>1. UNCHANGED <<timers_, activeTimers_, heap>>
    BY <1>3 DEF cancelInLoop, setVars
  <2> QED BY <2>1 DEF OwnerInv, Scheduled
<1> QED BY <1>2, <1>3

\* getExpired moves timers from the sets to the batch.
LEMMA ExpiredOwner ==
    ASSUME TypeOK, BatchInv, OwnerInv, handleRead
    PROVE  OwnerInv'
<1> DEFINE S == Scheduled
<1> DEFINE E == expired'
<1>1. expired = {}
  BY DEF BatchInv, handleRead
<1>2. E = {e[2] : e \in Due} /\ E \subseteq S
  BY DEF handleRead, Due, Scheduled
<1>3. Due = TimersOf(heap, E)
  <2>1. timers_ = TimersOf(heap, S)
    BY DEF OwnerInv
  <2>2. \A e \in Due : e = <<heap[e[2]].expiration, e[2]>> /\ e[2] \in E
    BY <1>2, <2>1 DEF Due, TimersOf
  <2>3. \A e \in Due : e \in TimersOf(heap, E)
    BY <2>2 DEF TimersOf
  <2>4. \A a \in E : <<heap[a].expiration, a>> \in Due
    BY <1>2, <2>2
  <2> QED BY <2>3, <2>4 DEF TimersOf
<1>4. timers_' = timers_ \ TimersOf(heap, E) /\ activeTimers_' = activeTimers_ \ ActiveOf(heap, E)
  BY <1>3 DEF handleRead, ActiveOf, ActiveTimer
<1>5. heap' = heap /\ queue' = queue
  BY DEF handleRead, clientVars
<1>6. timers_' = TimersOf(heap', S \ E) /\ activeTimers_' = ActiveOf(heap', S \ E)
  BY <1>4, <1>5, SetsRemove DEF OwnerInv
<1>7. Owners(heap', S \ E, expired', Adds(queue')) /\ AddsOnce(queue')
  BY <1>1, <1>2, <1>5 DEF OwnerInv, Owners
<1> HIDE DEF S, E
<1> QED BY <1>6, <1>7, OwnerFrom

\* reset moves the restarted timers back to the sets and deletes the rest of the batch.
LEMMA ResetOwner ==
    ASSUME TypeOK, OwnerInv, reset
    PROVE  OwnerInv'
<1> DEFINE S == Scheduled
<1> DEFINE R == Restarted
<1>1. S \subseteq Addrs /\ R \subseteq expired /\ expired \subseteq Addrs
  BY DEF Scheduled, Restarted, TypeOK
<1>2. Owners(heap, S, expired, Adds(queue))
  BY DEF OwnerInv
<1>3. /\ \A a \in R : heap'[a] = [heap[a] EXCEPT !.expiration = batchNow + Interval]
      /\ \A a \in expired \ R : heap'[a] = Free
      /\ \A a \in Addrs \ expired : heap'[a] = heap[a]
  BY <1>1 DEF reset
<1>4. \A a \in R : heap'[a].expiration = batchNow + Interval /\ heap'[a].seq = heap[a].seq
  <2>1. \A a \in R : heap[a] \in [seq : Nat, expiration : Nat, repeat : BOOLEAN]
    BY <1>1 DEF TypeOK, Timers
  <2> HIDE DEF R
  <2>2. \A a \in R : /\ [heap[a] EXCEPT !.expiration = batchNow + Interval].seq = heap[a].seq
                     /\ [heap[a] EXCEPT !.expiration = batchNow + Interval].expiration = batchNow + Interval
    BY <2>1
  <2> QED BY <1>3, <2>2
<1>5. \A a \in R : heap'[a] # Free
  <2>1. batchNow + Interval # 0 /\ Free.expiration = 0
    BY IntervalAssumption DEF TypeOK, Free
  <2> QED BY <1>4, <2>1
<1>6. /\ timers_' = timers_ \cup TimersOf(heap', R)
      /\ activeTimers_' = activeTimers_ \cup ActiveOf(heap', R)
  BY <1>4 DEF reset, TimersOf, ActiveOf, ActiveTimer
<1>7. \A a \in S : heap'[a] = heap[a]
  BY <1>1, <1>2, <1>3 DEF Owners
<1>8. timers_ = TimersOf(heap', S) /\ activeTimers_ = ActiveOf(heap', S)
  BY <1>7, SetsSame DEF OwnerInv
<1>9. timers_' = TimersOf(heap', S \cup R) /\ activeTimers_' = ActiveOf(heap', S \cup R)
  BY <1>6, <1>8, SetsAdd
<1>10. expired' = {} /\ queue' = queue
  BY DEF reset, clientVars
<1>11. Owners(heap', S \cup R, expired', Adds(queue')) /\ AddsOnce(queue')
  <2>1. {a \in Addrs : heap'[a] # Free} = S \cup R \cup Adds(queue)
    BY <1>1, <1>2, <1>3, <1>5, <1>7 DEF Owners
  <2> QED BY <1>1, <1>2, <1>10, <2>1 DEF Owners, OwnerInv
<1> HIDE DEF S, R
<1> QED BY <1>9, <1>11, OwnerFrom

-----------------------------------------------------------------------------
(* The inductive invariant *)

\* No expired timer is free, and no free cell is in a set.
LEMMA OwnedAlive ==
    ASSUME TypeOK, OwnerInv
    PROVE  /\ \A a \in expired : heap[a] # Free
           /\ \A a \in Addrs : heap[a] = Free => a \notin Scheduled /\ a \notin expired /\ a \notin Adds(queue)
  BY DEF OwnerInv, Owners, TypeOK

\* Inv is inductive.
LEMMA InvInductive == Inv /\ [Next]_vars => Inv'
<1> SUFFICES ASSUME Inv, [Next]_vars PROVE SeqInv' /\ OwnerInv' /\ CancelSticks'
  BY TypeInductive, BatchInductive DEF Inv
<1>0. TypeOK /\ BatchInv /\ SeqInv /\ OwnerInv /\ CancelSticks /\ TypeOK'
  BY TypeInductive DEF Inv
<1> DEFINE Goal == SeqInv' /\ OwnerInv' /\ CancelSticks'
<1> USE DEF setVars, batchVars, fdVars, clientVars
<1>1. ASSUME UNCHANGED <<heap, created, timers_, activeTimers_, expired, cancelingTimers_, cancelled>>,
             Adds(queue') = Adds(queue), AddsOnce(queue')
      PROVE  Goal
  <2>1. SeqInv'
    BY <1>0, <1>1 DEF SeqInv
  <2>2. OwnerInv'
    BY <1>0, <1>1 DEF OwnerInv, Scheduled
  <2>3. CancelSticks'
    BY <1>0, <1>1 DEF CancelSticks, ActiveTimer
  <2> QED BY <2>1, <2>2, <2>3
<1>2. AddsOnce(queue)
  BY <1>0 DEF OwnerInv
<1>3. CASE handleRead
  <2>1. UNCHANGED <<heap, created, cancelled>> /\ expired = {}
    BY <1>0, <1>3 DEF handleRead, BatchInv
  <2>2. SeqInv'
    BY <1>0, <2>1 DEF SeqInv
  <2>3. CancelSticks'
    BY <1>0, <2>1 DEF CancelSticks
  <2> QED BY <1>0, <1>3, <2>2, <2>3, ExpiredOwner
<1>4. CASE reset
  <2>1. created' = created /\ cancelled' = cancelled /\ expired' = {}
        /\ cancelingTimers_' = cancelingTimers_
    BY <1>4 DEF reset
  <2>2. \A a \in Addrs :
          \/ a \in expired /\ heap'[a] = Free
          \/ a \in Restarted /\ heap'[a].seq = heap[a].seq /\ heap[a] # Free
          \/ a \notin expired /\ heap'[a] = heap[a]
    <3>1. Restarted \subseteq expired
      BY DEF Restarted
    <3>2. \A a \in expired : heap[a] # Free
      BY <1>0, OwnedAlive
    <3>3. \A a \in Restarted : [heap[a] EXCEPT !.expiration = batchNow + Interval].seq = heap[a].seq
      BY <1>0, <3>1 DEF TypeOK, Timers
    <3> QED BY <1>4, <3>1, <3>2, <3>3 DEF reset
  <2>3. SeqInv'
    BY <1>0, <2>1, <2>2, SeqKept DEF TypeOK
  <2>4. CancelSticks'
    <3> SUFFICES ASSUME NEW a \in Addrs, heap'[a].seq \in cancelled PROVE FALSE
      BY <2>1 DEF CancelSticks
    <3>1. Free.seq \notin cancelled
      BY <1>0 DEF SeqInv, Free
    <3>2. heap'[a].seq = heap[a].seq /\ (a \in Restarted \/ a \notin expired)
      BY <2>2, <3>1
    <3>3. a \in expired /\ ActiveTimer(a) \in cancelingTimers_
      BY <1>0, <3>2 DEF CancelSticks
    <3> QED BY <3>2, <3>3 DEF Restarted
  <2> QED BY <1>0, <1>4, <2>3, <2>4, ResetOwner
<1>5. CASE RunTimer \/ PollTimerfd \/ Tick \/ Fire
  <2>1. UNCHANGED <<heap, created, timers_, activeTimers_, expired, cancelingTimers_, cancelled, queue>>
    BY <1>5 DEF RunTimer, PollTimerfd, Tick, Fire
  <2> QED BY <1>1, <1>2, <2>1
<1>6. CASE RunAdd
  <2> DEFINE a == Head(queue).id[1]
  <2>1. /\ queue \in Seq(FunctorSet) /\ queue # <<>> /\ Head(queue).op = "add" /\ queue' = Tail(queue)
        /\ addTimerInLoop(a, heap[a])
        /\ UNCHANGED <<heap, created, expired, cancelingTimers_, cancelled>>
    BY <1>0, <1>6 DEF RunAdd, TypeOK
  <2>2. /\ Adds(queue') = Adds(queue) \ {a} /\ a \in Adds(queue) /\ AddsOnce(queue')
    BY <1>2, <2>1, TailAdds
  <2>3. a \in Addrs /\ heap[a] # Free /\ a \notin Scheduled /\ a \notin expired
    BY <1>0, <2>2 DEF OwnerInv, Owners
  <2> HIDE DEF a
  <2>4. OwnerInv'
    BY <1>0, <2>1, <2>2, <2>3, AddOwner
  <2>5. SeqInv'
    BY <1>0, <2>1 DEF SeqInv
  <2>6. CancelSticks'
    BY <1>0, <2>1 DEF CancelSticks, ActiveTimer
  <2> QED BY <2>4, <2>5, <2>6
<1>7. CASE RunCancel
  <2>1. /\ queue \in Seq(FunctorSet) /\ queue # <<>> /\ Head(queue).op = "cancel" /\ queue' = Tail(queue)
        /\ cancelInLoop(Head(queue).id) /\ created' = created /\ expired' = expired
    BY <1>0, <1>7 DEF RunCancel, TypeOK
  <2>2. Adds(queue') = Adds(queue) /\ AddsOnce(queue')
    BY <1>2, <2>1, TailAdds
  <2>3. Head(queue).id \in Ids
    <3>1. Head(queue) \in FunctorSet
      BY <2>1
    <3> QED BY <3>1 DEF FunctorSet
  <2> QED BY <1>0, <2>1, <2>2, <2>3, CancelOwner, CancelSeq, OwnedAlive
<1>8. ASSUME NEW a \in Addrs, NEW when \in 1..(MaxTime + 1), NEW rep \in BOOLEAN,
             NewTimer(a, when, rep), UNCHANGED <<expired, cancelingTimers_, cancelled>>
      PROVE  /\ SeqInv' /\ CancelSticks' /\ heap'[a] # Free /\ heap[a] = Free
             /\ \A b \in Addrs \ {a} : heap'[b] = heap[b]
             /\ a \notin Scheduled /\ a \notin expired /\ a \notin Adds(queue)
  <2>1. SeqInv' /\ heap'[a] # Free /\ heap'[a].seq \notin cancelled
    BY <1>0, <1>8, SeqNew
  <2>2. heap[a] = Free /\ \A b \in Addrs \ {a} : heap'[b] = heap[b]
    BY <1>0, <1>8 DEF NewTimer, TypeOK
  <2>3. CancelSticks'
    <3> SUFFICES ASSUME NEW b \in Addrs, heap'[b].seq \in cancelled
                 PROVE  b \in expired' /\ ActiveTimer(b)' \in cancelingTimers_'
      BY <1>8 DEF CancelSticks
    <3>1. heap'[b] = heap[b]
      BY <2>1, <2>2
    <3> QED BY <1>0, <1>8, <3>1 DEF CancelSticks, ActiveTimer
  <2> QED BY <1>0, <2>1, <2>2, <2>3, OwnedAlive
<1>9. ASSUME NEW a \in Addrs, NEW when \in 1..(MaxTime + 1), NEW rep \in BOOLEAN,
             AddInLoop(a, when, rep)
      PROVE  Goal
  <2>1. NewTimer(a, when, rep) /\ addTimerInLoop(a, heap'[a])
        /\ UNCHANGED <<expired, cancelingTimers_, cancelled, queue>>
    BY <1>9 DEF AddInLoop
  <2>2. /\ SeqInv' /\ CancelSticks' /\ heap'[a] # Free
        /\ \A b \in Addrs \ {a} : heap'[b] = heap[b]
        /\ a \notin Scheduled /\ a \notin expired /\ a \notin Adds(queue)
    BY <1>8, <2>1
  <2>3. Adds(queue') = Adds(queue) \ {a} /\ AddsOnce(queue')
    BY <1>2, <2>1, <2>2
  <2>4. OwnerInv'
    BY <1>0, <2>1, <2>2, <2>3, AddOwner
  <2> QED BY <2>2, <2>4
<1>10. ASSUME NEW a \in Addrs, NEW when \in 1..(MaxTime + 1), NEW rep \in BOOLEAN,
              NEW t \in Threads, AddOffLoop(t, a, when, rep)
       PROVE  Goal
  <2>1. NewTimer(a, when, rep)
        /\ UNCHANGED <<timers_, activeTimers_, expired, cancelingTimers_, cancelled>>
        /\ queue' = Append(queue, [op |-> "add", id |-> <<a, created'>>])
    BY <1>10 DEF AddOffLoop
  <2>2. /\ SeqInv' /\ CancelSticks' /\ heap'[a] # Free /\ heap[a] = Free
        /\ \A b \in Addrs \ {a} : heap'[b] = heap[b]
        /\ a \notin Scheduled /\ a \notin expired /\ a \notin Adds(queue)
    BY <1>8, <2>1
  <2>3. Adds(queue') = Adds(queue) \cup {a} /\ AddsOnce(queue')
    <3>1. queue \in Seq(FunctorSet) /\ <<a, created'>> \in Ids
      BY <1>0 DEF TypeOK, Ids
    <3> DEFINE f == [op |-> "add", id |-> <<a, created'>>]
    <3>2. f \in FunctorSet /\ f.op = "add" /\ f.id[1] = a
      BY <3>1 DEF FunctorSet
    <3> HIDE DEF f
    <3>3. queue' = Append(queue, f)
      BY <2>1 DEF f
    <3> QED BY <1>2, <2>2, <3>1, <3>2, <3>3, AppendAdds
  <2>4. Scheduled \subseteq Addrs /\ \A b \in Scheduled : heap'[b] = heap[b]
    BY <1>0, <2>2 DEF Scheduled, TypeOK
  <2>5. timers_' = TimersOf(heap', Scheduled) /\ activeTimers_' = ActiveOf(heap', Scheduled)
    BY <1>0, <2>1, <2>4, SetsSame DEF OwnerInv
  <2>6. Owners(heap', Scheduled, expired', Adds(queue'))
    <3>1. Owners(heap, Scheduled, expired, Adds(queue))
      BY <1>0 DEF OwnerInv
    <3>2. {b \in Addrs : heap'[b] # Free} = {b \in Addrs : heap[b] # Free} \cup {a}
      BY <2>2
    <3> QED BY <2>1, <2>2, <2>3, <3>1, <3>2 DEF Owners
  <2> QED BY <2>2, <2>3, <2>5, <2>6, OwnerFrom
<1>11. ASSUME NEW t \in Threads, ReadSequence(t) PROVE Goal
  BY <1>1, <1>2, <1>11 DEF ReadSequence
<1>12. ASSUME NEW id \in ids, CancelHere(id) PROVE Goal
  <2>1. id \in Ids /\ cancelInLoop(id) /\ UNCHANGED <<created, expired, queue>>
    BY <1>0, <1>12 DEF CancelHere, TypeOK
  <2> QED BY <1>0, <1>2, <2>1, CancelOwner, CancelSeq, OwnedAlive
<1>13. ASSUME NEW id \in ids, CancelOffLoop(id) PROVE Goal
  <2> DEFINE f == [op |-> "cancel", id |-> id]
  <2>1. f \in FunctorSet /\ f.op = "cancel" /\ queue \in Seq(FunctorSet)
    BY <1>0 DEF TypeOK, FunctorSet
  <2>2. queue' = Append(queue, f)
        /\ UNCHANGED <<heap, created, timers_, activeTimers_, expired, cancelingTimers_, cancelled>>
    BY <1>13 DEF CancelOffLoop
  <2> HIDE DEF f
  <2>3. Adds(queue') = Adds(queue) /\ AddsOnce(queue')
    BY <1>2, <2>1, <2>2, AppendAdds
  <2> QED BY <1>1, <2>2, <2>3
<1>14. CASE UNCHANGED vars
  BY <1>1, <1>2, <1>14 DEF vars
<1> QED BY <1>3, <1>4, <1>5, <1>6, <1>7, <1>9, <1>10, <1>11, <1>12, <1>13, <1>14
        DEF Next, Clients, RunFunctor

\* Inv holds in every state.
LEMMA Invariant == SafetySpec => []Inv
<1>1. Init => Inv
  <2> SUFFICES ASSUME Init PROVE Inv
    OBVIOUS
  <2>1. Free \in Timers
    BY DEF Free, Timers
  <2>2. heap = [a \in Addrs |-> Free] /\ queue = <<>> /\ expired = {} /\ timers_ = {}
        /\ activeTimers_ = {} /\ cancelled = {} /\ created = 0
    BY DEF Init
  <2>3. /\ callingExpiredTimers_ \in BOOLEAN /\ readable \in BOOLEAN /\ active \in BOOLEAN
        /\ (active => ~callingExpiredTimers_)
    BY DEF Init
  <2>4. TypeOK
    BY <2>1, <2>2, <2>3 DEF Init, TypeOK
  <2>5. BatchInv
    BY <2>2, <2>3 DEF BatchInv
  <2>6. SeqInv
    BY <2>2 DEF SeqInv, Free
  <2>7. OwnerInv
    <3>1. Scheduled = {} /\ Adds(queue) = {} /\ AddsOnce(queue)
      BY <2>2 DEF Scheduled, Adds, AddsOnce
    <3> QED BY <2>2, <3>1 DEF OwnerInv, Owners, TimersOf, ActiveOf
  <2>8. CancelSticks
    BY <2>2 DEF CancelSticks
  <2> QED BY <2>4, <2>5, <2>6, <2>7, <2>8 DEF Inv
<1> QED BY <1>1, InvInductive, PTL DEF SafetySpec

\* Every variable of the timer queue keeps its type.
THEOREM TypeCorrect == SafetySpec => []TypeOK
<1>1. Inv => TypeOK
  BY DEF Inv
<1> QED BY <1>1, Invariant, PTL

\* timers_ and activeTimers_ describe the same timers, each once and under its own expiration
\* and sequence, as the assertions at TimerQueue.cc:158-173, 200-222 and 260-281 say.
THEOREM SetsStayTogether == SafetySpec => []SetsAgree
<1>1. Inv => SetsAgree
  BY DEF Inv, OwnerInv, SetsAgree, TimersOf, ActiveOf, ActiveTimer
<1> QED BY <1>1, Invariant, PTL

\* Every Timer object is deleted by exactly one of the queued functor, the sets and the batch of
\* handleRead (TimerQueue.cc:115-174, 198-281).
THEOREM TimersHaveOneOwner == SafetySpec => []OneOwner
<1>1. Inv => OneOwner
  BY DEF Inv, OwnerInv, Owners, OneOwner, Adds, InQueue
<1> QED BY <1>1, Invariant, PTL

\* A timer cancelled while handleRead had moved it out of the sets is not scheduled again
\* (TimerQueue.cc:155-174, 226-255).
THEOREM CancelledStaysCancelled == SafetySpec => []CancelSticks
<1>1. Inv => CancelSticks
  BY DEF Inv
<1> QED BY <1>1, Invariant, PTL

-----------------------------------------------------------------------------
(* The alarm *)

\* The timerfd is set early enough for the timers T at the time n.
Covers(alarm, T, n) == alarm # 0 /\ \A e \in T : alarm <= Later(e[1], n + 1)

\* addTimerInLoop leaves an alarm for all the timers if there was one.
LEMMA AddCovers ==
    ASSUME TypeOK, TypeOK', AlarmCovers, ~callingExpiredTimers_, now' = now, active' = active,
           NEW a \in Addrs, NEW timer \in Timers, addTimerInLoop(a, timer)
    PROVE  AlarmCovers'
<1> DEFINE w == timer.expiration
<1>1. w \in Nat /\ now \in Nat /\ armed \in Nat /\ \A e \in timers_ : e[1] \in Nat
  BY DEF Timers, TypeOK
<1>2. timers_' = timers_ \cup {<<w, a>>}
  BY DEF addTimerInLoop, Inserted
<1> HIDE DEF w
<1>3. \A e \in timers_' : e \in timers_ \/ e[1] = w
  BY <1>2
<1>4. CASE earliestChanged(w)
  <2>1. armed' = Later(w, now + 1)
    <3>1. resetTimerfd(w)
      BY <1>4 DEF addTimerInLoop, w
    <3> QED BY <1>1, <3>1, TimerfdArmed
  <2>2. \A e \in timers_' : w <= e[1] /\ e[1] \in Nat
    BY <1>1, <1>3, <1>4 DEF earliestChanged
  <2>3. armed' # 0 /\ \A e \in timers_' : armed' <= Later(e[1], now + 1)
    BY <1>1, <2>1, <2>2 DEF Later
  <2> QED BY <2>3 DEF AlarmCovers
<1>5. CASE ~earliestChanged(w)
  <2>1. armed' = armed /\ readable' = readable
    BY <1>5 DEF addTimerInLoop, fdVars, w
  <2>2. PICK f \in timers_ : f[1] <= w
    BY <1>1, <1>5 DEF earliestChanged
  <2>3. readable \/ active \/ Covers(armed, timers_, now)
    BY <2>2 DEF AlarmCovers, Covers
  <2>4. Covers(armed, timers_, now) => Covers(armed, timers_', now)
    BY <1>1, <1>3, <2>2 DEF Covers, Later
  <2> QED BY <2>1, <2>3, <2>4 DEF AlarmCovers, Covers
<1> QED BY <1>4, <1>5

\* Every step leaves an alarm for the timers that wait.
LEMMA AlarmInductive == TypeOK /\ TypeOK' /\ AlarmCovers /\ [Next]_vars => AlarmCovers'
<1> SUFFICES ASSUME TypeOK, TypeOK', AlarmCovers, [Next]_vars PROVE AlarmCovers'
  OBVIOUS
<1> USE DEF setVars, batchVars, fdVars, clientVars
<1>1. ASSUME timers_' \subseteq timers_, UNCHANGED <<callingExpiredTimers_, armed, readable, now>>,
             active => active'
      PROVE  AlarmCovers'
  BY <1>1 DEF AlarmCovers
<1>2. CASE handleRead
  BY <1>2 DEF handleRead, AlarmCovers
<1>3. CASE RunTimer \/ PollTimerfd
  BY <1>1, <1>3 DEF RunTimer, PollTimerfd
<1>4. CASE reset
  <2>1. CASE timers_' = {}
    BY <2>1 DEF AlarmCovers
  <2>2. CASE timers_' # {}
    <3>1. PICK e \in timers_' : (\A f \in timers_' : e[1] <= f[1]) /\ resetTimerfd(e[1])
      BY <1>4, <2>2 DEF reset
    <3>2. /\ now \in Nat /\ now' = now /\ \A f \in timers_' : f[1] \in Nat
          /\ armed' = Later(e[1], now + 1)
      <4>1. now \in Nat /\ now' = now /\ \A f \in timers_' : f[1] \in Nat
        BY <1>4 DEF TypeOK, reset
      <4> QED BY <3>1, <4>1, TimerfdArmed
    <3>3. armed' # 0 /\ \A f \in timers_' : armed' <= Later(f[1], now + 1)
      BY <3>1, <3>2 DEF Later
    <3> QED BY <3>2, <3>3 DEF AlarmCovers
  <2> QED BY <2>1, <2>2
<1>5. CASE RunAdd
  <2>1. Head(queue).id[1] \in Addrs /\ heap[Head(queue).id[1]] \in Timers
    <3>1. Head(queue) \in FunctorSet
      BY <1>5 DEF RunAdd, TypeOK
    <3> QED BY <3>1 DEF FunctorSet, Ids, TypeOK
  <2> QED BY <1>5, <2>1, AddCovers DEF RunAdd
<1>6. \A id : cancelInLoop(id) => timers_' \subseteq timers_
  BY DEF cancelInLoop
<1>7. CASE RunCancel
  BY <1>1, <1>6, <1>7 DEF RunCancel
<1>8. ASSUME NEW a \in Addrs, NEW when \in 1..(MaxTime + 1), NEW rep \in BOOLEAN,
             AddInLoop(a, when, rep)
      PROVE  AlarmCovers'
  <2>1. CASE callingExpiredTimers_
    BY <1>8, <2>1 DEF AddInLoop, AlarmCovers
  <2>2. CASE ~callingExpiredTimers_
    <3>1. heap'[a] \in Timers
      BY DEF TypeOK
    <3> QED BY <1>8, <2>2, <3>1, AddCovers DEF AddInLoop
  <2> QED BY <2>1, <2>2
<1>9. ASSUME NEW a \in Addrs, NEW when \in 1..(MaxTime + 1), NEW rep \in BOOLEAN,
             NEW t \in Threads, AddOffLoop(t, a, when, rep)
      PROVE  AlarmCovers'
  BY <1>1, <1>9 DEF AddOffLoop
<1>10. CASE \E t \in Threads : ReadSequence(t)
  BY <1>1, <1>10 DEF ReadSequence
<1>11. CASE \E id \in ids : CancelHere(id) \/ CancelOffLoop(id)
  BY <1>1, <1>6, <1>11 DEF CancelHere, CancelOffLoop
<1>12. CASE Tick
  <2>1. now \in Nat /\ now' = now + 1 /\ armed \in Nat /\ \A e \in timers_ : e[1] \in Nat
    BY <1>12 DEF Tick, TypeOK
  <2>2. UNCHANGED <<timers_, callingExpiredTimers_, armed, readable, active>>
    BY <1>12 DEF Tick
  <2>3. Covers(armed, timers_, now) => Covers(armed, timers_, now')
    BY <2>1 DEF Covers, Later
  <2> QED BY <2>2, <2>3 DEF AlarmCovers, Covers
<1>13. CASE Fire
  BY <1>13 DEF Fire, AlarmCovers
<1>14. CASE UNCHANGED vars
  BY <1>1, <1>14 DEF vars
<1> QED BY <1>2, <1>3, <1>4, <1>5, <1>7, <1>8, <1>9, <1>10, <1>11, <1>12, <1>13, <1>14
        DEF Next, Clients, RunFunctor

\* Between two batches a pending timer has the timerfd armed for its time or earlier, or already
\* fired (TimerQueue.cc:63-84, 144-153, 226-255).
THEOREM TimersHaveAnAlarm == SafetySpec => []AlarmCovers
<1>1. Init => AlarmCovers
  BY DEF Init, AlarmCovers
<1> QED BY <1>1, TypeCorrect, AlarmInductive, PTL DEF SafetySpec

=============================================================================
