--------------------------- MODULE ServersProofs ---------------------------
(***************************************************************************)
(* Proofs that TcpServer accounts for its connections and its descriptors, *)
(* for any number of connections and loops and any limit of descriptors;   *)
(* that a sudoku server answers in order, for any threads of its pool and  *)
(* any requests; and that a ThreadPool loses no wakeup, for any threads,   *)
(* producers and bound.                                                    *)
(*                                                                         *)
(* ConnectionsAccounted is not inductive: it does not say which functors   *)
(* may be queued where.  The invariant adds, for each kind of functor, its *)
(* loop and the phases of its connection (FunctorOK), that in a queue      *)
(* connectEstablished comes before connectDestroyed (Ordered), which is    *)
(* why a connection is never revived, that the connections of the backlog  *)
(* are new to the server (BacklogOK), and how far the round robin is       *)
(* (RoundRobin).                                                           *)
(*                                                                         *)
(* AnswersInOrder is not inductive either: it says nothing of the requests *)
(* that were taken and have no answer yet.  The invariant, InOrder, has    *)
(* each of them in one place, the queue of the pool, the hands of a worker *)
(* or the functors of the loop; with one worker at most, those that are    *)
(* further on have smaller numbers (Stages), and no answer overtakes one   *)
(* that is still to come (NoGap).  That a new request has a greater number *)
(* than all before follows from where the parser is in the stream of the   *)
(* client (Stream).                                                        *)
(***************************************************************************)
EXTENDS TcpServer, SudokuServer, FiniteSetTheorems, SequenceTheorems, WellFoundedInduction, TLAPS

Loops == {BaseLoop} \cup IoLoops
Phases == {"none", "backlog", "new", "up", "down", "gone", "refused"}
Functors == {"established", "remove", "destroyed"} \X Conns

Distinct(s) == \A i, j \in DOMAIN s : s[i] = s[j] => i = j

\* In the queue s no connectDestroyed is before the connectEstablished of its connection.
Ordered(s) ==
    \A i, j \in DOMAIN s :
        s[i][1] = "established" /\ s[j][1] = "destroyed" /\ s[i][2] = s[j][2] => i < j

ServerStates ==
    [loops : Seq(IoLoops), next : Nat, listening : BOOLEAN, backlog : Seq(Conns),
     phase : [Conns -> Phases], loop : [Conns -> Loops], map : SUBSET Conns,
     functors : [Loops -> Seq(Functors)], idleFd : BOOLEAN, others : Nat,
     handling : {"no", "accept", "open"}, destroyed : BOOLEAN, quit : SUBSET Loops,
     touched : BOOLEAN, accepts : [Loops -> Nat]]
ServerTypeOK == server \in ServerStates

\* The backlog holds connections that the server has not seen, and handleRead finds one there.
BacklogOK(backlog, phase, handling) ==
    /\ Distinct(backlog)
    /\ \A i \in DOMAIN backlog : phase[backlog[i]] = "backlog"
    /\ handling = "accept" => backlog # <<>>

\* The functor f in the queue of the loop l.
FunctorOK(phase, loop, map, destroyed, l, f) ==
    /\ f[1] = "established" => l # BaseLoop /\ loop[f[2]] = l /\ phase[f[2]] = "new"
    /\ f[1] = "remove" =>
         l = BaseLoop /\ phase[f[2]] \in {"down", "gone"} /\ (f[2] \in map \/ destroyed)
    /\ f[1] = "destroyed" =>
         /\ loop[f[2]] = l /\ f[2] \notin map
         /\ phase[f[2]] = "down" \/ (destroyed /\ phase[f[2]] \in {"new", "up"})
QueuesOK(phase, loop, map, functors, destroyed) ==
    \A l \in Loops :
        /\ Distinct(functors[l]) /\ Ordered(functors[l])
        /\ \A f \in ToSet(functors[l]) : FunctorOK(phase, loop, map, destroyed, l, f)

\* A connection in connections_, and one that is not.
MapOK(phase, map, functors) ==
    \A c \in map :
        \/ phase[c] \in {"new", "up"}
        \/ phase[c] = "down" /\ <<"remove", c>> \in ToSet(functors[BaseLoop])
RestOK(phase, loop, map, functors, destroyed) ==
    \A c \in Conns \ map :
        \/ phase[c] \in {"none", "backlog", "refused", "gone"}
        \/ /\ <<"destroyed", c>> \in ToSet(functors[loop[c]])
           /\ phase[c] \in {"new", "up"} => destroyed

\* The loops before next have had one connection more than the others.
RoundRobin(loops, next, accepts) ==
    /\ Distinct(loops)
    /\ loops # <<>> =>
         /\ next \in 1 .. Len(loops)
         /\ \A i \in DOMAIN loops :
              accepts[loops[i]] = accepts[loops[Len(loops)]] + (IF i < next THEN 1 ELSE 0)

ConnsOK(phase, loop, map, functors, destroyed) ==
    /\ QueuesOK(phase, loop, map, functors, destroyed)
    /\ MapOK(phase, map, functors)
    /\ RestOK(phase, loop, map, functors, destroyed)

Accounted(sv) ==
    /\ sv \in ServerStates
    /\ BacklogOK(sv.backlog, sv.phase, sv.handling)
    /\ RoundRobin(sv.loops, sv.next, sv.accepts)
    /\ \/ sv.touched
       \/ /\ ConnsOK(sv.phase, sv.loop, sv.map, sv.functors, sv.destroyed)
          /\ FreeFds(sv) >= 0
ServerInv == Accounted(server)

-----------------------------------------------------------------------------
(***************************************************************************)
(* Queues.                                                                 *)
(***************************************************************************)
\* A functor is a pair.
LEMMA Pairs ==
    /\ \A f \in Functors : /\ f = <<f[1], f[2]>> /\ f[2] \in Conns
                           /\ f[1] \in {"established", "remove", "destroyed"}
    /\ \A c \in Conns : /\ <<"established", c>> \in Functors /\ <<"remove", c>> \in Functors
                        /\ <<"destroyed", c>> \in Functors
    /\ \A x, c : <<x, c>>[1] = x /\ <<x, c>>[2] = c
BY DEF Functors

\* push_back of something that is not there yet.
LEMMA AppendDistinct ==
    ASSUME NEW S, NEW s \in Seq(S), NEW x \in S
    PROVE  /\ Append(s, x) \in Seq(S) /\ Append(s, x) # <<>>
           /\ ToSet(Append(s, x)) = ToSet(s) \cup {x}
           /\ Distinct(s) /\ x \notin ToSet(s) => Distinct(Append(s, x))
<1> DEFINE t == Append(s, x)
<1>1. /\ t \in Seq(S) /\ Len(t) = Len(s) + 1 /\ Len(s) \in Nat /\ t # <<>>
      /\ DOMAIN t = 1 .. Len(s) + 1 /\ DOMAIN s = 1 .. Len(s)
      /\ \A i \in 1 .. Len(s) : t[i] = s[i]
      /\ t[Len(s) + 1] = x
  OBVIOUS
<1> HIDE DEF t
<1>2. ToSet(t) = ToSet(s) \cup {x}
  <2>1. ASSUME NEW y \in ToSet(t) PROVE y \in ToSet(s) \cup {x}
    <3>1. PICK i \in 1 .. Len(s) + 1 : y = t[i]
      BY <1>1 DEF ToSet
    <3>2. CASE i = Len(s) + 1
      BY <1>1, <3>1, <3>2
    <3>3. CASE i # Len(s) + 1
      <4>1. i \in 1 .. Len(s)
        BY <1>1, <3>3
      <4> QED BY <1>1, <3>1, <4>1 DEF ToSet
    <3> QED BY <3>2, <3>3
  <2>2. ASSUME NEW i \in 1 .. Len(s) PROVE s[i] \in ToSet(t)
    <3>1. i \in DOMAIN t /\ t[i] = s[i]
      BY <1>1
    <3> QED BY <3>1 DEF ToSet
  <2>3. x \in ToSet(t)
    <3>1. Len(s) + 1 \in DOMAIN t
      BY <1>1
    <3> QED BY <1>1, <3>1 DEF ToSet
  <2>4. \A y \in ToSet(s) : y \in ToSet(t)
    BY <1>1, <2>2 DEF ToSet
  <2> QED BY <2>1, <2>3, <2>4
<1>3. ASSUME Distinct(s), x \notin ToSet(s) PROVE Distinct(t)
  <2> SUFFICES ASSUME NEW i \in 1 .. Len(s) + 1, NEW j \in 1 .. Len(s) + 1, t[i] = t[j]
               PROVE  i = j
    BY <1>1 DEF Distinct
  <2>1. \A k \in 1 .. Len(s) : t[k] # x
    BY <1>1, <1>3 DEF ToSet
  <2>2. CASE i = Len(s) + 1 \/ j = Len(s) + 1
    BY <1>1, <2>1, <2>2
  <2>3. CASE ~(i = Len(s) + 1 \/ j = Len(s) + 1)
    <3>1. i \in 1 .. Len(s) /\ j \in 1 .. Len(s)
      BY <1>1, <2>3
    <3> QED BY <1>1, <1>3, <3>1 DEF Distinct
  <2> QED BY <2>2, <2>3
<1> QED BY <1>1, <1>2, <1>3 DEF t

\* The first element is taken.
LEMMA TailDistinct ==
    ASSUME NEW S, NEW s \in Seq(S), s # <<>>
    PROVE  /\ Tail(s) \in Seq(S) /\ Head(s) \in S /\ Head(s) \in ToSet(s)
           /\ ToSet(Tail(s)) \subseteq ToSet(s)
           /\ \A y \in ToSet(s) : y = Head(s) \/ y \in ToSet(Tail(s))
           /\ Distinct(s) => Distinct(Tail(s)) /\ Head(s) \notin ToSet(Tail(s))
<1> DEFINE t == Tail(s)
<1>1. /\ t \in Seq(S) /\ Len(t) = Len(s) - 1 /\ Len(s) \in Nat \ {0}
      /\ DOMAIN t = 1 .. Len(s) - 1 /\ DOMAIN s = 1 .. Len(s)
      /\ \A i \in 1 .. Len(s) - 1 : t[i] = s[i + 1]
      /\ Head(s) = s[1] /\ Head(s) \in S
  OBVIOUS
<1> HIDE DEF t
<1>2. Head(s) \in ToSet(s)
  BY <1>1 DEF ToSet
<1>3. ASSUME NEW i \in DOMAIN t PROVE i + 1 \in DOMAIN s /\ t[i] = s[i + 1]
  BY <1>1
<1>4. ToSet(t) \subseteq ToSet(s)
  BY <1>3 DEF ToSet
<1>5. ASSUME NEW y \in ToSet(s), y # Head(s) PROVE y \in ToSet(t)
  <2>1. PICK i \in 1 .. Len(s) : y = s[i]
    BY <1>1 DEF ToSet
  <2>2. i # 1
    BY <1>1, <1>5, <2>1
  <2>3. i - 1 \in DOMAIN t /\ t[i - 1] = s[i]
    BY <1>1, <2>2
  <2> QED BY <2>1, <2>3 DEF ToSet
<1>6. ASSUME Distinct(s) PROVE Distinct(t) /\ Head(s) \notin ToSet(t)
  <2>1. ASSUME NEW i \in DOMAIN t, NEW j \in DOMAIN t, t[i] = t[j] PROVE i = j
    <3>1. i + 1 = j + 1
      BY <1>3, <1>6, <2>1 DEF Distinct
    <3> QED BY <1>1, <3>1
  <2>2. ASSUME NEW i \in DOMAIN t PROVE t[i] # Head(s)
    <3>1. i + 1 \in DOMAIN s /\ 1 \in DOMAIN s /\ i + 1 # 1
      BY <1>1
    <3> QED BY <1>1, <1>3, <1>6, <3>1 DEF Distinct
  <2> QED BY <2>1, <2>2 DEF Distinct, ToSet
<1> QED BY <1>1, <1>2, <1>4, <1>5, <1>6 DEF t

\* A functor that is queued keeps the order, unless it establishes what is to be destroyed.
LEMMA AppendOrdered ==
    ASSUME NEW s \in Seq(Functors), Ordered(s), NEW f \in Functors,
           f[1] = "established" => <<"destroyed", f[2]>> \notin ToSet(s)
    PROVE  Ordered(Append(s, f))
<1> DEFINE t == Append(s, f)
<1>1. /\ Len(s) \in Nat /\ DOMAIN t = 1 .. Len(s) + 1 /\ DOMAIN s = 1 .. Len(s)
      /\ \A i \in 1 .. Len(s) : t[i] = s[i]
      /\ t[Len(s) + 1] = f
  OBVIOUS
<1> HIDE DEF t
<1>2. ASSUME NEW i \in DOMAIN t, NEW j \in DOMAIN t,
             t[i][1] = "established", t[j][1] = "destroyed", t[i][2] = t[j][2]
      PROVE  i < j
  <2>1. CASE i = Len(s) + 1
    <3>1. t[i] = f /\ j # Len(s) + 1
      BY <1>1, <1>2, <2>1
    <3>2. j \in DOMAIN s /\ t[j] = s[j]
      BY <1>1, <3>1
    <3>3. s[j] \in Functors /\ s[j] \in ToSet(s)
      BY <3>2 DEF ToSet
    <3>4. s[j] = <<"destroyed", f[2]>>
      BY <1>2, <3>1, <3>2, <3>3, Pairs
    <3> QED BY <1>2, <3>1, <3>3, <3>4
  <2>2. CASE i # Len(s) + 1 /\ j = Len(s) + 1
    BY <1>1, <2>2
  <2>3. CASE i # Len(s) + 1 /\ j # Len(s) + 1
    <3>1. i \in DOMAIN s /\ j \in DOMAIN s /\ t[i] = s[i] /\ t[j] = s[j]
      BY <1>1, <2>3
    <3> QED BY <1>2, <3>1 DEF Ordered
  <2> QED BY <2>1, <2>2, <2>3
<1>3. Ordered(t)
  BY <1>2 DEF Ordered
<1> QED BY <1>3 DEF t

\* A functor that is run was not to be run later, and what it destroys was established.
LEMMA TailOrdered ==
    ASSUME NEW s \in Seq(Functors), s # <<>>, Ordered(s)
    PROVE  /\ Ordered(Tail(s))
           /\ Head(s)[1] = "destroyed" => <<"established", Head(s)[2]>> \notin ToSet(s)
<1> DEFINE t == Tail(s)
<1>1. /\ Len(s) \in Nat \ {0} /\ DOMAIN t = 1 .. Len(s) - 1 /\ DOMAIN s = 1 .. Len(s)
      /\ \A i \in 1 .. Len(s) - 1 : t[i] = s[i + 1]
      /\ Head(s) = s[1]
  OBVIOUS
<1> HIDE DEF t
<1>2. ASSUME NEW i \in DOMAIN t, NEW j \in DOMAIN t,
             t[i][1] = "established", t[j][1] = "destroyed", t[i][2] = t[j][2]
      PROVE  i < j
  <2>1. i + 1 \in DOMAIN s /\ j + 1 \in DOMAIN s /\ t[i] = s[i + 1] /\ t[j] = s[j + 1]
    BY <1>1
  <2>2. i + 1 < j + 1
    BY <1>2, <2>1 DEF Ordered
  <2> QED BY <1>1, <2>2
<1>3. ASSUME Head(s)[1] = "destroyed", <<"established", Head(s)[2]>> \in ToSet(s) PROVE FALSE
  <2>1. PICK i \in DOMAIN s : s[i] = <<"established", Head(s)[2]>>
    BY <1>3 DEF ToSet
  <2>2. 1 \in DOMAIN s /\ s[1] = Head(s) /\ s[i][1] = "established" /\ s[i][2] = Head(s)[2]
    BY <1>1, <2>1, Pairs
  <2>3. i < 1
    BY <1>3, <2>2 DEF Ordered
  <2> QED BY <1>1, <2>3
<1>4. Ordered(t)
  BY <1>2 DEF Ordered
<1> QED BY <1>3, <1>4 DEF t

\* Functors that destroy other connections than those of a queue are queued behind it.
LEMMA ConcatQueue ==
    ASSUME NEW s \in Seq(Functors), NEW t \in Seq(Functors),
           Distinct(s), Ordered(s), Distinct(t), ToSet(s) \cap ToSet(t) = {},
           \A f \in ToSet(t) : f[1] = "destroyed"
    PROVE  /\ s \o t \in Seq(Functors) /\ ToSet(s \o t) = ToSet(s) \cup ToSet(t)
           /\ Distinct(s \o t) /\ Ordered(s \o t)
<1> DEFINE u == s \o t
           m == Len(s)
           n == Len(t)
<1>1. /\ u \in Seq(Functors) /\ m \in Nat /\ n \in Nat
      /\ DOMAIN u = 1 .. m + n /\ DOMAIN s = 1 .. m /\ DOMAIN t = 1 .. n
      /\ \A i \in 1 .. m : u[i] = s[i]
      /\ \A i \in m + 1 .. m + n : u[i] = t[i - m]
  OBVIOUS
<1> HIDE DEF u, m, n
<1>2. ASSUME NEW i \in DOMAIN u
      PROVE  \/ i \in DOMAIN s /\ u[i] = s[i] /\ u[i] \in ToSet(s)
             \/ i > m /\ i - m \in DOMAIN t /\ u[i] = t[i - m] /\ u[i] \in ToSet(t)
  <2>1. CASE i <= m
    <3>1. i \in DOMAIN s /\ u[i] = s[i]
      BY <1>1, <2>1
    <3> QED BY <3>1 DEF ToSet
  <2>2. CASE ~(i <= m)
    <3>1. i > m /\ i - m \in DOMAIN t /\ u[i] = t[i - m]
      BY <1>1, <2>2, SMTT(30)
    <3> QED BY <3>1 DEF ToSet
  <2> QED BY <2>1, <2>2
<1>3. ToSet(u) = ToSet(s) \cup ToSet(t)
  <2>1. \A f \in ToSet(u) : f \in ToSet(s) \cup ToSet(t)
    BY <1>2 DEF ToSet
  <2>2. ASSUME NEW i \in DOMAIN s PROVE s[i] \in ToSet(u)
    <3>1. i \in DOMAIN u /\ u[i] = s[i]
      BY <1>1
    <3> QED BY <3>1 DEF ToSet
  <2>3. ASSUME NEW i \in DOMAIN t PROVE t[i] \in ToSet(u)
    <3>1. m + i \in DOMAIN u /\ u[m + i] = t[i]
      BY <1>1
    <3> QED BY <3>1 DEF ToSet
  <2>4. \A f \in ToSet(s) \cup ToSet(t) : f \in ToSet(u)
    BY <2>2, <2>3 DEF ToSet
  <2> QED BY <2>1, <2>4
<1>4. ASSUME NEW i \in DOMAIN u, NEW j \in DOMAIN u, u[i] = u[j] PROVE i = j
  <2>1. CASE u[i] \in ToSet(s)
    <3>1. i \in DOMAIN s /\ u[i] = s[i] /\ j \in DOMAIN s /\ u[j] = s[j]
      BY <1>2, <1>4, <2>1
    <3> QED BY <1>4, <3>1 DEF Distinct
  <2>2. CASE u[i] \notin ToSet(s)
    <3>1. i - m \in DOMAIN t /\ u[i] = t[i - m] /\ j - m \in DOMAIN t /\ u[j] = t[j - m]
      BY <1>2, <1>4, <2>2
    <3>2. i - m = j - m
      BY <1>4, <3>1 DEF Distinct
    <3> QED BY <1>1, <3>2
  <2> QED BY <2>1, <2>2
<1>5. ASSUME NEW i \in DOMAIN u, NEW j \in DOMAIN u,
             u[i][1] = "established", u[j][1] = "destroyed", u[i][2] = u[j][2]
      PROVE  i < j
  <2>1. u[i] \notin ToSet(t)
    BY <1>5
  <2>2. i \in DOMAIN s /\ u[i] = s[i]
    BY <1>2, <2>1
  <2>3. CASE j \in DOMAIN s /\ u[j] = s[j]
    BY <1>5, <2>2, <2>3 DEF Ordered
  <2>4. CASE j > m
    BY <1>1, <2>2, <2>4
  <2> QED BY <1>2, <2>3, <2>4
<1>6. Distinct(u) /\ Ordered(u)
  BY <1>4, <1>5 DEF Distinct, Ordered
<1> QED BY <1>1, <1>3, <1>6 DEF u

-----------------------------------------------------------------------------
(***************************************************************************)
(* What the steps do to the queues of all loops.                           *)
(***************************************************************************)
Tidy(functors) ==
    /\ functors \in [Loops -> Seq(Functors)]
    /\ \A l \in Loops : Distinct(functors[l]) /\ Ordered(functors[l])

\* q is what is left when the loop l has taken the functor head from its queue.
Popped(functors, q, l, head) ==
    /\ Tidy(q)
    /\ head \in Functors /\ head \in ToSet(functors[l]) /\ head \notin ToSet(q[l])
    /\ head[1] = "destroyed" => <<"established", head[2]>> \notin ToSet(q[l])
    /\ \A k \in Loops : ToSet(q[k]) \subseteq ToSet(functors[k])
    /\ \A k \in Loops : \A f \in ToSet(functors[k]) : f \in ToSet(q[k]) \/ (k = l /\ f = head)

\* q is what is queued once f is in the queue of the loop l.
Pushed(functors, q, l, f) ==
    /\ Tidy(q)
    /\ \A k \in Loops : \A g : g \in ToSet(q[k]) <=> g \in ToSet(functors[k]) \/ (k = l /\ g = f)

\* A loop runs its first functor (EventLoop::doPendingFunctors).
LEMMA Pop ==
    ASSUME NEW functors, Tidy(functors), NEW l \in Loops, functors[l] # <<>>,
           NEW q, q = [functors EXCEPT ![l] = Tail(@)]
    PROVE  Popped(functors, q, l, Head(functors[l]))
<1>1. functors[l] \in Seq(Functors) /\ Distinct(functors[l]) /\ Ordered(functors[l])
  BY DEF Tidy
<1>2. q[l] = Tail(functors[l]) /\ \A k \in Loops : k # l => q[k] = functors[k]
  BY DEF Tidy
<1>3. /\ Tail(functors[l]) \in Seq(Functors) /\ Head(functors[l]) \in Functors
      /\ Head(functors[l]) \in ToSet(functors[l])
      /\ ToSet(Tail(functors[l])) \subseteq ToSet(functors[l])
      /\ \A y \in ToSet(functors[l]) : y = Head(functors[l]) \/ y \in ToSet(Tail(functors[l]))
      /\ Distinct(Tail(functors[l])) /\ Head(functors[l]) \notin ToSet(Tail(functors[l]))
  BY <1>1, TailDistinct
<1>4. /\ Ordered(Tail(functors[l]))
      /\ Head(functors[l])[1] = "destroyed"
           => <<"established", Head(functors[l])[2]>> \notin ToSet(functors[l])
  BY <1>1, TailOrdered
<1>5. q \in [Loops -> Seq(Functors)]
  BY <1>3 DEF Tidy
<1>6. Tidy(q)
  BY <1>2, <1>3, <1>4, <1>5 DEF Tidy
<1> QED BY <1>2, <1>3, <1>4, <1>6 DEF Popped

\* A functor is queued that is not in the queue yet (EventLoop::queueInLoop).
LEMMA Push ==
    ASSUME NEW functors, Tidy(functors), NEW l \in Loops, NEW f \in Functors,
           f \notin ToSet(functors[l]),
           f[1] = "established" => <<"destroyed", f[2]>> \notin ToSet(functors[l]),
           NEW q, q = [functors EXCEPT ![l] = Append(@, f)]
    PROVE  Pushed(functors, q, l, f)
<1>1. functors[l] \in Seq(Functors) /\ Distinct(functors[l]) /\ Ordered(functors[l])
  BY DEF Tidy
<1>2. q[l] = Append(functors[l], f) /\ \A k \in Loops : k # l => q[k] = functors[k]
  BY DEF Tidy
<1>3. /\ Append(functors[l], f) \in Seq(Functors) /\ Distinct(Append(functors[l], f))
      /\ ToSet(Append(functors[l], f)) = ToSet(functors[l]) \cup {f}
  BY <1>1, AppendDistinct
<1>4. Ordered(Append(functors[l], f))
  BY <1>1, AppendOrdered
<1>5. q \in [Loops -> Seq(Functors)]
  BY <1>3 DEF Tidy
<1>6. Tidy(q)
  BY <1>2, <1>3, <1>4, <1>5 DEF Tidy
<1> QED BY <1>2, <1>3, <1>6 DEF Pushed

-----------------------------------------------------------------------------
(***************************************************************************)
(* What the steps do to the connections.                                   *)
(***************************************************************************)
\* The connections whose sockets are open.
OpenOf(phase, functors) ==
    {c \in Conns : \/ phase[c] \in {"new", "up", "down"}
                   \/ \E l \in Loops : \E f \in ToSet(functors[l]) : f[2] = c}

Typed(phase, loop, map, functors) ==
    /\ phase \in [Conns -> Phases] /\ loop \in [Conns -> Loops] /\ map \in SUBSET Conns
    /\ functors \in [Loops -> Seq(Functors)]

State(phase, loop, map, functors, destroyed) ==
    Typed(phase, loop, map, functors) /\ ConnsOK(phase, loop, map, functors, destroyed)

\* The queues are tidy, and what they hold.
LEMMA TidyQueues ==
    ASSUME NEW phase, NEW loop, NEW map, NEW functors, NEW destroyed,
           Typed(phase, loop, map, functors)
    PROVE  QueuesOK(phase, loop, map, functors, destroyed)
             <=> /\ Tidy(functors)
                 /\ \A l \in Loops : \A f \in ToSet(functors[l]) :
                      FunctorOK(phase, loop, map, destroyed, l, f)
BY DEF QueuesOK, Tidy, Typed

\* The elements of a queue are functors.
LEMMA InQueue ==
    ASSUME NEW functors \in [Loops -> Seq(Functors)], NEW l \in Loops, NEW f \in ToSet(functors[l])
    PROVE  f \in Functors /\ f[2] \in Conns /\ f = <<f[1], f[2]>>
           /\ f[1] \in {"established", "remove", "destroyed"}
<1>1. functors[l] \in Seq(Functors)
  OBVIOUS
<1>2. f \in Functors
  BY <1>1 DEF ToSet
<1> QED BY <1>2, Pairs

\* Which connections are open, and how to bound them.
LEMMA OpenIs ==
    ASSUME NEW phase, NEW functors \in [Loops -> Seq(Functors)]
    PROVE  /\ \A c \in Conns : phase[c] \in {"new", "up", "down"} => c \in OpenOf(phase, functors)
           /\ \A l \in Loops : \A f \in ToSet(functors[l]) : f[2] \in OpenOf(phase, functors)
BY InQueue DEF OpenOf

\* A set that holds the connections in use and those of the functors holds the open ones.
LEMMA OpenWithin ==
    ASSUME NEW p, NEW q, NEW O,
           \A c \in Conns : p[c] \in {"new", "up", "down"} => c \in O,
           \A l \in Loops : \A f \in ToSet(q[l]) : f[2] \in O
    PROVE  OpenOf(p, q) \subseteq O
BY DEF OpenOf

\* From one state to the next, only what is known of the connection c changes.
OnlyOf(c, phase, loop, map, functors, p, lp, m, q) ==
    /\ \A d \in Conns : d # c => p[d] = phase[d] /\ lp[d] = loop[d] /\ (d \in m <=> d \in map)
    /\ \A k \in Loops : \A f \in ToSet(functors[k]) : f[2] # c => f \in ToSet(q[k])
    /\ \A k \in Loops : \A f \in ToSet(q[k]) : f[2] # c => f \in ToSet(functors[k])

\* What ConnsOK says of the connection c.
ConnOK(c, p, lp, m, q, destroyed) ==
    /\ \A k \in Loops : \A f \in ToSet(q[k]) : f[2] = c => FunctorOK(p, lp, m, destroyed, k, f)
    /\ c \in m => \/ p[c] \in {"new", "up"}
                  \/ p[c] = "down" /\ <<"remove", c>> \in ToSet(q[BaseLoop])
    /\ c \notin m => \/ p[c] \in {"none", "backlog", "refused", "gone"}
                     \/ /\ <<"destroyed", c>> \in ToSet(q[lp[c]])
                        /\ p[c] \in {"new", "up"} => destroyed

\* A step that concerns one connection only: the others stay accounted for, and at most that
\* one is opened.
LEMMA OneConnection ==
    ASSUME NEW phase, NEW loop, NEW map, NEW functors, NEW destroyed,
           State(phase, loop, map, functors, destroyed),
           NEW c \in Conns, NEW p, NEW lp, NEW m, NEW q,
           Typed(p, lp, m, q), Tidy(q),
           OnlyOf(c, phase, loop, map, functors, p, lp, m, q),
           ConnOK(c, p, lp, m, q, destroyed)
    PROVE  /\ State(p, lp, m, q, destroyed)
           /\ OpenOf(p, q) \subseteq OpenOf(phase, functors) \cup {c}
<1>1. Typed(phase, loop, map, functors) /\ ConnsOK(phase, loop, map, functors, destroyed)
  BY DEF State
<1>2. ASSUME NEW k \in Loops, NEW f \in ToSet(q[k]) PROVE FunctorOK(p, lp, m, destroyed, k, f)
  <2>1. f[2] \in Conns
    BY InQueue DEF Tidy
  <2>2. CASE f[2] = c
    BY <2>2 DEF ConnOK
  <2>3. CASE f[2] # c
    <3>1. FunctorOK(phase, loop, map, destroyed, k, f)
      BY <1>1, <2>3 DEF OnlyOf, ConnsOK, QueuesOK
    <3>2. p[f[2]] = phase[f[2]] /\ lp[f[2]] = loop[f[2]] /\ (f[2] \in m <=> f[2] \in map)
      BY <2>1, <2>3 DEF OnlyOf
    <3> QED BY <3>1, <3>2 DEF FunctorOK
  <2> QED BY <2>2, <2>3
<1>3. QueuesOK(p, lp, m, q, destroyed)
  BY <1>2, TidyQueues
<1>4. MapOK(p, m, q)
  <2> SUFFICES ASSUME NEW d \in m, p[d] \notin {"new", "up"}
               PROVE  p[d] = "down" /\ <<"remove", d>> \in ToSet(q[BaseLoop])
    BY DEF MapOK
  <2>1. CASE d = c
    BY <2>1 DEF ConnOK
  <2>2. CASE d # c
    <3>0. d \in Conns /\ BaseLoop \in Loops
      BY DEF Typed, Loops
    <3>1. d \in map /\ p[d] = phase[d]
      BY <2>2, <3>0 DEF OnlyOf
    <3>2. phase[d] = "down" /\ <<"remove", d>> \in ToSet(functors[BaseLoop])
      BY <1>1, <3>0, <3>1 DEF ConnsOK, MapOK
    <3>3. <<"remove", d>>[2] # c
      BY <2>2
    <3> QED BY <3>0, <3>1, <3>2, <3>3 DEF OnlyOf
  <2> QED BY <2>1, <2>2
<1>5. RestOK(p, lp, m, q, destroyed)
  <2> SUFFICES ASSUME NEW d \in Conns \ m, p[d] \notin {"none", "backlog", "refused", "gone"}
               PROVE  /\ <<"destroyed", d>> \in ToSet(q[lp[d]])
                      /\ p[d] \in {"new", "up"} => destroyed
    BY DEF RestOK
  <2>1. CASE d = c
    BY <2>1 DEF ConnOK
  <2>2. CASE d # c
    <3>1. d \notin map /\ p[d] = phase[d] /\ lp[d] = loop[d] /\ loop[d] \in Loops
      BY <1>1, <2>2 DEF OnlyOf, Typed
    <3>2. /\ <<"destroyed", d>> \in ToSet(functors[loop[d]])
          /\ phase[d] \in {"new", "up"} => destroyed
      BY <1>1, <3>1 DEF ConnsOK, RestOK
    <3>3. <<"destroyed", d>>[2] # c
      BY <2>2
    <3> QED BY <3>1, <3>2, <3>3 DEF OnlyOf
  <2> QED BY <2>1, <2>2
<1>6. OpenOf(p, q) \subseteq OpenOf(phase, functors) \cup {c}
  <2>1. functors \in [Loops -> Seq(Functors)]
    BY <1>1 DEF Typed
  <2>2. ASSUME NEW d \in Conns, p[d] \in {"new", "up", "down"}
        PROVE  d \in OpenOf(phase, functors) \cup {c}
    BY <2>1, <2>2, OpenIs DEF OnlyOf
  <2>3. ASSUME NEW k \in Loops, NEW f \in ToSet(q[k])
        PROVE  f[2] \in OpenOf(phase, functors) \cup {c}
    BY <2>1, OpenIs DEF OnlyOf
  <2> QED BY <2>2, <2>3, OpenWithin
<1> QED BY <1>3, <1>4, <1>5, <1>6 DEF State, ConnsOK

\* The loop l takes the functor f from the front of its queue, and q is left.
Runs(functors, l, f, q) ==
    /\ l \in Loops /\ functors[l] # <<>> /\ f = Head(functors[l])
    /\ q = [functors EXCEPT ![l] = Tail(@)]

\* p is phase but for the connection c, which is in the phase x.
SetPhase(phase, c, x, p) == p = [phase EXCEPT ![c] = x]

\* What is known when a loop runs a functor.
LEMMA AboutToRun ==
    ASSUME NEW phase, NEW loop, NEW map, NEW functors, NEW destroyed,
           State(phase, loop, map, functors, destroyed),
           NEW l, NEW f, NEW q, Runs(functors, l, f, q)
    PROVE  /\ l \in Loops /\ f \in Functors /\ f = <<f[1], f[2]>> /\ f[2] \in Conns
           /\ Popped(functors, q, l, f) /\ Tidy(q)
           /\ FunctorOK(phase, loop, map, destroyed, l, f)
           /\ f[2] \in OpenOf(phase, functors)
           /\ phase[f[2]] \in {"new", "up", "down", "gone"}
<1>1. Tidy(functors) /\ \A k \in Loops : \A g \in ToSet(functors[k]) :
                          FunctorOK(phase, loop, map, destroyed, k, g)
  BY TidyQueues DEF State, ConnsOK
<1>2. l \in Loops /\ Popped(functors, q, l, f)
  BY <1>1, Pop DEF Runs
<1>3. f \in Functors /\ f \in ToSet(functors[l]) /\ Tidy(q)
  BY <1>2 DEF Popped
<1>4. f = <<f[1], f[2]>> /\ f[2] \in Conns /\ f[1] \in {"established", "remove", "destroyed"}
  BY <1>3, Pairs
<1>5. FunctorOK(phase, loop, map, destroyed, l, f)
  BY <1>1, <1>2, <1>3
<1>6. f[2] \in OpenOf(phase, functors)
  BY <1>2, <1>3, OpenIs DEF State, Typed
<1>7. phase[f[2]] \in {"new", "up", "down", "gone"}
  BY <1>4, <1>5 DEF FunctorOK
<1> QED BY <1>2, <1>3, <1>4, <1>5, <1>6, <1>7

\* What a step that only sets the phase of c and takes a functor of c leaves alone.
LEMMA PoppedOthers ==
    ASSUME NEW phase, NEW loop, NEW map, NEW functors, NEW destroyed,
           State(phase, loop, map, functors, destroyed),
           NEW l, NEW f, NEW q, Popped(functors, q, l, f), f[2] \in Conns,
           NEW x \in Phases, NEW p, SetPhase(phase, f[2], x, p)
    PROVE  /\ OnlyOf(f[2], phase, loop, map, functors, p, loop, map, q)
           /\ Typed(p, loop, map, q)
           /\ p[f[2]] = x
<1>1. \A k \in Loops : \A g \in ToSet(functors[k]) : g[2] # f[2] => g \in ToSet(q[k])
  BY DEF Popped
<1>2. \A k \in Loops : \A g \in ToSet(q[k]) : g \in ToSet(functors[k])
  BY DEF Popped
<1>3. p \in [Conns -> Phases] /\ p[f[2]] = x /\ \A d \in Conns : d # f[2] => p[d] = phase[d]
  BY DEF State, Typed, SetPhase
<1>4. Typed(p, loop, map, q)
  BY <1>3 DEF State, Typed, Popped, Tidy
<1> QED BY <1>1, <1>2, <1>3, <1>4 DEF OnlyOf

\* connectEstablished runs (TcpServer.cc 96): it had not run, and nothing was to close.
LEMMA EstablishedRuns ==
    ASSUME NEW phase, NEW loop, NEW map, NEW functors, NEW destroyed,
           State(phase, loop, map, functors, destroyed),
           NEW l, NEW f, NEW q, Runs(functors, l, f, q), f[1] = "established",
           NEW p, SetPhase(phase, f[2], "up", p)
    PROVE  /\ State(p, loop, map, q, destroyed)
           /\ OpenOf(p, q) \subseteq OpenOf(phase, functors)
<1> DEFINE c == f[2]
<1>1. /\ l \in Loops /\ f = <<f[1], c>> /\ c \in Conns
      /\ Popped(functors, q, l, f) /\ Tidy(q)
      /\ FunctorOK(phase, loop, map, destroyed, l, f)
      /\ c \in OpenOf(phase, functors)
  BY AboutToRun
<1>2. loop[c] = l /\ phase[c] = "new"
  BY <1>1 DEF FunctorOK
<1>3. /\ OnlyOf(c, phase, loop, map, functors, p, loop, map, q)
      /\ Typed(p, loop, map, q) /\ p[c] = "up"
  <2>1. "up" \in Phases
    BY DEF Phases
  <2> QED BY <1>1, <2>1, PoppedOthers
<1>4. ConnOK(c, p, loop, map, q, destroyed)
  <2>1. ASSUME NEW k \in Loops, NEW g \in ToSet(q[k]), g[2] = c
        PROVE  FunctorOK(p, loop, map, destroyed, k, g)
    <3>1. g \in ToSet(functors[k])
      BY <1>1 DEF Popped
    <3>2. FunctorOK(phase, loop, map, destroyed, k, g)
      BY <3>1 DEF State, ConnsOK, QueuesOK
    <3>3. g = <<g[1], c>>
      BY <1>1, <2>1, InQueue DEF Tidy
    <3>4. ASSUME g[1] = "established" PROVE FALSE
      <4>1. g = f /\ k = l
        BY <1>1, <1>2, <2>1, <3>2, <3>3, <3>4 DEF FunctorOK
      <4> QED BY <1>1, <4>1 DEF Popped
    <3> QED BY <1>2, <1>3, <2>1, <3>2, <3>4 DEF FunctorOK
  <2>2. c \notin map => <<"destroyed", c>> \in ToSet(functors[loop[c]]) /\ destroyed
    BY <1>1, <1>2 DEF State, ConnsOK, RestOK
  <2>3. <<"destroyed", c>> # f
    BY <1>1
  <2>4. c \notin map => <<"destroyed", c>> \in ToSet(q[loop[c]]) /\ destroyed
    BY <1>1, <1>2, <2>2, <2>3 DEF Popped
  <2> QED BY <1>3, <2>1, <2>4 DEF ConnOK
<1> HIDE DEF c
<1>5. /\ State(p, loop, map, q, destroyed)
      /\ OpenOf(p, q) \subseteq OpenOf(phase, functors) \cup {c}
  BY <1>1, <1>3, <1>4, OneConnection
<1> QED BY <1>1, <1>5

\* connectDestroyed runs (TcpServer.cc 111): the connection is gone, and stays so, since it was
\* established before.
LEMMA DestroyedRuns ==
    ASSUME NEW phase, NEW loop, NEW map, NEW functors, NEW destroyed,
           State(phase, loop, map, functors, destroyed),
           NEW l, NEW f, NEW q, Runs(functors, l, f, q), f[1] = "destroyed",
           NEW p, SetPhase(phase, f[2], "gone", p)
    PROVE  /\ State(p, loop, map, q, destroyed)
           /\ OpenOf(p, q) \subseteq OpenOf(phase, functors)
<1> DEFINE c == f[2]
<1>1. /\ l \in Loops /\ f = <<f[1], c>> /\ c \in Conns
      /\ Popped(functors, q, l, f) /\ Tidy(q)
      /\ FunctorOK(phase, loop, map, destroyed, l, f)
      /\ c \in OpenOf(phase, functors)
  BY AboutToRun
<1>2. loop[c] = l /\ c \notin map
  BY <1>1 DEF FunctorOK
<1>3. /\ OnlyOf(c, phase, loop, map, functors, p, loop, map, q)
      /\ Typed(p, loop, map, q) /\ p[c] = "gone"
  <2>1. "gone" \in Phases
    BY DEF Phases
  <2> QED BY <1>1, <2>1, PoppedOthers
<1>4. ConnOK(c, p, loop, map, q, destroyed)
  <2>1. ASSUME NEW k \in Loops, NEW g \in ToSet(q[k]), g[2] = c
        PROVE  FunctorOK(p, loop, map, destroyed, k, g)
    <3>1. g \in ToSet(functors[k])
      BY <1>1 DEF Popped
    <3>2. FunctorOK(phase, loop, map, destroyed, k, g)
      BY <3>1 DEF State, ConnsOK, QueuesOK
    <3>3. g = <<g[1], c>> /\ g[1] \in {"established", "remove", "destroyed"}
      BY <1>1, <2>1, InQueue DEF Tidy
    <3>4. f \notin ToSet(q[l]) /\ <<"established", c>> \notin ToSet(q[l])
      BY <1>1 DEF Popped
    <3>5. ASSUME g[1] # "remove" PROVE FALSE
      <4>1. k = l
        BY <1>2, <2>1, <3>2, <3>3, <3>5 DEF FunctorOK
      <4>2. g = f \/ g = <<"established", c>>
        BY <1>1, <3>3, <3>5
      <4> QED BY <3>4, <4>1, <4>2
    <3> QED BY <1>3, <2>1, <3>2, <3>5 DEF FunctorOK
  <2> QED BY <1>2, <1>3, <2>1 DEF ConnOK
<1> HIDE DEF c
<1>5. /\ State(p, loop, map, q, destroyed)
      /\ OpenOf(p, q) \subseteq OpenOf(phase, functors) \cup {c}
  BY <1>1, <1>3, <1>4, OneConnection
<1> QED BY <1>1, <1>5

\* The functor f is put into the queue of the loop l.
Queues(functors, l, f, q) == q = [functors EXCEPT ![l] = Append(@, f)]
Destroys(functors, l, c, q) == Queues(functors, l, <<"destroyed", c>>, q)

\* r is functors, but for functors of the connection c, and has no removal of it.
Less(functors, r, c) ==
    /\ Tidy(r) /\ \A k \in Loops : ToSet(r[k]) \subseteq ToSet(functors[k])
    /\ \A k \in Loops : \A f \in ToSet(functors[k]) : f \in ToSet(r[k]) \/ f[2] = c
    /\ \A k \in Loops : \A f \in ToSet(r[k]) : ~(f[1] = "remove" /\ f[2] = c)

\* What SetPhase leaves of the phases.
LEMMA PhaseSet ==
    ASSUME NEW phase \in [Conns -> Phases], NEW c \in Conns, NEW x \in Phases, NEW p,
           SetPhase(phase, c, x, p)
    PROVE  p \in [Conns -> Phases] /\ p[c] = x /\ \A d \in Conns : d # c => p[d] = phase[d]
BY DEF SetPhase

\* removeConnectionInLoop of the connection c, which is in the map and goes, or went, down.
Removes(c, phase, loop, map, functors, p, m, q) ==
    /\ c \in map /\ phase[c] \in {"up", "down"} /\ SetPhase(phase, c, "down", p)
    /\ m = map \ {c}
    /\ \E r : Less(functors, r, c) /\ Destroys(r, loop[c], c, q)

\* removeConnectionInLoop (TcpServer.cc 104-112): connectDestroyed was not queued before.
LEMMA Removed ==
    ASSUME NEW phase, NEW loop, NEW map, NEW functors, NEW destroyed,
           State(phase, loop, map, functors, destroyed),
           NEW c \in Conns, NEW p, NEW m, NEW q,
           Removes(c, phase, loop, map, functors, p, m, q)
    PROVE  /\ State(p, loop, m, q, destroyed)
           /\ OpenOf(p, q) \subseteq OpenOf(phase, functors)
<1> DEFINE f == <<"destroyed", c>>
<1>0. PICK r : Less(functors, r, c) /\ Destroys(r, loop[c], c, q)
  BY DEF Removes
<1>1. /\ c \in Conns /\ loop[c] \in Loops /\ loop \in [Conns -> Loops] /\ m \in SUBSET Conns
      /\ functors \in [Loops -> Seq(Functors)] /\ phase \in [Conns -> Phases]
  BY DEF State, Typed, Removes
<1>2. \A k \in Loops : \A g \in ToSet(functors[k]) : FunctorOK(phase, loop, map, destroyed, k, g)
  BY DEF State, ConnsOK, QueuesOK
<1>3. p \in [Conns -> Phases] /\ p[c] = "down" /\ \A d \in Conns : d # c => p[d] = phase[d]
  <2>1. "down" \in Phases
    BY DEF Phases
  <2>3. SetPhase(phase, c, "down", p)
    BY DEF Removes
  <2>2. phase \in [Conns -> Phases] /\ c \in Conns
    BY <1>1
  <2> QED BY ONLY <2>1, <2>2, <2>3 DEF SetPhase
<1>4. f \in Functors /\ f[1] = "destroyed" /\ f[2] = c
  BY <1>1, Pairs
<1> HIDE DEF f
<1>5. \A k \in Loops : f \notin ToSet(functors[k])
  BY <1>2, <1>4 DEF FunctorOK, Removes
<1>6. Pushed(r, q, loop[c], f)
  <2>1. f \notin ToSet(r[loop[c]]) /\ Tidy(r)
    BY <1>0, <1>1, <1>5 DEF Less
  <2>2. q = [r EXCEPT ![loop[c]] = Append(@, f)]
    BY <1>0 DEF Destroys, Queues, f
  <2> QED BY <1>1, <1>4, <2>1, <2>2, Push
<1>7. \A k \in Loops : \A g : g \in ToSet(q[k]) <=> g \in ToSet(r[k]) \/ (k = loop[c] /\ g = f)
  BY <1>6 DEF Pushed
<1>8. OnlyOf(c, phase, loop, map, functors, p, loop, m, q)
  <2>1. \A k \in Loops : \A g \in ToSet(functors[k]) : g[2] # c => g \in ToSet(q[k])
    BY <1>0, <1>7 DEF Less
  <2>2. \A k \in Loops : \A g \in ToSet(q[k]) : g[2] # c => g \in ToSet(functors[k])
    BY <1>0, <1>4, <1>7 DEF Less
  <2> QED BY <1>3, <2>1, <2>2 DEF OnlyOf, Removes
<1>9. ConnOK(c, p, loop, m, q, destroyed)
  <2>1. ASSUME NEW k \in Loops, NEW g \in ToSet(q[k]), g[2] = c
        PROVE  FunctorOK(p, loop, m, destroyed, k, g)
    <3>1. CASE g = f /\ k = loop[c]
      BY <1>3, <1>4, <3>1 DEF FunctorOK, Removes
    <3>2. CASE ~(g = f /\ k = loop[c])
      <4>1. g \in ToSet(functors[k])
        BY <1>0, <1>7, <3>2 DEF Less
      <4>2. FunctorOK(phase, loop, map, destroyed, k, g)
        BY <1>2, <4>1
      <4>3. ~(g[1] = "established") /\ c \in map /\ ~(g[1] = "remove")
        BY <1>0, <1>7, <2>1, <3>2, <4>2 DEF FunctorOK, Removes, Less
      <4> QED BY <1>3, <2>1, <4>2, <4>3 DEF FunctorOK
    <3> QED BY <3>1, <3>2
  <2>2. <<"destroyed", c>> \in ToSet(q[loop[c]]) /\ c \notin m
    BY <1>1, <1>7 DEF f, Removes
  <2> QED BY <1>3, <2>1, <2>2 DEF ConnOK
<1>10. Tidy(q) /\ Typed(p, loop, m, q)
  BY <1>1, <1>3, <1>6 DEF Pushed, Typed, Tidy
<1>11. c \in OpenOf(phase, functors)
  BY <1>1, OpenIs DEF Removes
<1>12. /\ State(p, loop, m, q, destroyed)
       /\ OpenOf(p, q) \subseteq OpenOf(phase, functors) \cup {c}
  BY <1>1, <1>8, <1>9, <1>10, OneConnection
<1> QED BY <1>11, <1>12

\* handleClose in an I/O loop (TcpServer.cc 99-102): removeConnectionInLoop is queued, and was not.
LEMMA Closed ==
    ASSUME NEW phase, NEW loop, NEW map, NEW functors, NEW destroyed,
           State(phase, loop, map, functors, destroyed),
           NEW c \in Conns, phase[c] = "up",
           NEW p, SetPhase(phase, c, "down", p),
           NEW q, Queues(functors, BaseLoop, <<"remove", c>>, q)
    PROVE  /\ State(p, loop, map, q, destroyed)
           /\ OpenOf(p, q) \subseteq OpenOf(phase, functors)
<1> DEFINE f == <<"remove", c>>
<1>1. /\ loop[c] \in Loops /\ loop \in [Conns -> Loops] /\ map \in SUBSET Conns
      /\ functors \in [Loops -> Seq(Functors)] /\ phase \in [Conns -> Phases]
      /\ BaseLoop \in Loops
  BY DEF State, Typed, Loops
<1>2. /\ \A k \in Loops : \A g \in ToSet(functors[k]) : FunctorOK(phase, loop, map, destroyed, k, g)
      /\ Tidy(functors)
  BY <1>1 DEF State, ConnsOK, QueuesOK, Tidy
<1>3. p \in [Conns -> Phases] /\ p[c] = "down" /\ \A d \in Conns : d # c => p[d] = phase[d]
  <2>1. "down" \in Phases
    BY DEF Phases
  <2> QED BY <1>1, <2>1, PhaseSet
<1>4. f \in Functors /\ f[1] = "remove" /\ f[2] = c
  BY Pairs
<1> HIDE DEF f
<1>5. f \notin ToSet(functors[BaseLoop])
  BY <1>1, <1>2, <1>4 DEF FunctorOK
<1>6. Pushed(functors, q, BaseLoop, f)
  <2>1. q = [functors EXCEPT ![BaseLoop] = Append(@, f)]
    BY DEF Queues, f
  <2> QED BY <1>1, <1>2, <1>4, <1>5, <2>1, Push
<1>7. \A k \in Loops : \A g :
        g \in ToSet(q[k]) <=> g \in ToSet(functors[k]) \/ (k = BaseLoop /\ g = f)
  BY <1>6 DEF Pushed
<1>8. OnlyOf(c, phase, loop, map, functors, p, loop, map, q)
  BY <1>3, <1>4, <1>7 DEF OnlyOf
<1>9. ConnOK(c, p, loop, map, q, destroyed)
  <2>1. ASSUME NEW k \in Loops, NEW g \in ToSet(q[k]), g[2] = c
        PROVE  FunctorOK(p, loop, map, destroyed, k, g)
    <3>1. CASE g = f /\ k = BaseLoop
      <4>1. c \in map \/ destroyed
        BY DEF State, ConnsOK, RestOK
      <4> QED BY <1>3, <1>4, <3>1, <4>1 DEF FunctorOK
    <3>2. CASE ~(g = f /\ k = BaseLoop)
      <4>1. FunctorOK(phase, loop, map, destroyed, k, g)
        BY <1>2, <1>7, <3>2
      <4> QED BY <1>3, <2>1, <4>1 DEF FunctorOK
    <3> QED BY <3>1, <3>2
  <2>2. <<"remove", c>> \in ToSet(q[BaseLoop])
    BY <1>1, <1>7 DEF f
  <2>3. c \notin map => <<"destroyed", c>> \in ToSet(functors[loop[c]])
    BY DEF State, ConnsOK, RestOK
  <2>4. c \notin map => <<"destroyed", c>> \in ToSet(q[loop[c]])
    BY <1>1, <1>7, <2>3
  <2> QED BY <1>3, <2>1, <2>2, <2>4 DEF ConnOK
<1>10. Tidy(q) /\ Typed(p, loop, map, q)
  BY <1>1, <1>3, <1>6 DEF Pushed, Typed, Tidy
<1>11. c \in OpenOf(phase, functors)
  BY <1>1, OpenIs
<1>12. /\ State(p, loop, map, q, destroyed)
       /\ OpenOf(p, q) \subseteq OpenOf(phase, functors) \cup {c}
  BY <1>8, <1>9, <1>10, OneConnection
<1> QED BY <1>11, <1>12

\* A connection that the server has not seen: neither connections_ nor a functor refers to it.
LEMMA NotSeen ==
    ASSUME NEW phase, NEW loop, NEW map, NEW functors, NEW destroyed,
           State(phase, loop, map, functors, destroyed),
           NEW c \in Conns, phase[c] \in {"none", "backlog"}
    PROVE  c \notin map /\ \A k \in Loops : \A g \in ToSet(functors[k]) : g[2] # c
<1>1. c \notin map
  BY DEF State, ConnsOK, MapOK
<1>2. ASSUME NEW k \in Loops, NEW g \in ToSet(functors[k]) PROVE g[2] # c
  <2>1. FunctorOK(phase, loop, map, destroyed, k, g)
    BY DEF State, ConnsOK, QueuesOK
  <2>2. g[1] \in {"established", "remove", "destroyed"}
    BY InQueue DEF State, Typed
  <2> QED BY <2>1, <2>2 DEF FunctorOK
<1> QED BY <1>1, <1>2

\* A client connects, or handleRead refuses a connection (Acceptor.cc 62): nothing is opened.
LEMMA PhaseOnly ==
    ASSUME NEW phase, NEW loop, NEW map, NEW functors, NEW destroyed,
           State(phase, loop, map, functors, destroyed),
           NEW c \in Conns, phase[c] \in {"none", "backlog"},
           NEW x \in {"backlog", "refused"}, NEW p, SetPhase(phase, c, x, p)
    PROVE  /\ State(p, loop, map, functors, destroyed)
           /\ OpenOf(p, functors) \subseteq OpenOf(phase, functors)
<1>1. c \notin map /\ \A k \in Loops : \A g \in ToSet(functors[k]) : g[2] # c
  BY NotSeen
<1>2. p \in [Conns -> Phases] /\ p[c] = x /\ \A d \in Conns : d # c => p[d] = phase[d]
  <2>1. x \in Phases /\ phase \in [Conns -> Phases]
    BY DEF Phases, State, Typed
  <2> QED BY <2>1 DEF SetPhase
<1>3. Typed(p, loop, map, functors) /\ functors \in [Loops -> Seq(Functors)]
  BY <1>2 DEF State, Typed
<1>4. Tidy(functors)
  BY TidyQueues DEF State, ConnsOK
<1>5. OnlyOf(c, phase, loop, map, functors, p, loop, map, functors)
  BY <1>2 DEF OnlyOf
<1>6. ConnOK(c, p, loop, map, functors, destroyed)
  BY <1>1, <1>2 DEF ConnOK
<1>7. State(p, loop, map, functors, destroyed)
  BY <1>3, <1>4, <1>5, <1>6, OneConnection
<1>8. OpenOf(p, functors) \subseteq OpenOf(phase, functors)
  <2>1. \A d \in Conns : p[d] \in {"new", "up", "down"} => d \in OpenOf(phase, functors)
    BY <1>2, <1>3, OpenIs
  <2>2. \A k \in Loops : \A g \in ToSet(functors[k]) : g[2] \in OpenOf(phase, functors)
    BY <1>3, OpenIs
  <2> QED BY <2>1, <2>2, OpenWithin
<1> QED BY <1>7, <1>8

\* lp is loop but for the connection c, which is given to the loop l.
SetLoop(loop, c, l, lp) == lp = [loop EXCEPT ![c] = l]

\* newConnection (TcpServer.cc 74-97) without a pool: connectEstablished is called at once.
LEMMA AcceptedHere ==
    ASSUME NEW phase, NEW loop, NEW map, NEW functors, NEW destroyed,
           State(phase, loop, map, functors, destroyed),
           NEW c \in Conns, phase[c] = "backlog",
           NEW p, SetPhase(phase, c, "up", p), NEW lp, SetLoop(loop, c, BaseLoop, lp)
    PROVE  /\ State(p, lp, map \cup {c}, functors, destroyed)
           /\ OpenOf(p, functors) \subseteq OpenOf(phase, functors) \cup {c}
<1> DEFINE m == map \cup {c}
<1>1. c \notin map /\ \A k \in Loops : \A g \in ToSet(functors[k]) : g[2] # c
  BY NotSeen
<1>2. p \in [Conns -> Phases] /\ p[c] = "up" /\ \A d \in Conns : d # c => p[d] = phase[d]
  BY DEF SetPhase, State, Typed, Phases
<1>3. lp \in [Conns -> Loops] /\ \A d \in Conns : d # c => lp[d] = loop[d]
  BY DEF SetLoop, State, Typed, Loops
<1>4. Typed(p, lp, m, functors)
  BY <1>2, <1>3 DEF State, Typed
<1>5. Tidy(functors)
  BY TidyQueues DEF State, ConnsOK
<1>6. OnlyOf(c, phase, loop, map, functors, p, lp, m, functors)
  BY <1>2, <1>3 DEF OnlyOf
<1>7. ConnOK(c, p, lp, m, functors, destroyed)
  BY <1>1, <1>2 DEF ConnOK
<1> HIDE DEF m
<1>8. /\ State(p, lp, m, functors, destroyed)
      /\ OpenOf(p, functors) \subseteq OpenOf(phase, functors) \cup {c}
  BY <1>4, <1>5, <1>6, <1>7, OneConnection
<1> QED BY <1>8 DEF m

\* newConnection with a pool: connectEstablished is queued in the loop of the connection.
LEMMA AcceptedThere ==
    ASSUME NEW phase, NEW loop, NEW map, NEW functors, NEW destroyed,
           State(phase, loop, map, functors, destroyed),
           NEW c \in Conns, phase[c] = "backlog", NEW l \in Loops, l # BaseLoop,
           NEW p, SetPhase(phase, c, "new", p), NEW lp, SetLoop(loop, c, l, lp),
           NEW f, f = <<"established", c>>, NEW q, Queues(functors, l, f, q)
    PROVE  /\ State(p, lp, map \cup {c}, q, destroyed)
           /\ OpenOf(p, q) \subseteq OpenOf(phase, functors) \cup {c}
<1> DEFINE m == map \cup {c}
<1>1. c \notin map /\ \A k \in Loops : \A g \in ToSet(functors[k]) : g[2] # c
  BY NotSeen
<1>2. p \in [Conns -> Phases] /\ p[c] = "new" /\ \A d \in Conns : d # c => p[d] = phase[d]
  <2>1. phase \in [Conns -> Phases] /\ "new" \in Phases
    BY DEF State, Typed, Phases
  <2> QED BY ONLY <2>1, c \in Conns, SetPhase(phase, c, "new", p) DEF SetPhase
<1>3. lp \in [Conns -> Loops] /\ lp[c] = l /\ \A d \in Conns : d # c => lp[d] = loop[d]
  <2>1. loop \in [Conns -> Loops]
    BY DEF State, Typed
  <2> QED BY ONLY <2>1, c \in Conns, l \in Loops, SetLoop(loop, c, l, lp) DEF SetLoop
<1>4. f \in Functors /\ f[1] = "established" /\ f[2] = c /\ <<"destroyed", c>>[2] = c
  BY Pairs
<1>5. Pushed(functors, q, l, f)
  <2>1. q = [functors EXCEPT ![l] = Append(@, f)]
    BY DEF Queues
  <2>2. Tidy(functors)
    BY TidyQueues DEF State, ConnsOK
  <2>3. f \notin ToSet(functors[l]) /\ <<"destroyed", f[2]>> \notin ToSet(functors[l])
    BY <1>1, <1>4
  <2> QED BY ONLY <1>4, <2>1, <2>2, <2>3, l \in Loops, Push
<1>6. \A k \in Loops : \A g : g \in ToSet(q[k]) <=> g \in ToSet(functors[k]) \/ (k = l /\ g = f)
  BY <1>5 DEF Pushed
<1>7. Tidy(q) /\ Typed(p, lp, m, q)
  <2>1. map \in SUBSET Conns /\ Tidy(q)
    BY <1>5 DEF State, Typed, Pushed
  <2> QED BY <1>2, <1>3, <2>1 DEF Typed, Tidy
<1>8. OnlyOf(c, phase, loop, map, functors, p, lp, m, q)
  BY <1>2, <1>3, <1>4, <1>6 DEF OnlyOf
<1>9. ConnOK(c, p, lp, m, q, destroyed)
  <2>1. ASSUME NEW k \in Loops, NEW g \in ToSet(q[k]), g[2] = c
        PROVE  FunctorOK(p, lp, m, destroyed, k, g)
    <3>1. g = f /\ k = l
      BY <1>1, <1>6, <2>1
    <3> QED BY <1>2, <1>3, <1>4, <3>1 DEF FunctorOK
  <2> QED BY <1>2, <2>1 DEF ConnOK
<1> HIDE DEF m
<1>10. /\ State(p, lp, m, q, destroyed)
       /\ OpenOf(p, q) \subseteq OpenOf(phase, functors) \cup {c}
  BY <1>7, <1>8, <1>9, OneConnection
<1> QED BY <1>10 DEF m

\* SetToSeq puts every element of a finite set into the sequence, once.
LEMMA SetToSeqIs ==
    ASSUME NEW S, IsFiniteSet(S)
    PROVE  SetToSeq(S) \in Seq(S) /\ Distinct(SetToSeq(S)) /\ ToSet(SetToSeq(S)) = S
<1> DEFINE n == Cardinality(S)
           s == SetToSeq(S)
<1>1. n \in Nat /\ ExistsBijection(1 .. n, S)
  BY FS_CardinalityType
<1>2. \E g \in [1 .. n -> S] : IsInjective(g)
  BY <1>1 DEF ExistsBijection, Bijection, Injection, IsInjective
<1>3. s \in [1 .. n -> S] /\ IsInjective(s)
  BY <1>2 DEF SetToSeq
<1> HIDE DEF s
<1>4. s \in Injection(1 .. n, S)
  BY <1>3 DEF Injection
<1>5. Cardinality(1 .. n) = n
  BY <1>1, FS_Interval
<1> HIDE DEF n
<1>6. s \in Surjection(1 .. n, S)
  BY <1>4, <1>5, FS_Injection DEF n
<1>7. \A x \in S : \E i \in 1 .. n : s[i] = x
  BY <1>6 DEF Surjection
<1>8. s \in Seq(S) /\ DOMAIN s = 1 .. n
  BY <1>1, <1>3
<1>9. ToSet(s) = S
  BY <1>3, <1>7, <1>8 DEF ToSet
<1>10. Distinct(s)
  BY <1>3 DEF IsInjective, Distinct
<1> QED BY <1>8, <1>9, <1>10 DEF s

\* The functors that the destructor queues in a loop: one for every connection left.
LEMMA DestroyFunctorsAre ==
    ASSUME NEW sv, NEW l, IsFiniteSet(LeftIn(sv, l)), LeftIn(sv, l) \subseteq Conns
    PROVE  /\ DestroyFunctors(sv, l) \in Seq(Functors) /\ Distinct(DestroyFunctors(sv, l))
           /\ \A f : f \in ToSet(DestroyFunctors(sv, l))
                       <=> \E c \in LeftIn(sv, l) : f = <<"destroyed", c>>
<1> DEFINE left == SetToSeq(LeftIn(sv, l))
           t == DestroyFunctors(sv, l)
<1>1. /\ left \in Seq(LeftIn(sv, l)) /\ Distinct(left)
      /\ ToSet(left) = LeftIn(sv, l)
  BY SetToSeqIs
<1>2. t = [i \in DOMAIN left |-> <<"destroyed", left[i]>>]
  BY DEF DestroyFunctors
<1> HIDE DEF left, t
<1>3. DOMAIN left = 1 .. Len(left) /\ Len(left) \in Nat
  BY <1>1
<1>4. \A i \in DOMAIN left : left[i] \in LeftIn(sv, l) /\ left[i] \in Conns
  BY <1>1 DEF ToSet
<1>5. DOMAIN t = DOMAIN left /\ \A i \in DOMAIN left : t[i] = <<"destroyed", left[i]>>
  BY <1>2
<1>6. \A i \in DOMAIN left : t[i] \in Functors
  BY <1>4, <1>5, Pairs
<1>7. t \in Seq(Functors)
  <2>1. t \in [1 .. Len(left) -> Functors]
    BY <1>2, <1>3, <1>6
  <2> QED BY <1>3, <2>1
<1>8. Distinct(t)
  <2> SUFFICES ASSUME NEW i \in DOMAIN left, NEW j \in DOMAIN left, t[i] = t[j] PROVE i = j
    BY <1>5 DEF Distinct
  <2>1. left[i] = left[j]
    BY <1>5
  <2> QED BY <1>1, <2>1 DEF Distinct
<1>9. ASSUME NEW f \in ToSet(t) PROVE \E c \in LeftIn(sv, l) : f = <<"destroyed", c>>
  <2>1. PICK i \in DOMAIN left : f = t[i]
    BY <1>5 DEF ToSet
  <2> QED BY <1>4, <1>5, <2>1
<1>10. ASSUME NEW c \in LeftIn(sv, l) PROVE <<"destroyed", c>> \in ToSet(t)
  <2>1. PICK i \in DOMAIN left : c = left[i]
    BY <1>1 DEF ToSet
  <2> QED BY <1>5, <2>1 DEF ToSet
<1> QED BY <1>7, <1>8, <1>9, <1>10 DEF t

\* q is what is queued when the destructor has dealt with the connections of the map.
AllQueued(loop, map, functors, q) ==
    /\ Tidy(q)
    /\ \A k \in Loops : \A f : f \in ToSet(q[k])
         <=> \/ f \in ToSet(functors[k])
             \/ k # BaseLoop /\ \E c \in map : loop[c] = k /\ f = <<"destroyed", c>>

\* ~TcpServer (TcpServer.cc 34-49): what was in the map is gone, or is to be destroyed by its loop.
LEMMA AllDestroyed ==
    ASSUME NEW phase, NEW loop, NEW map, NEW functors, NEW destroyed,
           State(phase, loop, map, functors, destroyed),
           NEW p \in [Conns -> Phases],
           \A c \in Conns : p[c] = IF c \in map /\ loop[c] = BaseLoop THEN "gone" ELSE phase[c],
           NEW q, AllQueued(loop, map, functors, q)
    PROVE  /\ State(p, loop, {}, q, TRUE)
           /\ OpenOf(p, q) \subseteq OpenOf(phase, functors)
<1>1. /\ Typed(phase, loop, map, functors) /\ functors \in [Loops -> Seq(Functors)]
      /\ loop \in [Conns -> Loops] /\ map \in SUBSET Conns
  BY DEF State, Typed
<1>2. Tidy(q) /\ Typed(p, loop, {}, q)
  BY <1>1 DEF AllQueued, Tidy, Typed
<1>3. \A c \in map : phase[c] \in {"new", "up", "down"}
  BY DEF State, ConnsOK, MapOK
<1>4. ASSUME NEW k \in Loops, NEW f \in ToSet(q[k]) PROVE FunctorOK(p, loop, {}, TRUE, k, f)
  <2>1. CASE f \in ToSet(functors[k])
    <3>1. FunctorOK(phase, loop, map, destroyed, k, f)
      BY <2>1 DEF State, ConnsOK, QueuesOK
    <3>2. f[2] \in Conns
      BY <1>1, <2>1, InQueue
    <3>3. p[f[2]] = IF f[2] \in map /\ loop[f[2]] = BaseLoop THEN "gone" ELSE phase[f[2]]
      BY <3>2
    <3> QED BY <3>1, <3>3 DEF FunctorOK
  <2>2. CASE k # BaseLoop /\ \E c \in map : loop[c] = k /\ f = <<"destroyed", c>>
    <3>1. PICK c \in map : loop[c] = k /\ f = <<"destroyed", c>>
      BY <2>2
    <3>2. f[1] = "destroyed" /\ f[2] = c /\ c \in Conns
      BY <1>1, <3>1, Pairs
    <3>3. p[c] \in {"new", "up", "down"}
      BY <1>3, <2>2, <3>1, <3>2
    <3> QED BY <3>1, <3>2, <3>3 DEF FunctorOK
  <2> QED BY <2>1, <2>2 DEF AllQueued
<1>5. QueuesOK(p, loop, {}, q, TRUE)
  BY <1>2, <1>4, TidyQueues
<1>6. RestOK(p, loop, {}, q, TRUE)
  <2> SUFFICES ASSUME NEW c \in Conns, p[c] \notin {"none", "backlog", "refused", "gone"}
               PROVE  <<"destroyed", c>> \in ToSet(q[loop[c]])
    BY DEF RestOK
  <2>1. loop[c] \in Loops /\ p[c] = phase[c] /\ ~(c \in map /\ loop[c] = BaseLoop)
    BY <1>1
  <2>2. CASE c \in map
    BY <2>1, <2>2 DEF AllQueued
  <2>3. CASE c \notin map
    <3>1. <<"destroyed", c>> \in ToSet(functors[loop[c]])
      BY <2>1, <2>3 DEF State, ConnsOK, RestOK
    <3> QED BY <2>1, <3>1 DEF AllQueued
  <2> QED BY <2>2, <2>3
<1>7. MapOK(p, {}, q)
  BY DEF MapOK
<1>8. OpenOf(p, q) \subseteq OpenOf(phase, functors)
  <2>1. \A c \in Conns : p[c] \in {"new", "up", "down"} => c \in OpenOf(phase, functors)
    BY <1>1, OpenIs
  <2>2. ASSUME NEW k \in Loops, NEW f \in ToSet(q[k]) PROVE f[2] \in OpenOf(phase, functors)
    <3>1. CASE f \in ToSet(functors[k])
      BY <1>1, <3>1, OpenIs
    <3>2. CASE f \notin ToSet(functors[k])
      <4>1. PICK c \in map : f = <<"destroyed", c>>
        BY <3>2 DEF AllQueued
      <4>2. f[2] = c /\ c \in Conns
        BY <1>1, <4>1, Pairs
      <4> QED BY <1>1, <1>3, <4>1, <4>2, OpenIs
    <3> QED BY <3>1, <3>2
  <2> QED BY <2>1, <2>2, OpenWithin
<1> QED BY <1>2, <1>5, <1>6, <1>7, <1>8 DEF State, ConnsOK

-----------------------------------------------------------------------------
(***************************************************************************)
(* Descriptors, the backlog and the round robin.                           *)
(***************************************************************************)
Fds(open, others, idle) == Limit - Cardinality(open) - others - (IF idle THEN 1 ELSE 0)

\* FreeFds in terms of the phases and the queues.
LEMMA FreeFdsIs ==
    ASSUME NEW sv, sv.functors \in [Loops -> Seq(Functors)]
    PROVE  FreeFds(sv) = Fds(OpenOf(sv.phase, sv.functors), sv.others, sv.idleFd)
<1>1. \A c : Queued(sv, c) <=> \E l \in Loops : \E f \in ToSet(sv.functors[l]) : f[2] = c
  BY DEF Queued, ToSet
<1>2. Open(sv) = OpenOf(sv.phase, sv.functors)
  BY <1>1 DEF Open, OpenOf
<1> QED BY <1>2 DEF FreeFds, Fds

\* The open connections are finitely many, and the descriptors are counted in integers.
LEMMA FdsType ==
    ASSUME NEW phase, NEW functors, NEW others \in Nat, NEW idle
    PROVE  /\ IsFiniteSet(OpenOf(phase, functors)) /\ Cardinality(OpenOf(phase, functors)) \in Nat
           /\ Fds(OpenOf(phase, functors), others, idle) \in Int
<1>1. OpenOf(phase, functors) \in SUBSET Conns /\ IsFiniteSet(Conns)
  BY ServerSizes DEF OpenOf
<1>2. IsFiniteSet(OpenOf(phase, functors))
  BY <1>1, FS_Subset
<1>3. Cardinality(OpenOf(phase, functors)) \in Nat
  BY <1>2, FS_CardinalityType
<1> QED BY <1>2, <1>3, ServerSizes DEF Fds

\* A step that opens nothing needs no descriptor.
LEMMA FdsKept ==
    ASSUME NEW phase, NEW functors, NEW p, NEW q, NEW others \in Nat, NEW idle, NEW i,
           OpenOf(p, q) \subseteq OpenOf(phase, functors), i => idle,
           Fds(OpenOf(phase, functors), others, idle) >= 0
    PROVE  Fds(OpenOf(p, q), others, i) >= 0
<1> DEFINE O == OpenOf(phase, functors)
           P == OpenOf(p, q)
<1>1. /\ IsFiniteSet(O) /\ Cardinality(O) \in Nat /\ Cardinality(P) \in Nat
  BY FdsType
<1>2. P \in SUBSET O
  OBVIOUS
<1> HIDE DEF O, P
<1>3. Cardinality(P) <= Cardinality(O)
  BY <1>1, <1>2, FS_Subset
<1>4. Fds(O, others, idle) >= 0
  BY DEF O
<1>5. Fds(P, others, i) >= 0
  BY <1>1, <1>3, <1>4, ServerSizes DEF Fds
<1> QED BY <1>5 DEF P

\* A step that opens one connection needs one descriptor.
LEMMA FdsTaken ==
    ASSUME NEW phase, NEW functors, NEW p, NEW q, NEW others \in Nat, NEW idle, NEW c,
           OpenOf(p, q) \subseteq OpenOf(phase, functors) \cup {c},
           Fds(OpenOf(phase, functors), others, idle) > 0
    PROVE  Fds(OpenOf(p, q), others, idle) >= 0
<1> DEFINE O == OpenOf(phase, functors)
           P == OpenOf(p, q)
           T == O \cup {c}
<1>1. /\ IsFiniteSet(O) /\ Cardinality(O) \in Nat /\ Cardinality(P) \in Nat
  BY FdsType
<1>2. P \in SUBSET T
  OBVIOUS
<1>3. Fds(O, others, idle) > 0
  OBVIOUS
<1> HIDE DEF O, P
<1>4. IsFiniteSet(T) /\ Cardinality(T) = IF c \in O THEN Cardinality(O) ELSE Cardinality(O) + 1
  BY <1>1, FS_AddElement
<1> HIDE DEF T
<1>5. Cardinality(P) <= Cardinality(T)
  BY <1>2, <1>4, FS_Subset
<1>6. Cardinality(P) <= Cardinality(O) + 1
  BY <1>1, <1>4, <1>5
<1>7. Fds(P, others, idle) >= 0
  BY <1>1, <1>3, <1>6, ServerSizes DEF Fds
<1> QED BY <1>7 DEF P

\* A step of a connection that is not in the backlog leaves the backlog as it was.
LEMMA BacklogKept ==
    ASSUME NEW backlog \in Seq(Conns), NEW phase \in [Conns -> Phases], NEW handling,
           BacklogOK(backlog, phase, handling),
           NEW c \in Conns, phase[c] # "backlog", NEW x, NEW p, SetPhase(phase, c, x, p)
    PROVE  BacklogOK(backlog, p, handling)
<1>1. \A i \in DOMAIN backlog : backlog[i] \in Conns /\ phase[backlog[i]] = "backlog"
  BY DEF BacklogOK
<1>2. \A d \in Conns : d # c => p[d] = phase[d]
  BY DEF SetPhase
<1>3. \A i \in DOMAIN backlog : p[backlog[i]] = "backlog"
  BY <1>1, <1>2
<1> QED BY <1>3 DEF BacklogOK

\* accept takes the first connection of the backlog, which is not in it a second time.
LEMMA BacklogTaken ==
    ASSUME NEW backlog \in Seq(Conns), NEW phase \in [Conns -> Phases], NEW handling,
           BacklogOK(backlog, phase, handling), backlog # <<>>,
           NEW x, NEW p, SetPhase(phase, Head(backlog), x, p), NEW h \in {"no", "open"}
    PROVE  /\ Head(backlog) \in Conns /\ phase[Head(backlog)] = "backlog"
           /\ Tail(backlog) \in Seq(Conns) /\ BacklogOK(Tail(backlog), p, h)
<1> DEFINE c == Head(backlog)
           t == Tail(backlog)
<1>1. Distinct(backlog) /\ \A d \in ToSet(backlog) : phase[d] = "backlog"
  BY DEF BacklogOK, ToSet
<1>2. /\ t \in Seq(Conns) /\ c \in Conns /\ c \in ToSet(backlog) /\ ToSet(t) \subseteq ToSet(backlog)
      /\ Distinct(t) /\ c \notin ToSet(t)
  BY <1>1, TailDistinct
<1>3. SetPhase(phase, c, x, p)
  OBVIOUS
<1> HIDE DEF c, t
<1>4. \A d \in Conns : d # c => p[d] = phase[d]
  BY <1>2, <1>3 DEF SetPhase
<1>5. \A i \in DOMAIN t : t[i] \in Conns /\ t[i] \in ToSet(t)
  BY <1>2 DEF ToSet
<1>6. \A i \in DOMAIN t : p[t[i]] = "backlog"
  BY <1>1, <1>2, <1>4, <1>5
<1>7. BacklogOK(t, p, h)
  BY <1>2, <1>6 DEF BacklogOK
<1> QED BY <1>1, <1>2, <1>7 DEF c, t

\* A client's connection is put at the end of the backlog.
LEMMA BacklogGrows ==
    ASSUME NEW backlog \in Seq(Conns), NEW phase \in [Conns -> Phases], NEW handling,
           BacklogOK(backlog, phase, handling),
           NEW c \in Conns, phase[c] = "none", NEW p, SetPhase(phase, c, "backlog", p)
    PROVE  /\ Append(backlog, c) \in Seq(Conns) /\ BacklogOK(Append(backlog, c), p, handling)
<1> DEFINE t == Append(backlog, c)
<1>1. Distinct(backlog) /\ \A d \in ToSet(backlog) : phase[d] = "backlog"
  BY DEF BacklogOK, ToSet
<1>2. /\ t \in Seq(Conns) /\ t # <<>> /\ ToSet(t) = ToSet(backlog) \cup {c} /\ Distinct(t)
  BY <1>1, AppendDistinct
<1> HIDE DEF t
<1>3. p[c] = "backlog" /\ \A d \in Conns : d # c => p[d] = phase[d]
  BY DEF SetPhase
<1>4. \A i \in DOMAIN t : t[i] \in Conns /\ t[i] \in ToSet(t)
  BY <1>2 DEF ToSet
<1>5. \A i \in DOMAIN t : p[t[i]] = "backlog"
  BY <1>1, <1>2, <1>3, <1>4
<1>6. BacklogOK(t, p, handling)
  BY <1>2, <1>5 DEF BacklogOK
<1> QED BY <1>2, <1>6 DEF t

\* The loop l has accepted one connection more, and the index goes on.
CountsOne(accepts, l, a) == a = [accepts EXCEPT ![l] = @ + 1]
GoesOn(loops, next, n) == n = IF next >= Len(loops) THEN 1 ELSE next + 1

\* getNextLoop (EventLoopThreadPool.cc 43-58): the loop whose turn it is gets the connection.
LEMMA NextInTurn ==
    ASSUME NEW loops \in Seq(IoLoops), NEW next \in Nat, NEW accepts \in [Loops -> Nat],
           RoundRobin(loops, next, accepts), loops # <<>>,
           NEW a, CountsOne(accepts, loops[next], a), NEW n, GoesOn(loops, next, n)
    PROVE  /\ loops[next] \in IoLoops /\ n \in Nat /\ a \in [Loops -> Nat]
           /\ RoundRobin(loops, n, a)
<1> DEFINE L == Len(loops)
           last == loops[L]
<1>1. L \in Nat \ {0} /\ DOMAIN loops = 1 .. L /\ \A i \in 1 .. L : loops[i] \in IoLoops
  OBVIOUS
<1>2. /\ next \in 1 .. L /\ Distinct(loops)
      /\ \A i \in 1 .. L : accepts[loops[i]] = accepts[last] + (IF i < next THEN 1 ELSE 0)
  BY <1>1 DEF RoundRobin
<1>3. n \in 1 .. L /\ n \in Nat
  BY <1>1, <1>2 DEF GoesOn
<1>4. /\ loops[next] \in IoLoops /\ IoLoops \subseteq Loops /\ a \in [Loops -> Nat]
      /\ \A i \in 1 .. L : accepts[loops[i]] \in Nat
  BY <1>1, <1>2 DEF Loops, CountsOne
<1>5. \A i \in 1 .. L : a[loops[i]] = accepts[loops[i]] + (IF i = next THEN 1 ELSE 0)
  <2> SUFFICES ASSUME NEW i \in 1 .. L
               PROVE  a[loops[i]] = accepts[loops[i]] + (IF i = next THEN 1 ELSE 0)
    OBVIOUS
  <2>1. CASE i = next
    BY <1>1, <1>4, <2>1 DEF CountsOne
  <2>2. CASE i # next
    <3>1. loops[i] # loops[next]
      BY <1>1, <1>2, <2>2 DEF Distinct
    <3> QED BY <1>1, <1>4, <2>2, <3>1 DEF CountsOne
  <2> QED BY <2>1, <2>2
<1> HIDE DEF L
<1>6. L \in 1 .. L
  BY <1>1
<1>7. ASSUME NEW i \in 1 .. L
      PROVE  a[loops[i]] = a[last] + (IF i < n THEN 1 ELSE 0)
  <2>1. a[last] = accepts[last] + (IF L = next THEN 1 ELSE 0)
    BY <1>5, <1>6
  <2>2. /\ a[loops[i]] = accepts[loops[i]] + (IF i = next THEN 1 ELSE 0)
        /\ accepts[loops[i]] = accepts[last] + (IF i < next THEN 1 ELSE 0)
        /\ accepts[last] \in Nat
    BY <1>2, <1>4, <1>5, <1>6
  <2>3. n = IF next >= L THEN 1 ELSE next + 1
    BY DEF GoesOn, L
  <2> HIDE DEF last
  <2> QED BY <1>1, <1>2, <2>1, <2>2, <2>3
<1> QED BY <1>1, <1>2, <1>3, <1>4, <1>7 DEF RoundRobin, L

-----------------------------------------------------------------------------
(***************************************************************************)
(* The steps of the server keep the invariant.                             *)
(***************************************************************************)
\* Nothing changes but phases, connections_, queues and touched.
SameRest(sv, tv) ==
    /\ tv.loops = sv.loops /\ tv.next = sv.next /\ tv.listening = sv.listening
    /\ tv.backlog = sv.backlog /\ tv.loop = sv.loop /\ tv.idleFd = sv.idleFd
    /\ tv.others = sv.others /\ tv.handling = sv.handling /\ tv.destroyed = sv.destroyed
    /\ tv.quit = sv.quit /\ tv.accepts = sv.accepts

WithPhase(sv, c, x) == [sv EXCEPT !.phase[c] = x]
WithoutHead(sv, l) == [sv EXCEPT !.functors[l] = Tail(@)]

\* connectEstablished and connectDestroyed set the phase.
LEMMA PhaseStep ==
    ASSUME NEW sv \in ServerStates, NEW c \in Conns, NEW x \in Phases,
           NEW tv, tv = WithPhase(sv, c, x)
    PROVE  /\ tv \in ServerStates /\ SameRest(sv, tv) /\ tv.touched = sv.touched
           /\ SetPhase(sv.phase, c, x, tv.phase) /\ tv.map = sv.map /\ tv.functors = sv.functors
BY DEF ServerStates, SameRest, SetPhase, WithPhase

\* The first functor of a queue is taken.
LEMMA TakeStep ==
    ASSUME NEW sv \in ServerStates, NEW l \in Loops, sv.functors[l] # <<>>,
           NEW tv, tv = WithoutHead(sv, l)
    PROVE  /\ tv \in ServerStates /\ SameRest(sv, tv) /\ tv.touched = sv.touched
           /\ tv.phase = sv.phase /\ tv.map = sv.map
           /\ Runs(sv.functors, l, Head(sv.functors[l]), tv.functors)
<1>1. Tail(sv.functors[l]) \in Seq(Functors)
  <2>1. sv.functors[l] \in Seq(Functors)
    BY DEF ServerStates
  <2> QED BY <2>1
<1> QED BY <1>1 DEF ServerStates, SameRest, Runs, WithoutHead

\* A functor is queued.
LEMMA QueueStep ==
    ASSUME NEW sv \in ServerStates, NEW l \in Loops, NEW f \in Functors,
           NEW tv, tv = queueInLoop(sv, l, f)
    PROVE  /\ tv \in ServerStates /\ SameRest(sv, tv) /\ tv.touched = sv.touched
           /\ tv.phase = sv.phase /\ tv.map = sv.map
           /\ Queues(sv.functors, l, f, tv.functors)
<1>1. Append(sv.functors[l], f) \in Seq(Functors)
  <2>1. sv.functors[l] \in Seq(Functors)
    BY DEF ServerStates
  <2> QED BY <2>1
<1> QED BY <1>1 DEF ServerStates, SameRest, Queues, queueInLoop

\* removeConnectionInLoop: connections_ loses the connection, or all bets are off.
LEMMA RemoveStep ==
    ASSUME NEW sv \in ServerStates, NEW c \in Conns,
           NEW tv, tv = removeConnectionInLoop(sv, c)
    PROVE  /\ tv \in ServerStates /\ SameRest(sv, tv) /\ tv.phase = sv.phase
           /\ \/ tv.touched
              \/ /\ ~sv.destroyed /\ tv.map = sv.map \ {c} /\ tv.touched = sv.touched
                 /\ Destroys(sv.functors, sv.loop[c], c, tv.functors)
<1>1. CASE sv.destroyed
  <2>1. tv = [sv EXCEPT !.touched = TRUE]
    BY <1>1 DEF removeConnectionInLoop
  <2> QED BY <2>1 DEF ServerStates, SameRest
<1>2. CASE ~sv.destroyed
  <2> DEFINE uv == [sv EXCEPT !.map = @ \ {c}]
             f == <<"destroyed", c>>
  <2>1. uv \in ServerStates /\ SameRest(sv, uv) /\ uv.touched = sv.touched
        /\ uv.phase = sv.phase /\ uv.map = sv.map \ {c} /\ uv.functors = sv.functors
    BY DEF ServerStates, SameRest
  <2>2. tv = queueInLoop(uv, sv.loop[c], f)
    BY <1>2 DEF removeConnectionInLoop
  <2>3. sv.loop[c] \in Loops /\ f \in Functors
    BY Pairs DEF ServerStates
  <2> HIDE DEF uv, f
  <2>4. /\ tv \in ServerStates /\ SameRest(uv, tv) /\ tv.touched = uv.touched
        /\ tv.phase = uv.phase /\ tv.map = uv.map
        /\ Queues(uv.functors, sv.loop[c], f, tv.functors)
    BY <2>1, <2>2, <2>3, QueueStep
  <2>5. SameRest(sv, tv)
    BY <2>1, <2>4 DEF SameRest
  <2> QED BY <1>2, <2>1, <2>4, <2>5 DEF Destroys, f
<1> QED BY <1>1, <1>2

\* What the invariant says of a server that all bets are on.
LEMMA AccountedIs ==
    ASSUME NEW sv, Accounted(sv), ~sv.touched
    PROVE  /\ State(sv.phase, sv.loop, sv.map, sv.functors, sv.destroyed)
           /\ Fds(OpenOf(sv.phase, sv.functors), sv.others, sv.idleFd) >= 0
           /\ sv.phase \in [Conns -> Phases] /\ sv.backlog \in Seq(Conns) /\ sv.others \in Nat
           /\ sv.functors \in [Loops -> Seq(Functors)] /\ sv.loop \in [Conns -> Loops]
<1>1. /\ sv.phase \in [Conns -> Phases] /\ sv.backlog \in Seq(Conns) /\ sv.others \in Nat
      /\ sv.functors \in [Loops -> Seq(Functors)] /\ sv.loop \in [Conns -> Loops]
      /\ sv.map \in SUBSET Conns
  BY DEF Accounted, ServerStates
<1>2. ConnsOK(sv.phase, sv.loop, sv.map, sv.functors, sv.destroyed) /\ FreeFds(sv) >= 0
  BY DEF Accounted
<1>3. State(sv.phase, sv.loop, sv.map, sv.functors, sv.destroyed)
  BY <1>1, <1>2 DEF State, Typed
<1>4. Fds(OpenOf(sv.phase, sv.functors), sv.others, sv.idleFd) >= 0
  BY <1>1, <1>2, FreeFdsIs
<1> QED BY <1>1, <1>3, <1>4

\* A step of a connection keeps the invariant if it keeps what is known of the connections.
LEMMA ConnectionStep ==
    ASSUME NEW sv, Accounted(sv), ~sv.touched,
           NEW tv \in ServerStates, SameRest(sv, tv),
           BacklogOK(sv.backlog, tv.phase, sv.handling),
           \/ tv.touched
           \/ /\ State(tv.phase, sv.loop, tv.map, tv.functors, sv.destroyed)
              /\ OpenOf(tv.phase, tv.functors) \subseteq OpenOf(sv.phase, sv.functors)
    PROVE  Accounted(tv)
<1>1. /\ RoundRobin(sv.loops, sv.next, sv.accepts)
      /\ Fds(OpenOf(sv.phase, sv.functors), sv.others, sv.idleFd) >= 0 /\ sv.others \in Nat
  BY AccountedIs DEF Accounted
<1>2. /\ tv.backlog = sv.backlog /\ tv.handling = sv.handling /\ tv.loops = sv.loops
      /\ tv.next = sv.next /\ tv.accepts = sv.accepts /\ tv.loop = sv.loop
      /\ tv.destroyed = sv.destroyed /\ tv.others = sv.others /\ tv.idleFd = sv.idleFd
  BY DEF SameRest
<1>3. CASE tv.touched
  BY <1>1, <1>2, <1>3 DEF Accounted
<1>4. CASE ~tv.touched
  <2>1. /\ ConnsOK(tv.phase, tv.loop, tv.map, tv.functors, tv.destroyed)
        /\ OpenOf(tv.phase, tv.functors) \subseteq OpenOf(sv.phase, sv.functors)
    BY <1>2, <1>4 DEF State
  <2>2. Fds(OpenOf(tv.phase, tv.functors), sv.others, sv.idleFd) >= 0
    BY <1>1, <2>1, FdsKept
  <2>3. tv.functors \in [Loops -> Seq(Functors)]
    BY DEF ServerStates
  <2>4. FreeFds(tv) >= 0
    BY <1>2, <2>2, <2>3, FreeFdsIs
  <2> QED BY <1>1, <1>2, <2>1, <2>4 DEF Accounted
<1> QED BY <1>3, <1>4

\* removeConnectionInLoop of a connection that is down now, with queues that lost none but its
\* functors: what is known of the connections is kept.
LEMMA RemoveKeeps ==
    ASSUME NEW sv, Accounted(sv), ~sv.touched,
           NEW c \in Conns, sv.phase[c] \in {"up", "down", "gone"},
           NEW uv \in ServerStates, SameRest(sv, uv), uv.touched = sv.touched, uv.map = sv.map,
           Less(sv.functors, uv.functors, c), c \in sv.map \/ sv.destroyed,
           \/ uv.phase = sv.phase /\ sv.phase[c] \in {"down", "gone"}
           \/ SetPhase(sv.phase, c, "down", uv.phase) /\ sv.phase[c] = "up",
           NEW tv, tv = removeConnectionInLoop(uv, c)
    PROVE  Accounted(tv)
<1>1. /\ tv \in ServerStates /\ SameRest(uv, tv) /\ tv.phase = uv.phase
      /\ \/ tv.touched
         \/ /\ ~uv.destroyed /\ tv.map = uv.map \ {c} /\ tv.touched = uv.touched
            /\ Destroys(uv.functors, uv.loop[c], c, tv.functors)
  BY RemoveStep
<1>2. SameRest(sv, tv)
  BY <1>1 DEF SameRest
<1>3. /\ State(sv.phase, sv.loop, sv.map, sv.functors, sv.destroyed)
      /\ sv.phase \in [Conns -> Phases] /\ sv.backlog \in Seq(Conns)
      /\ BacklogOK(sv.backlog, sv.phase, sv.handling)
  BY AccountedIs DEF Accounted
<1>4. BacklogOK(sv.backlog, tv.phase, sv.handling)
  <2>1. CASE uv.phase = sv.phase
    BY <1>1, <1>3, <2>1
  <2>2. CASE SetPhase(sv.phase, c, "down", uv.phase)
    <3>1. sv.phase[c] # "backlog"
      OBVIOUS
    <3> QED BY <1>1, <1>3, <2>2, <3>1, BacklogKept
  <2> QED BY <2>1, <2>2
<1>5. ASSUME ~tv.touched
      PROVE  /\ State(tv.phase, sv.loop, tv.map, tv.functors, sv.destroyed)
             /\ OpenOf(tv.phase, tv.functors) \subseteq OpenOf(sv.phase, sv.functors)
  <2>1. /\ c \in sv.map /\ tv.map = sv.map \ {c} /\ uv.loop = sv.loop
        /\ Destroys(uv.functors, sv.loop[c], c, tv.functors)
    BY <1>1, <1>5 DEF SameRest
  <2>2. sv.phase[c] \in {"new", "up", "down"}
    BY <1>3, <2>1 DEF State, ConnsOK, MapOK
  <2>3. sv.phase[c] \in {"up", "down"}
    BY <2>2
  <2>4. SetPhase(sv.phase, c, "down", tv.phase)
    <3>1. CASE uv.phase = sv.phase /\ sv.phase[c] \in {"down", "gone"}
      <4>1. sv.phase[c] = "down"
        BY <2>3, <3>1
      <4>2. sv.phase = [sv.phase EXCEPT ![c] = "down"]
        BY <1>3, <4>1
      <4> QED BY <1>1, <3>1, <4>2 DEF SetPhase
    <3>2. CASE SetPhase(sv.phase, c, "down", uv.phase)
      BY <1>1, <3>2
    <3> QED BY <3>1, <3>2
  <2>5. Removes(c, sv.phase, sv.loop, sv.map, sv.functors, tv.phase, tv.map, tv.functors)
    BY <2>1, <2>3, <2>4 DEF Removes
  <2> QED BY <1>3, <2>5, Removed
<1> QED BY <1>1, <1>2, <1>4, <1>5, ConnectionStep

\* A loop runs a functor.
LEMMA RunFunctorKeeps ==
    ASSUME ServerInv, NEW l \in Loops, RunFunctor(l)
    PROVE  ServerInv'
<1> DEFINE sv == server
           tv == server'
           f == Head(sv.functors[l])
           uv == WithoutHead(sv, l)
           c == f[2]
<1>1. Accounted(sv) /\ ~sv.touched /\ sv.functors[l] # <<>> /\ tv = Do(uv, f)
  BY DEF ServerInv, RunFunctor, Lives, WithoutHead
<1>2. sv \in ServerStates /\ BacklogOK(sv.backlog, sv.phase, sv.handling)
  BY <1>1 DEF Accounted
<1>3. SUFFICES Accounted(tv)
  BY DEF ServerInv, Accounted, FreeFds, Open, Queued
<1> HIDE DEF sv, tv
<1>4. /\ uv \in ServerStates /\ SameRest(sv, uv) /\ uv.touched = sv.touched
      /\ uv.phase = sv.phase /\ uv.map = sv.map
      /\ Runs(sv.functors, l, f, uv.functors)
  BY <1>1, <1>2, TakeStep
<1> HIDE DEF uv, f
<1>5. /\ State(sv.phase, sv.loop, sv.map, sv.functors, sv.destroyed)
      /\ sv.phase \in [Conns -> Phases] /\ sv.backlog \in Seq(Conns)
  BY <1>1, AccountedIs
<1>6. /\ f \in Functors /\ c \in Conns /\ Popped(sv.functors, uv.functors, l, f)
      /\ FunctorOK(sv.phase, sv.loop, sv.map, sv.destroyed, l, f)
      /\ sv.phase[c] \in {"new", "up", "down", "gone"}
  BY <1>4, <1>5, AboutToRun
<1>7. f[1] \in {"established", "remove", "destroyed"}
  BY <1>6, Pairs
<1> HIDE DEF c
<1>8. CASE f[1] = "established"
  <2>1. tv = WithPhase(uv, c, "up")
    BY <1>1, <1>8 DEF Do, connectEstablished, WithPhase, c
  <2>2. "up" \in Phases
    BY DEF Phases
  <2>3. /\ tv \in ServerStates /\ SameRest(uv, tv) /\ tv.touched = uv.touched
        /\ SetPhase(uv.phase, c, "up", tv.phase) /\ tv.map = uv.map /\ tv.functors = uv.functors
    BY <1>4, <1>6, <2>1, <2>2, PhaseStep
  <2>4. SameRest(sv, tv) /\ SetPhase(sv.phase, c, "up", tv.phase)
    BY <1>4, <2>3 DEF SameRest
  <2>5. BacklogOK(sv.backlog, tv.phase, sv.handling)
    BY <1>2, <1>5, <1>6, <2>4, BacklogKept
  <2>6. /\ State(tv.phase, sv.loop, sv.map, uv.functors, sv.destroyed)
        /\ OpenOf(tv.phase, uv.functors) \subseteq OpenOf(sv.phase, sv.functors)
    BY <1>4, <1>5, <1>8, <2>4, EstablishedRuns DEF c
  <2> QED BY <1>1, <1>4, <2>3, <2>4, <2>5, <2>6, ConnectionStep
<1>9. CASE f[1] = "destroyed"
  <2>1. tv = WithPhase(uv, c, "gone")
    BY <1>1, <1>9 DEF Do, connectDestroyed, WithPhase, c
  <2>2. "gone" \in Phases
    BY DEF Phases
  <2>3. /\ tv \in ServerStates /\ SameRest(uv, tv) /\ tv.touched = uv.touched
        /\ SetPhase(uv.phase, c, "gone", tv.phase) /\ tv.map = uv.map /\ tv.functors = uv.functors
    BY <1>4, <1>6, <2>1, <2>2, PhaseStep
  <2>4. SameRest(sv, tv) /\ SetPhase(sv.phase, c, "gone", tv.phase)
    BY <1>4, <2>3 DEF SameRest
  <2>5. BacklogOK(sv.backlog, tv.phase, sv.handling)
    BY <1>2, <1>5, <1>6, <2>4, BacklogKept
  <2>6. /\ State(tv.phase, sv.loop, sv.map, uv.functors, sv.destroyed)
        /\ OpenOf(tv.phase, uv.functors) \subseteq OpenOf(sv.phase, sv.functors)
    BY <1>4, <1>5, <1>9, <2>4, DestroyedRuns DEF c
  <2> QED BY <1>1, <1>4, <2>3, <2>4, <2>5, <2>6, ConnectionStep
<1>10. CASE f[1] = "remove"
  <2>1. tv = removeConnectionInLoop(uv, c)
    BY <1>1, <1>10 DEF Do, c
  <2>2. l = BaseLoop /\ sv.phase[c] \in {"down", "gone"} /\ (c \in sv.map \/ sv.destroyed)
    BY <1>6, <1>10 DEF FunctorOK, c
  <2>3. Less(sv.functors, uv.functors, c)
    <3>1. ASSUME NEW k \in Loops, NEW g \in ToSet(uv.functors[k]), g[1] = "remove", g[2] = c
          PROVE  FALSE
      <4>1. g \in ToSet(sv.functors[k])
        BY <1>6 DEF Popped
      <4>2. FunctorOK(sv.phase, sv.loop, sv.map, sv.destroyed, k, g)
        BY <1>5, <4>1 DEF State, ConnsOK, QueuesOK
      <4>3. g \in Functors
        BY <1>5, <4>1, InQueue DEF State, Typed
      <4>4. g = f /\ k = l
        BY <1>6, <1>10, <2>2, <3>1, <4>2, <4>3, Pairs DEF FunctorOK, c
      <4> QED BY <1>6, <4>4 DEF Popped
    <3> QED BY <1>6, <3>1 DEF Less, Popped, c
  <2> QED BY <1>1, <1>4, <1>6, <2>1, <2>2, <2>3, RemoveKeeps
<1> QED BY <1>7, <1>8, <1>9, <1>10

\* handleClose.
LEMMA CloseKeeps ==
    ASSUME ServerInv, NEW c \in Conns, Close(c)
    PROVE  ServerInv'
<1> DEFINE sv == server
           tv == server'
           l == server.loop[c]
           uv == WithPhase(server, c, "down")
<1>1. Accounted(sv) /\ ~sv.touched /\ sv.phase[c] = "up" /\ tv = removeConnection(uv, l, c)
  BY DEF ServerInv, Close, Lives, WithPhase
<1>2. /\ sv \in ServerStates /\ BacklogOK(sv.backlog, sv.phase, sv.handling)
      /\ "down" \in Phases /\ BaseLoop \in Loops
  BY <1>1 DEF Accounted, Phases, Loops
<1>3. /\ uv \in ServerStates /\ SameRest(sv, uv) /\ uv.touched = sv.touched
      /\ SetPhase(sv.phase, c, "down", uv.phase) /\ uv.map = sv.map /\ uv.functors = sv.functors
  BY <1>1, <1>2, PhaseStep
<1>4. SUFFICES Accounted(tv)
  BY DEF ServerInv, Accounted, FreeFds, Open, Queued
<1> HIDE DEF sv, tv, uv, l
<1>5. /\ State(sv.phase, sv.loop, sv.map, sv.functors, sv.destroyed)
      /\ sv.phase \in [Conns -> Phases] /\ sv.backlog \in Seq(Conns)
      /\ sv.functors \in [Loops -> Seq(Functors)]
  BY <1>1, AccountedIs
<1>6. CASE l = BaseLoop
  <2>1. tv = removeConnectionInLoop(uv, c)
    BY <1>1, <1>6 DEF removeConnection
  <2>2. Less(sv.functors, uv.functors, c)
    <3>1. Tidy(sv.functors)
      BY <1>5, TidyQueues DEF State, ConnsOK
    <3>2. \A k \in Loops : \A f \in ToSet(sv.functors[k]) : ~(f[1] = "remove" /\ f[2] = c)
      BY <1>1, <1>5 DEF State, ConnsOK, QueuesOK, FunctorOK
    <3> QED BY <1>3, <3>1, <3>2 DEF Less
  <2>3. c \in sv.map \/ sv.destroyed
    BY <1>1, <1>5 DEF State, ConnsOK, RestOK
  <2> QED BY <1>1, <1>3, <2>1, <2>2, <2>3, RemoveKeeps
<1>7. CASE l # BaseLoop
  <2> DEFINE f == <<"remove", c>>
  <2>1. tv = queueInLoop(uv, BaseLoop, f) /\ f \in Functors
    BY <1>1, <1>7, Pairs DEF removeConnection
  <2> HIDE DEF f
  <2>2. /\ tv \in ServerStates /\ SameRest(uv, tv) /\ tv.touched = uv.touched
        /\ tv.phase = uv.phase /\ tv.map = uv.map
        /\ Queues(uv.functors, BaseLoop, f, tv.functors)
    BY <1>2, <1>3, <2>1, QueueStep
  <2>3. SameRest(sv, tv) /\ SetPhase(sv.phase, c, "down", tv.phase)
    BY <1>3, <2>2 DEF SameRest
  <2>4. BacklogOK(sv.backlog, tv.phase, sv.handling)
    BY <1>1, <1>2, <1>5, <2>3, BacklogKept
  <2>5. Queues(sv.functors, BaseLoop, <<"remove", c>>, tv.functors)
    BY <1>3, <2>2 DEF f
  <2>6. /\ State(tv.phase, sv.loop, sv.map, tv.functors, sv.destroyed)
        /\ OpenOf(tv.phase, tv.functors) \subseteq OpenOf(sv.phase, sv.functors)
    BY <1>1, <1>5, <2>3, <2>5, Closed
  <2> QED BY <1>1, <1>3, <2>2, <2>3, <2>4, <2>6, ConnectionStep
<1> QED BY <1>6, <1>7

\* Neither the connections nor the round robin change.
SameConns(sv, tv) ==
    /\ tv.loops = sv.loops /\ tv.next = sv.next /\ tv.accepts = sv.accepts
    /\ tv.backlog = sv.backlog /\ tv.phase = sv.phase /\ tv.loop = sv.loop /\ tv.map = sv.map
    /\ tv.functors = sv.functors /\ tv.destroyed = sv.destroyed /\ tv.touched = sv.touched

\* A step that leaves the connections alone keeps the invariant if the descriptors suffice.
LEMMA QuietStep ==
    ASSUME NEW sv, Accounted(sv), NEW tv \in ServerStates, SameConns(sv, tv),
           tv.handling = "accept" => sv.handling = "accept" \/ sv.backlog # <<>>,
           Fds(OpenOf(sv.phase, sv.functors), sv.others, sv.idleFd) >= 0
             => Fds(OpenOf(sv.phase, sv.functors), tv.others, tv.idleFd) >= 0
    PROVE  Accounted(tv)
<1>1. /\ tv.loops = sv.loops /\ tv.next = sv.next /\ tv.accepts = sv.accepts
      /\ tv.backlog = sv.backlog /\ tv.phase = sv.phase /\ tv.loop = sv.loop /\ tv.map = sv.map
      /\ tv.functors = sv.functors /\ tv.destroyed = sv.destroyed /\ tv.touched = sv.touched
  BY DEF SameConns
<1>2. BacklogOK(tv.backlog, tv.phase, tv.handling)
  BY <1>1 DEF Accounted, BacklogOK
<1>3. RoundRobin(tv.loops, tv.next, tv.accepts)
  BY <1>1 DEF Accounted
<1>4. ASSUME ~tv.touched
      PROVE  /\ ConnsOK(tv.phase, tv.loop, tv.map, tv.functors, tv.destroyed)
             /\ FreeFds(tv) >= 0
  <2>1. ConnsOK(tv.phase, tv.loop, tv.map, tv.functors, tv.destroyed)
    BY <1>1, <1>4 DEF Accounted
  <2>2. Fds(OpenOf(tv.phase, tv.functors), tv.others, tv.idleFd) >= 0
    BY <1>1, <1>4, AccountedIs
  <2>3. tv.functors \in [Loops -> Seq(Functors)]
    BY DEF ServerStates
  <2> QED BY <2>1, <2>2, <2>3, FreeFdsIs
<1> QED BY <1>2, <1>3, <1>4 DEF Accounted

\* The invariant of the next state.
LEMMA Primed ==
    Accounted(server') => ServerInv'
BY DEF ServerInv, Accounted, FreeFds, Open, Queued

\* Steps that leave the connections alone: start, the idle descriptor, the loops that quit, and
\* the other threads.
LEMMA QuietKeeps ==
    ASSUME ServerInv,
           \/ start \/ CloseIdle \/ OpenIdle \/ OthersOpen \/ OthersClose
           \/ \E l \in Loops : LoopQuits(l)
    PROVE  ServerInv'
<1> DEFINE sv == server
           tv == server'
           O == OpenOf(sv.phase, sv.functors)
<1>1. Accounted(sv) /\ sv \in ServerStates
  BY DEF ServerInv, Accounted
<1>2. /\ sv.functors \in [Loops -> Seq(Functors)] /\ sv.others \in Nat /\ sv.idleFd \in BOOLEAN
      /\ sv.backlog \in Seq(Conns)
  BY <1>1 DEF ServerStates
<1>3. /\ FreeFds(sv) = Fds(O, sv.others, sv.idleFd)
      /\ Cardinality(O) \in Nat /\ Limit \in Nat
  BY <1>2, FreeFdsIs, FdsType, ServerSizes
<1>4. CASE start \/ \E l \in Loops : LoopQuits(l)
  <2>1. tv \in ServerStates
    <3>1. CASE start
      BY <1>1, <3>1 DEF start, ServerStates
    <3>2. CASE \E l \in Loops : LoopQuits(l)
      <4>1. PICK l \in Loops : tv = [sv EXCEPT !.quit = @ \cup {l}]
        BY <3>2 DEF LoopQuits
      <4>2. sv.quit \cup {l} \in SUBSET Loops
        BY <1>1 DEF ServerStates
      <4> QED BY <1>1, <4>1, <4>2 DEF ServerStates
    <3> QED BY <1>4, <3>1, <3>2
  <2>2. SameConns(sv, tv)
    BY <1>1, <1>4 DEF start, LoopQuits, SameConns, ServerStates
  <2>3. tv.handling = sv.handling /\ tv.others = sv.others /\ tv.idleFd = sv.idleFd
    BY <1>1, <1>4 DEF start, LoopQuits, ServerStates
  <2> HIDE DEF sv, tv, O
  <2>4. Accounted(tv)
    BY <1>1, <2>1, <2>2, <2>3, QuietStep DEF O
  <2> QED BY <2>4, Primed DEF tv
<1>5. CASE CloseIdle
  <2>1. tv \in ServerStates
    BY <1>1, <1>5 DEF CloseIdle, ServerStates
  <2>2. SameConns(sv, tv)
    BY <1>1, <1>5 DEF CloseIdle, SameConns, ServerStates
  <2>3. sv.backlog # <<>> /\ tv.others = sv.others /\ tv.idleFd = FALSE
    BY <1>1, <1>5 DEF CloseIdle, Ready, ServerStates
  <2> HIDE DEF sv, tv, O
  <2>4. Fds(O, sv.others, sv.idleFd) >= 0 => Fds(O, tv.others, tv.idleFd) >= 0
    BY <1>2, <1>3, <2>3 DEF Fds
  <2>5. Accounted(tv)
    BY <1>1, <2>1, <2>2, <2>3, <2>4, QuietStep DEF O
  <2> QED BY <2>5, Primed DEF tv
<1>6. CASE OpenIdle
  <2>1. tv \in ServerStates
    <3>1. tv = [sv EXCEPT !.handling = "no", !.idleFd = FreeFds(sv) > 0]
      BY <1>6 DEF OpenIdle
    <3>2. (FreeFds(sv) > 0) \in BOOLEAN
      OBVIOUS
    <3> QED BY <1>1, <3>1, <3>2 DEF ServerStates
  <2>2. SameConns(sv, tv)
    BY <1>1, <1>6 DEF OpenIdle, SameConns, ServerStates
  <2>3. tv.handling = "no" /\ tv.others = sv.others /\ (tv.idleFd <=> FreeFds(sv) > 0)
    BY <1>1, <1>6 DEF OpenIdle, ServerStates
  <2> HIDE DEF sv, tv, O
  <2>4. Fds(O, sv.others, sv.idleFd) >= 0 => Fds(O, tv.others, tv.idleFd) >= 0
    BY <1>2, <1>3, <2>3 DEF Fds
  <2>5. Accounted(tv)
    BY <1>1, <2>1, <2>2, <2>3, <2>4, QuietStep DEF O
  <2> QED BY <2>5, Primed DEF tv
<1>7. CASE OthersOpen
  <2>1. tv \in ServerStates
    <3>1. tv = [sv EXCEPT !.others = @ + 1] /\ sv.others + 1 \in Nat
      BY <1>2, <1>7 DEF OthersOpen
    <3> QED BY <1>1, <3>1 DEF ServerStates
  <2>2. SameConns(sv, tv)
    BY <1>1, <1>7 DEF OthersOpen, SameConns, ServerStates
  <2>3. /\ tv.handling = sv.handling /\ tv.others = sv.others + 1 /\ tv.idleFd = sv.idleFd
        /\ FreeFds(sv) > 0
    BY <1>1, <1>7 DEF OthersOpen, ServerStates
  <2> HIDE DEF sv, tv, O
  <2>4. Fds(O, tv.others, tv.idleFd) >= 0
    BY <1>2, <1>3, <2>3 DEF Fds
  <2>5. Accounted(tv)
    BY <1>1, <2>1, <2>2, <2>3, <2>4, QuietStep DEF O
  <2> QED BY <2>5, Primed DEF tv
<1>8. CASE OthersClose
  <2>1. /\ tv = [sv EXCEPT !.others = @ - 1] /\ sv.others - 1 \in Nat
    BY <1>2, <1>8 DEF OthersClose
  <2>2. tv \in ServerStates
    BY <1>1, <2>1 DEF ServerStates
  <2>3. SameConns(sv, tv)
    BY <1>1, <2>1 DEF SameConns, ServerStates
  <2>4. /\ tv.handling = sv.handling /\ tv.others = sv.others - 1 /\ tv.idleFd = sv.idleFd
    BY <1>1, <2>1 DEF ServerStates
  <2> HIDE DEF sv, tv, O
  <2>5. Fds(O, sv.others, sv.idleFd) >= 0 => Fds(O, tv.others, tv.idleFd) >= 0
    BY <1>2, <1>3, <2>4 DEF Fds
  <2>6. Accounted(tv)
    BY <1>1, <2>2, <2>3, <2>4, <2>5, QuietStep DEF O
  <2> QED BY <2>6, Primed DEF tv
<1> QED BY <1>4, <1>5, <1>6, <1>7, <1>8

\* Nothing changes but the backlog, the phases and where handleRead is.
SameServer(sv, tv) ==
    /\ tv.loops = sv.loops /\ tv.next = sv.next /\ tv.accepts = sv.accepts
    /\ tv.loop = sv.loop /\ tv.map = sv.map /\ tv.functors = sv.functors
    /\ tv.destroyed = sv.destroyed /\ tv.touched = sv.touched
    /\ tv.others = sv.others /\ tv.idleFd = sv.idleFd

\* A connection comes into the backlog, or is refused.
LEMMA BacklogStep ==
    ASSUME NEW sv, Accounted(sv), NEW tv \in ServerStates, SameServer(sv, tv),
           BacklogOK(tv.backlog, tv.phase, tv.handling),
           NEW c \in Conns, sv.phase[c] \in {"none", "backlog"},
           NEW x \in {"backlog", "refused"}, SetPhase(sv.phase, c, x, tv.phase)
    PROVE  Accounted(tv)
<1>1. /\ tv.loops = sv.loops /\ tv.next = sv.next /\ tv.accepts = sv.accepts
      /\ tv.loop = sv.loop /\ tv.map = sv.map /\ tv.functors = sv.functors
      /\ tv.destroyed = sv.destroyed /\ tv.touched = sv.touched
      /\ tv.others = sv.others /\ tv.idleFd = sv.idleFd
  BY DEF SameServer
<1>2. RoundRobin(tv.loops, tv.next, tv.accepts)
  BY <1>1 DEF Accounted
<1>3. ASSUME ~tv.touched
      PROVE  /\ ConnsOK(tv.phase, tv.loop, tv.map, tv.functors, tv.destroyed)
             /\ FreeFds(tv) >= 0
  <2>1. /\ State(sv.phase, sv.loop, sv.map, sv.functors, sv.destroyed)
        /\ Fds(OpenOf(sv.phase, sv.functors), sv.others, sv.idleFd) >= 0 /\ sv.others \in Nat
    BY <1>1, <1>3, AccountedIs
  <2>2. /\ State(tv.phase, sv.loop, sv.map, sv.functors, sv.destroyed)
        /\ OpenOf(tv.phase, sv.functors) \subseteq OpenOf(sv.phase, sv.functors)
    BY <2>1, PhaseOnly
  <2>3. Fds(OpenOf(tv.phase, sv.functors), sv.others, sv.idleFd) >= 0
    BY <2>1, <2>2, FdsKept
  <2>4. tv.functors \in [Loops -> Seq(Functors)]
    BY DEF ServerStates
  <2>5. FreeFds(tv) >= 0
    BY <1>1, <2>3, <2>4, FreeFdsIs
  <2> QED BY <1>1, <2>2, <2>5 DEF State
<1> QED BY <1>2, <1>3 DEF Accounted

\* A client connects.
LEMMA ClientConnectsKeeps ==
    ASSUME ServerInv, NEW c \in Conns, ClientConnects(c)
    PROVE  ServerInv'
<1> DEFINE sv == server
           tv == server'
<1>1. Accounted(sv) /\ sv \in ServerStates /\ BacklogOK(sv.backlog, sv.phase, sv.handling)
  BY DEF ServerInv, Accounted
<1>2. sv.phase[c] = "none" /\ tv = [sv EXCEPT !.phase[c] = "backlog", !.backlog = Append(@, c)]
  BY DEF ClientConnects
<1>3. sv.backlog \in Seq(Conns) /\ sv.phase \in [Conns -> Phases] /\ "backlog" \in Phases
  BY <1>1 DEF ServerStates, Phases
<1>4. Append(sv.backlog, c) \in Seq(Conns) /\ [sv.phase EXCEPT ![c] = "backlog"] \in [Conns -> Phases]
  BY <1>3
<1> HIDE DEF sv, tv
<1>5. tv \in ServerStates
  BY <1>1, <1>2, <1>4 DEF ServerStates
<1>6. SameServer(sv, tv)
  BY <1>1, <1>2 DEF SameServer, ServerStates
<1>7. /\ SetPhase(sv.phase, c, "backlog", tv.phase) /\ tv.backlog = Append(sv.backlog, c)
      /\ tv.handling = sv.handling
  BY <1>1, <1>2 DEF SetPhase, ServerStates
<1>8. BacklogOK(tv.backlog, tv.phase, tv.handling)
  <2>1. BacklogOK(Append(sv.backlog, c), tv.phase, sv.handling)
    BY <1>1, <1>2, <1>3, <1>7, BacklogGrows
  <2> QED BY <1>7, <2>1
<1>9. Accounted(tv)
  <2>1. sv.phase[c] \in {"none", "backlog"} /\ "backlog" \in {"backlog", "refused"}
    BY <1>2
  <2> QED BY <1>1, <1>5, <1>6, <1>7, <1>8, <2>1, BacklogStep
<1> QED BY <1>9, Primed DEF tv

\* handleRead at the limit: the connection is accepted and closed, or stays in the backlog.
LEMMA AcceptToRefuseKeeps ==
    ASSUME ServerInv, AcceptToRefuse
    PROVE  ServerInv'
<1> DEFINE sv == server
           tv == server'
           c == Head(sv.backlog)
<1>1. Accounted(sv) /\ sv \in ServerStates /\ BacklogOK(sv.backlog, sv.phase, sv.handling)
  BY DEF ServerInv, Accounted
<1>2. /\ sv.handling = "accept"
      /\ \/ tv = [sv EXCEPT !.handling = "open"]
         \/ tv = [sv EXCEPT !.handling = "open", !.backlog = Tail(@), !.phase[c] = "refused"]
  BY DEF AcceptToRefuse
<1> HIDE DEF sv, tv
<1>3. sv.backlog \in Seq(Conns) /\ sv.phase \in [Conns -> Phases] /\ sv.backlog # <<>>
  BY <1>1, <1>2 DEF ServerStates, BacklogOK
<1>4. CASE tv = [sv EXCEPT !.handling = "open"]
  <2>1. tv \in ServerStates
    BY <1>1, <1>4 DEF ServerStates
  <2>2. SameConns(sv, tv) /\ tv.handling = "open" /\ tv.others = sv.others /\ tv.idleFd = sv.idleFd
    BY <1>1, <1>4 DEF ServerStates, SameConns
  <2>3. Accounted(tv)
    BY <1>1, <2>1, <2>2, QuietStep
  <2> QED BY <2>3, Primed DEF tv
<1>5. CASE tv = [sv EXCEPT !.handling = "open", !.backlog = Tail(@), !.phase[c] = "refused"]
  <2> DEFINE p == [sv.phase EXCEPT ![c] = "refused"]
  <2>1. SetPhase(sv.phase, c, "refused", p)
    BY DEF SetPhase
  <2> HIDE DEF p
  <2>2. /\ c \in Conns /\ sv.phase[c] = "backlog"
        /\ Tail(sv.backlog) \in Seq(Conns) /\ BacklogOK(Tail(sv.backlog), p, "open")
    BY <1>1, <1>3, <2>1, BacklogTaken
  <2> HIDE DEF c
  <2>3. p \in [Conns -> Phases]
    BY <1>3, <2>2 DEF p, Phases
  <2>4. tv \in ServerStates
    BY <1>1, <1>5, <2>2, <2>3 DEF ServerStates, p
  <2>5. SameServer(sv, tv)
    BY <1>1, <1>5 DEF SameServer, ServerStates
  <2>6. tv.phase = p /\ tv.backlog = Tail(sv.backlog) /\ tv.handling = "open"
    BY <1>1, <1>5 DEF p, ServerStates
  <2>7. Accounted(tv)
    <3>1. sv.phase[c] \in {"none", "backlog"} /\ "refused" \in {"backlog", "refused"}
      BY <2>2
    <3>2. BacklogOK(tv.backlog, tv.phase, tv.handling) /\ SetPhase(sv.phase, c, "refused", tv.phase)
      BY <2>1, <2>2, <2>6
    <3> QED BY <1>1, <2>2, <2>4, <2>5, <3>1, <3>2, BacklogStep
  <2> QED BY <2>7, Primed DEF tv
<1> QED BY <1>2, <1>4, <1>5

WithBacklog(sv, t) == [sv EXCEPT !.backlog = t]

\* newConnection: the fields that change.
LEMMA NewConnectionStep ==
    ASSUME NEW sv \in ServerStates, RoundRobin(sv.loops, sv.next, sv.accepts),
           NEW c \in Conns, NEW t \in Seq(Conns),
           NEW tv, tv = newConnection(WithBacklog(sv, t), c)
    PROVE  /\ tv \in ServerStates /\ tv.backlog = t /\ tv.map = sv.map \cup {c}
           /\ RoundRobin(tv.loops, tv.next, tv.accepts)
           /\ tv.handling = sv.handling /\ tv.destroyed = sv.destroyed /\ tv.others = sv.others
           /\ tv.idleFd = sv.idleFd /\ tv.touched = sv.touched
           /\ \/ /\ SetPhase(sv.phase, c, "up", tv.phase) /\ SetLoop(sv.loop, c, BaseLoop, tv.loop)
                 /\ tv.functors = sv.functors
              \/ \E l \in IoLoops :
                   /\ SetPhase(sv.phase, c, "new", tv.phase) /\ SetLoop(sv.loop, c, l, tv.loop)
                   /\ Queues(sv.functors, l, <<"established", c>>, tv.functors)
<1> DEFINE uv == WithBacklog(sv, t)
           pick == getNextLoop(uv)
           made == [uv EXCEPT !.next = pick.next, !.loop[c] = pick.loop, !.map = @ \cup {c},
                              !.phase[c] = "new", !.accepts[pick.loop] = @ + 1]
<1>1. /\ tv = IF pick.loop = BaseLoop THEN connectEstablished(made, c)
              ELSE queueInLoop(made, pick.loop, <<"established", c>>)
  BY DEF newConnection
<1>2. /\ uv \in ServerStates /\ uv.loops = sv.loops /\ uv.next = sv.next /\ uv.accepts = sv.accepts
      /\ uv.map = sv.map /\ uv.phase = sv.phase /\ uv.loop = sv.loop /\ uv.functors = sv.functors
      /\ uv.handling = sv.handling /\ uv.destroyed = sv.destroyed /\ uv.others = sv.others
      /\ uv.idleFd = sv.idleFd /\ uv.touched = sv.touched /\ uv.backlog = t
  BY DEF ServerStates, WithBacklog
<1>3. /\ sv.loops \in Seq(IoLoops) /\ sv.next \in Nat /\ sv.accepts \in [Loops -> Nat]
      /\ BaseLoop \in Loops /\ IoLoops \subseteq Loops /\ BaseLoop \notin IoLoops
  BY ServerSizes DEF ServerStates, Loops
<1> HIDE DEF uv
<1> DEFINE a == [sv.accepts EXCEPT ![pick.loop] = @ + 1]
<1>4. /\ pick.loop \in Loops /\ pick.next \in Nat /\ a \in [Loops -> Nat]
      /\ RoundRobin(sv.loops, pick.next, a)
      /\ pick.loop # BaseLoop => pick.loop \in IoLoops
  <2>1. CASE sv.loops = <<>>
    <3>1. pick.loop = BaseLoop /\ pick.next = sv.next
      BY <1>2, <2>1 DEF getNextLoop
    <3>2. a \in [Loops -> Nat]
      BY <1>3, <3>1
    <3>3. RoundRobin(sv.loops, pick.next, a)
      BY <2>1 DEF RoundRobin
    <3> QED BY <1>3, <3>1, <3>2, <3>3
  <2>2. CASE sv.loops # <<>>
    <3>1. /\ pick.loop = sv.loops[sv.next]
          /\ pick.next = IF sv.next >= Len(sv.loops) THEN 1 ELSE sv.next + 1
      BY <1>2, <2>2 DEF getNextLoop
    <3>2. CountsOne(sv.accepts, sv.loops[sv.next], a) /\ GoesOn(sv.loops, sv.next, pick.next)
      BY <3>1 DEF CountsOne, GoesOn
    <3> HIDE DEF pick, a
    <3>3. /\ sv.loops[sv.next] \in IoLoops /\ pick.next \in Nat /\ a \in [Loops -> Nat]
          /\ RoundRobin(sv.loops, pick.next, a)
      BY <1>3, <2>2, <3>1, <3>2, NextInTurn
    <3> QED BY <1>3, <3>1, <3>3
  <2> QED BY <2>1, <2>2
<1> HIDE DEF pick
<1>5. /\ made.loops = sv.loops /\ made.next = pick.next /\ made.accepts = a
      /\ made.map = sv.map \cup {c} /\ SetPhase(sv.phase, c, "new", made.phase)
      /\ SetLoop(sv.loop, c, pick.loop, made.loop) /\ made.functors = sv.functors
      /\ made.handling = sv.handling /\ made.destroyed = sv.destroyed /\ made.others = sv.others
      /\ made.idleFd = sv.idleFd /\ made.touched = sv.touched /\ made.backlog = t
  BY <1>2 DEF ServerStates, SetPhase, SetLoop
<1>6. made \in ServerStates
  <2>1. [uv.loop EXCEPT ![c] = pick.loop] \in [Conns -> Loops]
    BY <1>2, <1>4 DEF ServerStates
  <2>2. [uv.phase EXCEPT ![c] = "new"] \in [Conns -> Phases] /\ uv.map \cup {c} \in SUBSET Conns
    BY <1>2 DEF ServerStates, Phases
  <2>3. [uv.accepts EXCEPT ![pick.loop] = @ + 1] \in [Loops -> Nat]
    BY <1>2, <1>4
  <2> QED BY <1>2, <1>4, <2>1, <2>2, <2>3 DEF ServerStates
<1> HIDE DEF made, a
<1>7. CASE pick.loop = BaseLoop
  <2>1. tv = WithPhase(made, c, "up") /\ "up" \in Phases
    BY <1>1, <1>7 DEF connectEstablished, WithPhase, Phases
  <2>2. /\ tv \in ServerStates /\ SameRest(made, tv) /\ tv.touched = made.touched
        /\ SetPhase(made.phase, c, "up", tv.phase) /\ tv.map = made.map
        /\ tv.functors = made.functors
    BY <1>6, <2>1, PhaseStep
  <2>3. SetPhase(sv.phase, c, "up", tv.phase)
    <3>1. sv.phase \in [Conns -> Phases]
      BY DEF ServerStates
    <3> QED BY <1>5, <2>2, <3>1 DEF SetPhase
  <2>4. SetLoop(sv.loop, c, BaseLoop, tv.loop)
    BY <1>5, <1>7, <2>2 DEF SameRest
  <2>5. /\ tv.loops = made.loops /\ tv.next = made.next /\ tv.accepts = made.accepts
        /\ tv.handling = made.handling /\ tv.destroyed = made.destroyed
        /\ tv.others = made.others /\ tv.idleFd = made.idleFd /\ tv.backlog = made.backlog
    BY <2>2 DEF SameRest
  <2> QED BY <1>4, <1>5, <2>2, <2>3, <2>4, <2>5
<1>8. CASE pick.loop # BaseLoop
  <2> DEFINE f == <<"established", c>>
  <2>1. tv = queueInLoop(made, pick.loop, f) /\ f \in Functors
    BY <1>1, <1>8, Pairs
  <2> HIDE DEF f
  <2>2. /\ tv \in ServerStates /\ SameRest(made, tv) /\ tv.touched = made.touched
        /\ tv.phase = made.phase /\ tv.map = made.map
        /\ Queues(made.functors, pick.loop, f, tv.functors)
    BY <1>4, <1>6, <2>1, QueueStep
  <2>3. /\ tv.loops = made.loops /\ tv.next = made.next /\ tv.accepts = made.accepts
        /\ tv.handling = made.handling /\ tv.destroyed = made.destroyed /\ tv.loop = made.loop
        /\ tv.others = made.others /\ tv.idleFd = made.idleFd /\ tv.backlog = made.backlog
    BY <2>2 DEF SameRest
  <2>4. /\ pick.loop \in IoLoops /\ SetPhase(sv.phase, c, "new", tv.phase)
        /\ SetLoop(sv.loop, c, pick.loop, tv.loop)
        /\ Queues(sv.functors, pick.loop, <<"established", c>>, tv.functors)
    BY <1>4, <1>5, <1>8, <2>2, <2>3 DEF f
  <2> QED BY <1>4, <1>5, <2>2, <2>3, <2>4
<1> QED BY <1>7, <1>8

\* handleRead accepts: a descriptor was free, and a connection is new.
LEMMA AcceptKeeps ==
    ASSUME ServerInv, Accept
    PROVE  ServerInv'
<1> DEFINE sv == server
           tv == server'
           c == Head(sv.backlog)
           t == Tail(sv.backlog)
<1>1. /\ Accounted(sv) /\ ~sv.touched /\ FreeFds(sv) > 0 /\ sv.backlog # <<>>
      /\ sv.handling = "no"
      /\ tv = newConnection([sv EXCEPT !.backlog = Tail(@)], c)
  BY DEF ServerInv, Accept, Ready, CanServe
<1>2. tv = newConnection(WithBacklog(sv, t), c)
  BY <1>1 DEF WithBacklog
<1> HIDE DEF sv, tv
<1>3. /\ sv \in ServerStates /\ BacklogOK(sv.backlog, sv.phase, sv.handling)
      /\ RoundRobin(sv.loops, sv.next, sv.accepts)
  BY <1>1 DEF Accounted
<1>4. /\ State(sv.phase, sv.loop, sv.map, sv.functors, sv.destroyed)
      /\ sv.phase \in [Conns -> Phases] /\ sv.backlog \in Seq(Conns) /\ sv.others \in Nat
      /\ sv.functors \in [Loops -> Seq(Functors)]
  BY <1>1, AccountedIs
<1>5. Fds(OpenOf(sv.phase, sv.functors), sv.others, sv.idleFd) > 0
  BY <1>1, <1>4, FreeFdsIs
<1>6. c \in Conns /\ sv.phase[c] = "backlog" /\ t \in Seq(Conns)
  <2> DEFINE p == [sv.phase EXCEPT ![c] = "up"]
  <2>1. SetPhase(sv.phase, c, "up", p) /\ "no" \in {"no", "open"}
    BY DEF SetPhase
  <2> HIDE DEF p
  <2> QED BY <1>1, <1>3, <1>4, <2>1, BacklogTaken
<1> HIDE DEF c, t
<1>7. /\ tv \in ServerStates /\ tv.backlog = t /\ tv.map = sv.map \cup {c}
      /\ RoundRobin(tv.loops, tv.next, tv.accepts)
      /\ tv.handling = sv.handling /\ tv.destroyed = sv.destroyed /\ tv.others = sv.others
      /\ tv.idleFd = sv.idleFd /\ tv.touched = sv.touched
      /\ \/ /\ SetPhase(sv.phase, c, "up", tv.phase) /\ SetLoop(sv.loop, c, BaseLoop, tv.loop)
            /\ tv.functors = sv.functors
         \/ \E l \in IoLoops :
              /\ SetPhase(sv.phase, c, "new", tv.phase) /\ SetLoop(sv.loop, c, l, tv.loop)
              /\ Queues(sv.functors, l, <<"established", c>>, tv.functors)
  BY <1>2, <1>3, <1>6, NewConnectionStep
<1>8. BacklogOK(tv.backlog, tv.phase, tv.handling)
  <2>1. PICK x : SetPhase(sv.phase, c, x, tv.phase)
    BY <1>7
  <2>2. "no" \in {"no", "open"}
    OBVIOUS
  <2>3. BacklogOK(t, tv.phase, "no")
    BY <1>1, <1>3, <1>4, <2>1, <2>2, BacklogTaken DEF c, t
  <2> QED BY <1>1, <1>7, <2>3
<1>9. /\ State(tv.phase, tv.loop, sv.map \cup {c}, tv.functors, sv.destroyed)
      /\ OpenOf(tv.phase, tv.functors) \subseteq OpenOf(sv.phase, sv.functors) \cup {c}
  <2>1. CASE /\ SetPhase(sv.phase, c, "up", tv.phase) /\ SetLoop(sv.loop, c, BaseLoop, tv.loop)
             /\ tv.functors = sv.functors
    BY <1>4, <1>6, <2>1, AcceptedHere
  <2>2. CASE \E l \in IoLoops :
               /\ SetPhase(sv.phase, c, "new", tv.phase) /\ SetLoop(sv.loop, c, l, tv.loop)
               /\ Queues(sv.functors, l, <<"established", c>>, tv.functors)
    <3>1. PICK l \in IoLoops :
               /\ SetPhase(sv.phase, c, "new", tv.phase) /\ SetLoop(sv.loop, c, l, tv.loop)
               /\ Queues(sv.functors, l, <<"established", c>>, tv.functors)
      BY <2>2
    <3>2. l \in Loops /\ l # BaseLoop
      BY ServerSizes DEF Loops
    <3>3. /\ State(sv.phase, sv.loop, sv.map, sv.functors, sv.destroyed)
          /\ c \in Conns /\ sv.phase[c] = "backlog"
      BY <1>4, <1>6
    <3> DEFINE f == <<"established", c>>
    <3>4. f = <<"established", c>> /\ Queues(sv.functors, l, f, tv.functors)
      BY <3>1
    <3> HIDE DEF f
    <3> QED BY ONLY <3>1, <3>2, <3>3, <3>4, AcceptedThere
  <2> QED BY <1>7, <2>1, <2>2
<1>10. Fds(OpenOf(tv.phase, tv.functors), sv.others, sv.idleFd) >= 0
  BY <1>4, <1>5, <1>9, FdsTaken
<1>11. FreeFds(tv) >= 0
  <2>1. tv.functors \in [Loops -> Seq(Functors)]
    BY <1>7 DEF ServerStates
  <2> QED BY <1>7, <1>10, <2>1, FreeFdsIs
<1>12. ConnsOK(tv.phase, tv.loop, tv.map, tv.functors, tv.destroyed)
  BY <1>7, <1>9 DEF State
<1>13. Accounted(tv)
  BY <1>7, <1>8, <1>11, <1>12 DEF Accounted
<1> QED BY <1>13, Primed DEF tv

\* ~TcpServer queues connectDestroyed in every loop of the pool, behind what is there.
LEMMA DestroyQueues ==
    ASSUME NEW sv \in ServerStates, State(sv.phase, sv.loop, sv.map, sv.functors, sv.destroyed),
           NEW q, q = [l \in Loops |-> IF l = BaseLoop THEN sv.functors[l]
                                       ELSE sv.functors[l] \o DestroyFunctors(sv, l)]
    PROVE  AllQueued(sv.loop, sv.map, sv.functors, q)
<1> DEFINE fs == sv.functors
<1>1. sv.map \in SUBSET Conns /\ fs \in [Loops -> Seq(Functors)]
  BY DEF ServerStates
<1>2. /\ Tidy(fs)
      /\ \A k \in Loops : \A g \in ToSet(fs[k]) :
           FunctorOK(sv.phase, sv.loop, sv.map, sv.destroyed, k, g)
  BY TidyQueues DEF State, ConnsOK
<1>3. ASSUME NEW l \in Loops
      PROVE  /\ q[l] \in Seq(Functors) /\ Distinct(q[l]) /\ Ordered(q[l])
             /\ \A f : f \in ToSet(q[l])
                  <=> \/ f \in ToSet(fs[l])
                      \/ l # BaseLoop /\ \E c \in sv.map : sv.loop[c] = l /\ f = <<"destroyed", c>>
  <2>1. fs[l] \in Seq(Functors) /\ Distinct(fs[l]) /\ Ordered(fs[l])
    BY <1>2 DEF Tidy
  <2>2. CASE l = BaseLoop
    <3>1. q[l] = fs[l]
      BY <2>2
    <3> QED BY <2>1, <2>2, <3>1
  <2>3. CASE l # BaseLoop
    <3> DEFINE t == DestroyFunctors(sv, l)
               left == LeftIn(sv, l)
    <3>1. q[l] = fs[l] \o t
      BY <2>3
    <3>2. left \in SUBSET Conns /\ \A c : c \in left <=> c \in sv.map /\ sv.loop[c] = l
      BY <1>1 DEF LeftIn
    <3>3. IsFiniteSet(left)
      BY <3>2, ServerSizes, FS_Subset
    <3>4. /\ t \in Seq(Functors) /\ Distinct(t)
          /\ \A f : f \in ToSet(t) <=> \E c \in left : f = <<"destroyed", c>>
      BY <3>2, <3>3, DestroyFunctorsAre
    <3> HIDE DEF t, left
    <3>5. ASSUME NEW f \in ToSet(t) PROVE f[1] = "destroyed" /\ f \notin ToSet(fs[l])
      <4>1. PICK c \in left : f = <<"destroyed", c>>
        BY <3>4
      <4>2. f[1] = "destroyed" /\ f[2] = c /\ c \in sv.map
        BY <3>2, <4>1, Pairs
      <4> QED BY <1>2, <4>2 DEF FunctorOK
    <3>6. ToSet(fs[l]) \cap ToSet(t) = {}
      BY <3>5
    <3>7. /\ fs[l] \o t \in Seq(Functors) /\ ToSet(fs[l] \o t) = ToSet(fs[l]) \cup ToSet(t)
          /\ Distinct(fs[l] \o t) /\ Ordered(fs[l] \o t)
      <4> DEFINE s == fs[l]
      <4>1. s \in Seq(Functors) /\ Distinct(s) /\ Ordered(s) /\ ToSet(s) \cap ToSet(t) = {}
        BY <2>1, <3>6
      <4> HIDE DEF s
      <4>2. /\ s \o t \in Seq(Functors) /\ ToSet(s \o t) = ToSet(s) \cup ToSet(t)
            /\ Distinct(s \o t) /\ Ordered(s \o t)
        BY <3>4, <3>5, <4>1, ConcatQueue
      <4> QED BY <4>2 DEF s
    <3>8. \A f : f \in ToSet(t) <=> \E c \in sv.map : sv.loop[c] = l /\ f = <<"destroyed", c>>
      BY <3>2, <3>4
    <3> HIDE DEF fs
    <3> QED BY <2>3, <3>1, <3>7, <3>8
  <2> QED BY <2>2, <2>3
<1>4. q \in [Loops -> Seq(Functors)]
  <2>1. DOMAIN q = Loops /\ q = [l \in Loops |-> q[l]]
    OBVIOUS
  <2> QED BY <1>3, <2>1
<1> QED BY <1>3, <1>4 DEF AllQueued, Tidy

\* The server is destroyed.
LEMMA DestroyKeeps ==
    ASSUME ServerInv, destroy
    PROVE  ServerInv'
<1> DEFINE sv == server
           tv == server'
           p == [c \in Conns |-> IF c \in LeftIn(sv, BaseLoop) THEN "gone" ELSE sv.phase[c]]
           q == [l \in Loops |-> IF l = BaseLoop THEN sv.functors[l]
                                 ELSE sv.functors[l] \o DestroyFunctors(sv, l)]
<1>1. /\ Accounted(sv) /\ ~sv.touched /\ sv.handling = "no"
      /\ tv = [DestroyAll(sv) EXCEPT !.destroyed = TRUE, !.map = {}, !.idleFd = FALSE,
                                     !.listening = FALSE]
  BY DEF ServerInv, destroy, CanServe
<1> HIDE DEF sv, tv
<1>2. /\ sv \in ServerStates /\ BacklogOK(sv.backlog, sv.phase, sv.handling)
      /\ RoundRobin(sv.loops, sv.next, sv.accepts)
  BY <1>1 DEF Accounted
<1>3. /\ State(sv.phase, sv.loop, sv.map, sv.functors, sv.destroyed)
      /\ Fds(OpenOf(sv.phase, sv.functors), sv.others, sv.idleFd) >= 0
      /\ sv.phase \in [Conns -> Phases] /\ sv.backlog \in Seq(Conns) /\ sv.others \in Nat
      /\ sv.functors \in [Loops -> Seq(Functors)]
  BY <1>1, AccountedIs
<1>4. DestroyAll(sv) = [sv EXCEPT !.phase = p, !.functors = q]
  BY <1>2, <1>3 DEF DestroyAll, ServerStates
<1>5. AllQueued(sv.loop, sv.map, sv.functors, q)
  BY <1>2, <1>3, DestroyQueues
<1>6. /\ p \in [Conns -> Phases]
      /\ \A c \in Conns : p[c] = IF c \in sv.map /\ sv.loop[c] = BaseLoop THEN "gone" ELSE sv.phase[c]
  <2>1. "gone" \in Phases
    BY DEF Phases
  <2> QED BY <1>3, <2>1 DEF LeftIn
<1> HIDE DEF p, q
<1>7. q \in [Loops -> Seq(Functors)]
  BY <1>5 DEF AllQueued, Tidy
<1>8. /\ State(p, sv.loop, {}, q, TRUE)
      /\ OpenOf(p, q) \subseteq OpenOf(sv.phase, sv.functors)
  BY <1>3, <1>5, <1>6, AllDestroyed
<1>9. tv = [sv EXCEPT !.phase = p, !.functors = q, !.destroyed = TRUE, !.map = {}, !.idleFd = FALSE,
                      !.listening = FALSE]
  BY <1>1, <1>2, <1>4 DEF ServerStates
<1>10. tv \in ServerStates
  BY <1>2, <1>6, <1>7, <1>9 DEF ServerStates
<1>11. /\ tv.phase = p /\ tv.functors = q /\ tv.destroyed = TRUE /\ tv.map = {}
       /\ tv.idleFd = FALSE /\ tv.others = sv.others /\ tv.loop = sv.loop
       /\ tv.backlog = sv.backlog /\ tv.handling = "no" /\ tv.loops = sv.loops
       /\ tv.next = sv.next /\ tv.accepts = sv.accepts
  <2>1. sv.handling = "no"
    BY <1>1
  <2> QED BY ONLY <1>2, <1>9, <2>1, SMTT(30) DEF ServerStates
<1>12. BacklogOK(tv.backlog, tv.phase, tv.handling)
  <2>1. ASSUME NEW c \in Conns, sv.phase[c] = "backlog" PROVE p[c] = "backlog"
    <3>1. c \notin sv.map
      BY <1>3, <2>1 DEF State, ConnsOK, MapOK
    <3> QED BY <1>6, <2>1, <3>1
  <2>2. \A i \in DOMAIN sv.backlog : sv.backlog[i] \in Conns /\ sv.phase[sv.backlog[i]] = "backlog"
    BY <1>2, <1>3 DEF BacklogOK
  <2> QED BY <1>2, <1>11, <2>1, <2>2 DEF BacklogOK
<1>13. Fds(OpenOf(p, q), sv.others, FALSE) >= 0
  BY <1>3, <1>8, FdsKept
<1>14. FreeFds(tv) >= 0
  BY <1>7, <1>11, <1>13, FreeFdsIs
<1>15. Accounted(tv)
  BY <1>2, <1>8, <1>10, <1>11, <1>12, <1>14 DEF Accounted, State
<1> QED BY <1>15, Primed DEF tv

-----------------------------------------------------------------------------
(***************************************************************************)
(* The theorems.                                                           *)
(***************************************************************************)
\* The server starts accounted for: the idle descriptor is one of the Limit.
LEMMA StartAccounted ==
    ASSUME NEW threads \in Seq(IoLoops), Distinct(threads), ServerStart(threads)
    PROVE  ServerInv
<1>1. /\ server.loops = threads /\ server.next = 1 /\ server.backlog = <<>>
      /\ server.phase = [c \in Conns |-> "none"] /\ server.loop = [c \in Conns |-> BaseLoop]
      /\ server.map = {} /\ server.functors = [l \in Loops |-> <<>>] /\ server.idleFd = TRUE
      /\ server.others = 0 /\ server.handling = "no" /\ server.accepts = [l \in Loops |-> 0]
  BY DEF ServerStart, Loops
<1>2. server \in ServerStates
  <2>1. /\ [c \in Conns |-> "none"] \in [Conns -> Phases]
        /\ [c \in Conns |-> BaseLoop] \in [Conns -> Loops]
        /\ [l \in Loops |-> <<>>] \in [Loops -> Seq(Functors)]
        /\ [l \in Loops |-> 0] \in [Loops -> Nat]
        /\ <<>> \in Seq(Conns) /\ {} \in SUBSET Conns /\ {} \in SUBSET Loops /\ 1 \in Nat /\ 0 \in Nat
    BY DEF Phases, Loops
  <2>2. {BaseLoop} \cup IoLoops = Loops
    BY DEF Loops
  <2> QED BY <2>1, <2>2 DEF ServerStart, ServerStates
<1>3. BacklogOK(server.backlog, server.phase, server.handling)
  BY <1>1 DEF BacklogOK, Distinct
<1>4. RoundRobin(server.loops, server.next, server.accepts)
  <2>1. Len(threads) \in Nat /\ DOMAIN threads = 1 .. Len(threads)
        /\ (threads # <<>> => Len(threads) # 0)
    OBVIOUS
  <2>2. \A i \in DOMAIN threads : threads[i] \in Loops
    BY DEF Loops
  <2>3. \A i \in DOMAIN threads : server.accepts[threads[i]] = 0
    BY <1>1, <2>2
  <2> QED BY <1>1, <2>1, <2>3 DEF RoundRobin
<1>5. \A l \in Loops : ToSet(server.functors[l]) = {} /\ server.functors[l] = <<>>
  BY <1>1 DEF ToSet
<1>6. ConnsOK(server.phase, server.loop, server.map, server.functors, server.destroyed)
  <2>1. QueuesOK(server.phase, server.loop, server.map, server.functors, server.destroyed)
    <3>1. Distinct(<<>>) /\ Ordered(<<>>)
      BY DEF Distinct, Ordered
    <3> QED BY <1>5, <3>1 DEF QueuesOK
  <2>2. MapOK(server.phase, server.map, server.functors)
    BY <1>1 DEF MapOK
  <2>3. RestOK(server.phase, server.loop, server.map, server.functors, server.destroyed)
    BY <1>1 DEF RestOK
  <2> QED BY <2>1, <2>2, <2>3 DEF ConnsOK
<1>7. FreeFds(server) >= 0
  <2>1. OpenOf(server.phase, server.functors) = {}
    BY <1>1, <1>5 DEF OpenOf
  <2>2. server.functors \in [Loops -> Seq(Functors)]
    BY <1>2 DEF ServerStates
  <2>3. FreeFds(server) = Fds({}, 0, TRUE)
    BY <1>1, <2>1, <2>2, FreeFdsIs
  <2>4. Fds({}, 0, TRUE) >= 0
    BY FS_EmptySet, ServerSizes DEF Fds
  <2> QED BY <2>3, <2>4
<1> QED BY <1>2, <1>3, <1>4, <1>6, <1>7 DEF ServerInv, Accounted

\* Every step of the server keeps the invariant.
LEMMA StepAccounted ==
    ServerInv /\ [ServerNext]_server => ServerInv'
<1> SUFFICES ASSUME ServerInv, [ServerNext]_server PROVE ServerInv'
  OBVIOUS
<1>1. CASE UNCHANGED server
  BY <1>1 DEF ServerInv, Accounted, FreeFds, Open, Queued
<1>2. CASE start \/ CloseIdle \/ OpenIdle \/ OthersOpen \/ OthersClose
  BY <1>2, QuietKeeps
<1>3. CASE Accept
  BY <1>3, AcceptKeeps
<1>4. CASE AcceptToRefuse
  BY <1>4, AcceptToRefuseKeeps
<1>5. CASE destroy
  BY <1>5, DestroyKeeps
<1>6. CASE \E c \in Conns : ClientConnects(c) \/ Close(c)
  BY <1>6, ClientConnectsKeeps, CloseKeeps
<1>7. CASE \E l \in {BaseLoop} \cup IoLoops : RunFunctor(l) \/ LoopQuits(l)
  <2>1. PICK l \in Loops : RunFunctor(l) \/ LoopQuits(l)
    BY <1>7 DEF Loops
  <2> QED BY <2>1, RunFunctorKeeps, QuietKeeps
<1> QED BY <1>1, <1>2, <1>3, <1>4, <1>5, <1>6, <1>7 DEF ServerNext, handleRead

\* The invariant implies the property.
LEMMA InvImpliesAccounted ==
    ServerInv => ConnectionsAccounted
<1> SUFFICES ASSUME ServerInv, ~server.touched PROVE ConnectionsAccounted
  BY DEF ConnectionsAccounted
<1>1. /\ server \in ServerStates /\ RoundRobin(server.loops, server.next, server.accepts)
      /\ ConnsOK(server.phase, server.loop, server.map, server.functors, server.destroyed)
      /\ FreeFds(server) >= 0
  BY DEF ServerInv, Accounted
<1>2. /\ server.functors \in [Loops -> Seq(Functors)] /\ server.loops \in Seq(IoLoops)
      /\ server.accepts \in [Loops -> Nat]
  BY <1>1 DEF ServerStates
<1>3. \A l \in DOMAIN server.functors : \A i, j \in DOMAIN server.functors[l] :
         server.functors[l][i] = server.functors[l][j] => i = j
  BY <1>1, <1>2 DEF ConnsOK, QueuesOK, Distinct
<1>4. \A k, l \in ToSet(server.loops) : server.accepts[k] <= server.accepts[l] + 1
  <2> SUFFICES ASSUME NEW i \in DOMAIN server.loops, NEW j \in DOMAIN server.loops
               PROVE  server.accepts[server.loops[i]] <= server.accepts[server.loops[j]] + 1
    BY DEF ToSet
  <2> DEFINE last == server.loops[Len(server.loops)]
  <2>1. server.loops # <<>> /\ Len(server.loops) \in DOMAIN server.loops
    BY <1>2
  <2>2. server.accepts[last] \in Nat
    BY <1>2, <2>1 DEF Loops
  <2>3. /\ server.accepts[server.loops[i]] = server.accepts[last] + (IF i < server.next THEN 1 ELSE 0)
        /\ server.accepts[server.loops[j]] = server.accepts[last] + (IF j < server.next THEN 1 ELSE 0)
    BY <1>1, <2>1 DEF RoundRobin
  <2> HIDE DEF last
  <2> QED BY <2>2, <2>3
<1>5. ASSUME NEW c \in Conns, <<"remove", c>> \in ToSet(server.functors[BaseLoop])
      PROVE  c \in server.map \/ server.destroyed
  <2>1. <<"remove", c>>[1] = "remove" /\ <<"remove", c>>[2] = c /\ BaseLoop \in Loops
    BY DEF Loops
  <2> QED BY <1>1, <1>5, <2>1 DEF ConnsOK, QueuesOK, FunctorOK
<1> QED BY <1>1, <1>3, <1>4, <1>5 DEF ConnectionsAccounted, ConnsOK, MapOK, RestOK

\* ConnectionsAccounted holds for any number of connections and loops and any limit: connections_
\* and the queues agree about every connection, no functor is queued twice, a queued removal
\* finds its connection, descriptors never exceed the limit, and the pool's loops take turns, however accepts, closes, functors and the
\* destructor interleave.
THEOREM ConnectionsStayAccounted ==
    ASSUME NEW CONSTANT threads \in Seq(IoLoops), Distinct(threads)
    PROVE  ServerStart(threads) /\ [][ServerNext]_server => []ConnectionsAccounted
<1>1. ServerStart(threads) => ServerInv
  BY StartAccounted
<1> QED BY <1>1, StepAccounted, InvImpliesAccounted, PTL

\* The backlog is sound even when the destructor raced with an I/O loop: what handleRead will
\* accept or refuse is there, is there once, and has not been seen before (Acceptor.cc 45-68).
THEOREM BacklogStaysSound ==
    ASSUME NEW CONSTANT threads \in Seq(IoLoops), Distinct(threads)
    PROVE  ServerStart(threads) /\ [][ServerNext]_server
             => [](ServerTypeOK /\ BacklogOK(server.backlog, server.phase, server.handling))
<1>1. ServerStart(threads) => ServerInv
  BY StartAccounted
<1>2. ServerInv => ServerTypeOK /\ BacklogOK(server.backlog, server.phase, server.handling)
  BY DEF ServerInv, Accounted, ServerTypeOK
<1> QED BY <1>1, <1>2, StepAccounted, PTL


-----------------------------------------------------------------------------
(***************************************************************************)
(* The way of a request: a good one is taken, is queued, is a worker's     *)
(* task, waits in the loop as a functor, and is written.                   *)
(***************************************************************************)
Once(s) == \A i, j \in 1 .. Len(s) : (s[i] = s[j] /\ s[i] # 0) => i = j
Rising(s) == \A i, j \in 1 .. Len(s) : (i < j /\ s[i] # 0 /\ s[j] # 0) => s[i] < s[j]
Below(A, B) == \A x \in A, y \in B : x < y
Tasks(task) == {task[w] : w \in Workers} \ {NoTask}
Given(new, task, w, x) == new = [task EXCEPT ![w] = x]
OwnTasks(task) == \A v, w \in Workers : (task[v] = task[w] /\ task[v] # NoTask) => v = w

\* The requests T that were taken are at one stage each: answered O, with the loop F, with the
\* workers W or queued Q.  None is lost while the connection is up, and with one worker at most
\* they keep their order and leave no gap.
InLine(O, F, W, Q) ==
    /\ Below(O, F) /\ Below(O, W) /\ Below(O, Q) /\ Below(F, W) /\ Below(F, Q) /\ Below(W, Q)
    /\ \A x, y \in W : x = y
NoGap(T, O, F, fin) ==
    /\ \A m \in T, n \in O : m < n => m \in O
    /\ ~fin => \A m \in T, n \in F : m < n => m \in O \cup F
Apart(O, F, W, Q) ==
    /\ O \cap F = {} /\ O \cap W = {} /\ O \cap Q = {} /\ F \cap W = {} /\ F \cap Q = {} /\ W \cap Q = {}
Stages(T, O, F, W, Q, connected, fin, one) ==
    /\ T \subseteq Nat /\ Apart(O, F, W, Q) /\ O \cup F \cup W \cup Q \subseteq T
    /\ connected => ~fin /\ T \subseteq O \cup F \cup W \cup Q
    /\ one => InLine(O, F, W, Q) /\ NoGap(T, O, F, fin)

Moving(t, o, f, k, q, connected, fin, one) ==
    /\ t \in Seq(Nat) /\ o \in Seq(Nat) /\ f \in Seq(Nat) /\ q \in Seq(Nat)
    /\ k \in [Workers -> Nat \cup {NoTask}]
    /\ Rising(t) /\ 0 \notin ToSet(t)
    /\ Once(o) /\ Once(f) /\ Once(q)
    /\ one => Rising(o) /\ Rising(f) /\ Rising(q)
    /\ OwnTasks(k)
    /\ Stages(ToSet(t), ToSet(o) \ {0}, ToSet(f), Tasks(k), ToSet(q), connected, fin, one)

-----------------------------------------------------------------------------
(***************************************************************************)
(* The stages, as sets.                                                    *)
(***************************************************************************)
\* The loop solves a new request and writes the answer.
LEMMA StageHere ==
    ASSUME NEW T, NEW O, NEW fin, NEW one, Stages(T, O, {}, {}, {}, TRUE, fin, one),
           NEW n \in Nat, \A m \in T : m < n
    PROVE  Stages(T \cup {n}, O \cup {n}, {}, {}, {}, TRUE, fin, one)
BY DEF Stages, Apart, InLine, NoGap, Below

\* A new request comes after the shutdown.
LEMMA StageLost ==
    ASSUME NEW T, NEW O, NEW F, NEW W, NEW Q, NEW fin, NEW one, Stages(T, O, F, W, Q, FALSE, fin, one),
           NEW n \in Nat, \A m \in T : m < n
    PROVE  Stages(T \cup {n}, O, F, W, Q, FALSE, fin, one)
<1>1. O \cup F \cup W \cup Q \subseteq T /\ T \subseteq Nat
  BY DEF Stages
<1>2. \A m \in T \cup {n}, k \in T : m < k => m \in T
  BY <1>1
<1>3. one => NoGap(T \cup {n}, O, F, fin)
  <2> SUFFICES ASSUME one PROVE NoGap(T \cup {n}, O, F, fin)
    OBVIOUS
  <2>1. NoGap(T, O, F, fin)
    BY DEF Stages
  <2> QED BY <1>1, <1>2, <2>1 DEF NoGap
<1> QED BY <1>1, <1>3 DEF Stages

\* A new request is queued.
LEMMA StageQueued ==
    ASSUME NEW T, NEW O, NEW F, NEW W, NEW Q, NEW c, NEW fin, NEW one, Stages(T, O, F, W, Q, c, fin, one),
           NEW n \in Nat, \A m \in T : m < n
    PROVE  Stages(T \cup {n}, O, F, W, Q \cup {n}, c, fin, one)
<1>1. O \cup F \cup W \cup Q \subseteq T /\ T \subseteq Nat /\ n \notin T
  BY DEF Stages
<1>2. Apart(O, F, W, Q \cup {n})
  BY <1>1 DEF Stages, Apart
<1>3. \A m \in T \cup {n}, k \in T : m < k => m \in T
  BY <1>1
<1>4. one => NoGap(T \cup {n}, O, F, fin)
  <2> SUFFICES ASSUME one PROVE NoGap(T \cup {n}, O, F, fin)
    OBVIOUS
  <2>1. NoGap(T, O, F, fin)
    BY DEF Stages
  <2> QED BY <1>1, <1>3, <2>1 DEF NoGap
<1>5. one => InLine(O, F, W, Q \cup {n})
  <2> SUFFICES ASSUME one PROVE InLine(O, F, W, Q \cup {n})
    OBVIOUS
  <2>1. InLine(O, F, W, Q)
    BY DEF Stages
  <2> QED BY <1>1, <2>1 DEF InLine, Below
<1> QED BY <1>1, <1>2, <1>4, <1>5 DEF Stages

\* A worker takes the first of the queue.
LEMMA StageTaken ==
    ASSUME NEW T, NEW O, NEW F, NEW W, NEW Q, NEW c, NEW fin, NEW one, Stages(T, O, F, W, Q, c, fin, one),
           NEW x \in Q, one => W = {} /\ \A y \in Q : x = y \/ x < y
    PROVE  Stages(T, O, F, W \cup {x}, Q \ {x}, c, fin, one)
BY DEF Stages, Apart, InLine, NoGap, Below

\* A worker hands its answer to the loop.
LEMMA StageSolved ==
    ASSUME NEW T, NEW O, NEW F, NEW W, NEW Q, NEW fin, NEW one, Stages(T, O, F, W, Q, TRUE, fin, one),
           NEW x \in W
    PROVE  Stages(T, O, F \cup {x}, W \ {x}, Q, TRUE, fin, one)
<1>1. O \cup F \cup W \cup Q \subseteq T /\ T \subseteq O \cup F \cup W \cup Q /\ T \subseteq Nat
      /\ ~fin /\ Apart(O, F, W, Q)
  BY DEF Stages
<1>2. Apart(O, F \cup {x}, W \ {x}, Q)
  BY <1>1 DEF Apart
<1>3. ASSUME one PROVE InLine(O, F \cup {x}, W \ {x}, Q) /\ NoGap(T, O, F \cup {x}, fin)
  <2>1. InLine(O, F, W, Q) /\ NoGap(T, O, F, fin)
    BY <1>3 DEF Stages
  <2>2. W = {x}
    BY <2>1 DEF InLine
  <2>3. InLine(O, F \cup {x}, W \ {x}, Q)
    BY <2>1, <2>2 DEF InLine, Below
  <2>4. ASSUME NEW m \in T, m < x PROVE m \in O \cup F
    <3>0. m \in Nat /\ x \in Nat
      BY <1>1
    <3>1. m \notin Q
      <4>1. m \in Q => x < m
        BY <2>1 DEF InLine, Below
      <4> QED BY <2>4, <3>0, <4>1
    <3>2. m # x
      BY <2>4, <3>0
    <3> QED BY <1>1, <2>2, <3>1, <3>2
  <2>5. \A m \in T, k \in F : m < k => m \in O \cup F
    BY <1>1, <2>1 DEF NoGap
  <2>6. \A m \in T, k \in O : m < k => m \in O
    BY <2>1 DEF NoGap
  <2> QED BY <2>3, <2>4, <2>5, <2>6 DEF NoGap
<1> QED BY <1>1, <1>2, <1>3 DEF Stages

\* A worker has an answer that nobody wants any more.
LEMMA StageUnwanted ==
    ASSUME NEW T, NEW O, NEW F, NEW W, NEW Q, NEW fin, NEW one, Stages(T, O, F, W, Q, FALSE, fin, one),
           NEW x \in W
    PROVE  Stages(T, O, F, W \ {x}, Q, FALSE, fin, one)
BY DEF Stages, Apart, InLine, NoGap, Below

\* The loop writes the first answer that was handed to it.
LEMMA StageSent ==
    ASSUME NEW T, NEW O, NEW F, NEW W, NEW Q, NEW c, NEW one, Stages(T, O, F, W, Q, c, FALSE, one),
           NEW x \in F, one => \A y \in F : x = y \/ x < y
    PROVE  Stages(T, O \cup {x}, F \ {x}, W, Q, c, FALSE, one)
<1>1. O \cup F \cup W \cup Q \subseteq T /\ T \subseteq Nat /\ Apart(O, F, W, Q)
  BY DEF Stages
<1>2. Apart(O \cup {x}, F \ {x}, W, Q)
  BY <1>1 DEF Apart
<1>3. ASSUME one PROVE InLine(O \cup {x}, F \ {x}, W, Q) /\ NoGap(T, O \cup {x}, F \ {x}, FALSE)
  <2>1. InLine(O, F, W, Q) /\ NoGap(T, O, F, FALSE)
    BY <1>3 DEF Stages
  <2>2. InLine(O \cup {x}, F \ {x}, W, Q)
    BY <1>1, <1>3, <2>1 DEF InLine, Below
  <2>3. \A m \in T, k \in O : m < k => m \in O
    BY <2>1 DEF NoGap
  <2>4. ASSUME NEW m \in T, m < x PROVE m \in O
    <3>1. m \in O \cup F
      BY <2>1, <2>4 DEF NoGap
    <3>0. m \in Nat /\ x \in Nat
      BY <1>1
    <3>2. ~(m = x) /\ ~(x < m)
      BY <2>4, <3>0
    <3> QED BY <1>3, <3>1, <3>2
  <2>5. \A m \in T, k \in F : m < k => m \in (O \cup {x}) \cup (F \ {x})
    BY <2>1 DEF NoGap
  <2>6. \A m \in T, k \in O \cup {x} : m < k => m \in O \cup {x}
    BY <2>3, <2>4
  <2>7. \A m \in T, k \in F \ {x} : m < k => m \in (O \cup {x}) \cup (F \ {x})
    BY <2>5
  <2> QED BY <2>2, <2>6, <2>7 DEF NoGap
<1> QED BY <1>1, <1>2, <1>3 DEF Stages

\* After the FIN it writes nothing.
LEMMA StageAfterFin ==
    ASSUME NEW T, NEW O, NEW F, NEW W, NEW Q, NEW c, NEW one, Stages(T, O, F, W, Q, c, TRUE, one),
           NEW x \in F
    PROVE  Stages(T, O, F \ {x}, W, Q, c, TRUE, one)
BY DEF Stages, Apart, InLine, NoGap, Below

\* The connection is shut down, and so is its writing.
LEMMA StageShut ==
    ASSUME NEW T, NEW O, NEW F, NEW W, NEW Q, NEW c, NEW fin, NEW one, Stages(T, O, F, W, Q, c, fin, one)
    PROVE  Stages(T, O, F, W, Q, FALSE, fin, one) /\ Stages(T, O, F, W, Q, FALSE, TRUE, one)
BY DEF Stages, Apart, InLine, NoGap, Below

-----------------------------------------------------------------------------
(***************************************************************************)
(* The queues, as sequences.                                               *)
(***************************************************************************)
\* push_back.
LEMMA AddLast ==
    ASSUME NEW s \in Seq(Nat), NEW x \in Nat
    PROVE  /\ Append(s, x) \in Seq(Nat) /\ ToSet(Append(s, x)) = ToSet(s) \cup {x}
           /\ Once(s) /\ (x = 0 \/ x \notin ToSet(s)) => Once(Append(s, x))
           /\ Rising(s) /\ (x = 0 \/ \A y \in ToSet(s) : y = 0 \/ y < x) => Rising(Append(s, x))
<1> DEFINE t == Append(s, x)
           n == Len(s)
<1>1. /\ t \in Seq(Nat) /\ Len(t) = n + 1 /\ n \in Nat
      /\ DOMAIN t = 1 .. n + 1 /\ DOMAIN s = 1 .. n
      /\ \A i \in 1 .. n : t[i] = s[i] /\ s[i] \in Nat
      /\ t[n + 1] = x
  OBVIOUS
<1> HIDE DEF t, n
<1>2. \A i \in 1 .. n + 1 : i \in 1 .. n \/ i = n + 1
  BY <1>1
<1>3. \A i \in 1 .. n : s[i] \in ToSet(s)
  BY <1>1 DEF ToSet
<1>4. ToSet(t) = ToSet(s) \cup {x}
  <2>1. ASSUME NEW y \in ToSet(t) PROVE y \in ToSet(s) \cup {x}
    <3>1. PICK i \in 1 .. n + 1 : y = t[i]
      BY <1>1 DEF ToSet
    <3> QED BY <1>1, <1>2, <1>3, <3>1
  <2>2. x \in ToSet(t)
    BY <1>1 DEF ToSet
  <2>3. ASSUME NEW y \in ToSet(s) PROVE y \in ToSet(t)
    <3>1. PICK i \in 1 .. n : y = s[i]
      BY <1>1 DEF ToSet
    <3>2. i \in 1 .. n + 1 /\ y = t[i]
      BY <1>1, <3>1
    <3> QED BY <1>1, <3>2 DEF ToSet
  <2> QED BY <2>1, <2>2, <2>3
<1>5. ASSUME Once(s), x = 0 \/ x \notin ToSet(s) PROVE Once(t)
  <2> SUFFICES ASSUME NEW i \in 1 .. n + 1, NEW j \in 1 .. n + 1, t[i] = t[j], t[i] # 0 PROVE i = j
    BY <1>1 DEF Once
  <2>1. CASE i \in 1 .. n /\ j \in 1 .. n
    BY <1>1, <1>5, <2>1 DEF Once, n
  <2>2. CASE i = n + 1 \/ j = n + 1
    BY <1>1, <1>2, <1>3, <1>5, <2>2
  <2> QED BY <1>2, <2>1, <2>2
<1>6. ASSUME Rising(s), x = 0 \/ \A y \in ToSet(s) : y = 0 \/ y < x PROVE Rising(t)
  <2> SUFFICES ASSUME NEW i \in 1 .. n + 1, NEW j \in 1 .. n + 1, i < j, t[i] # 0, t[j] # 0
               PROVE  t[i] < t[j]
    BY <1>1 DEF Rising
  <2>0. i \in 1 .. n
    BY <1>1
  <2>1. CASE j \in 1 .. n
    BY <1>1, <1>6, <2>0, <2>1 DEF Rising, n
  <2>2. CASE j = n + 1
    BY <1>1, <1>3, <1>6, <2>0, <2>2
  <2> QED BY <1>2, <2>1, <2>2
<1> QED BY <1>1, <1>4, <1>5, <1>6 DEF t

\* The front is taken.
LEMMA TakeFirst ==
    ASSUME NEW s \in Seq(Nat), s # <<>>, 0 \notin ToSet(s), Once(s)
    PROVE  /\ Tail(s) \in Seq(Nat) /\ Head(s) \in Nat /\ Head(s) \in ToSet(s)
           /\ ToSet(Tail(s)) = ToSet(s) \ {Head(s)} /\ Once(Tail(s))
           /\ Rising(s) => Rising(Tail(s)) /\ \A y \in ToSet(s) : Head(s) = y \/ Head(s) < y
<1> DEFINE t == Tail(s)
           n == Len(s)
           x == Head(s)
<1>1. /\ t \in Seq(Nat) /\ Len(t) = n - 1 /\ n \in Nat /\ n > 0
      /\ DOMAIN t = 1 .. n - 1 /\ DOMAIN s = 1 .. n /\ x = s[1]
      /\ \A i \in 1 .. n - 1 : t[i] = s[i + 1]
      /\ \A i \in 1 .. n : s[i] \in Nat
  OBVIOUS
<1> HIDE DEF t, n, x
<1>2. \A i \in 1 .. n : s[i] \in ToSet(s) /\ s[i] # 0
  BY <1>1 DEF ToSet
<1>3. \A i \in 1 .. n - 1 : i + 1 \in 1 .. n
  BY <1>1
<1>4. 1 \in 1 .. n
  BY <1>1
<1>5. \A i, j \in 1 .. n : s[i] = s[j] => i = j
  BY <1>2 DEF Once, n
<1>6. ToSet(t) = ToSet(s) \ {x}
  <2>1. ASSUME NEW y \in ToSet(t) PROVE y \in ToSet(s) \ {x}
    <3>1. PICK i \in 1 .. n - 1 : y = t[i]
      BY <1>1 DEF ToSet
    <3>2. y = s[i + 1] /\ i + 1 \in 1 .. n /\ i + 1 # 1
      BY <1>1, <3>1
    <3> QED BY <1>1, <1>2, <1>4, <1>5, <3>2
  <2>2. ASSUME NEW y \in ToSet(s), y # x PROVE y \in ToSet(t)
    <3>1. PICK i \in 1 .. n : y = s[i]
      BY <1>1 DEF ToSet
    <3>2. i # 1
      BY <1>1, <2>2, <3>1
    <3>3. PICK j : j = i - 1
      OBVIOUS
    <3>4. j \in 1 .. n - 1 /\ j + 1 = i
      BY <1>1, <3>2, <3>3
    <3>5. y = t[j]
      BY <1>1, <3>1, <3>4
    <3> QED BY <1>1, <3>4, <3>5 DEF ToSet
  <2> QED BY <2>1, <2>2
<1>7. Once(t)
  <2> SUFFICES ASSUME NEW i \in 1 .. n - 1, NEW j \in 1 .. n - 1, t[i] = t[j] PROVE i = j
    BY <1>1 DEF Once
  <2>1. i + 1 = j + 1
    BY <1>1, <1>3, <1>5
  <2> QED BY <1>1, <2>1
<1>8. ASSUME Rising(s) PROVE Rising(t) /\ \A y \in ToSet(s) : x = y \/ x < y
  <2>1. \A i, j \in 1 .. n : i < j => s[i] < s[j]
    BY <1>2, <1>8 DEF Rising, n
  <2>2. Rising(t)
    <3> SUFFICES ASSUME NEW i \in 1 .. n - 1, NEW j \in 1 .. n - 1, i < j PROVE t[i] < t[j]
      BY <1>1 DEF Rising
    <3>1. i + 1 \in 1 .. n /\ j + 1 \in 1 .. n /\ i + 1 < j + 1
      BY <1>1
    <3> QED BY <1>1, <2>1, <3>1
  <2>3. ASSUME NEW y \in ToSet(s) PROVE x = y \/ x < y
    <3>1. PICK i \in 1 .. n : y = s[i]
      BY <1>1 DEF ToSet
    <3>2. i = 1 \/ 1 < i
      BY <1>1
    <3> QED BY <1>1, <1>4, <2>1, <3>1, <3>2
  <2> QED BY <2>2, <2>3
<1> QED BY <1>1, <1>2, <1>4, <1>6, <1>7, <1>8 DEF t, x

\* A worker that has no task gets one; and a worker ends its task.
LEMMA GiveTask ==
    ASSUME NEW k \in [Workers -> Nat \cup {NoTask}], NEW w \in Workers, NEW x \in Nat,
           k[w] = NoTask, x \notin Tasks(k),
           OwnTasks(k),
           NEW l, Given(l, k, w, x)
    PROVE  /\ l \in [Workers -> Nat \cup {NoTask}] /\ Tasks(l) = Tasks(k) \cup {x}
           /\ OwnTasks(l)
<1>1. x # NoTask
  BY PoolThreads
<1>2. l \in [Workers -> Nat \cup {NoTask}] /\ l[w] = x /\ \A v \in Workers \ {w} : l[v] = k[v]
  BY DEF Given
<1>3. \A v \in Workers : k[v] # x
  BY <1>1 DEF Tasks
<1>4. Tasks(l) = Tasks(k) \cup {x}
  <2>1. ASSUME NEW y \in Tasks(l) PROVE y \in Tasks(k) \cup {x}
    <3>1. PICK v \in Workers : y = l[v] /\ y # NoTask
      BY DEF Tasks
    <3> QED BY <1>2, <3>1 DEF Tasks
  <2>2. x \in Tasks(l)
    BY <1>1, <1>2 DEF Tasks
  <2>3. ASSUME NEW y \in Tasks(k) PROVE y \in Tasks(l)
    <3>1. PICK v \in Workers : y = k[v] /\ y # NoTask
      BY DEF Tasks
    <3>2. v # w
      BY <3>1
    <3> QED BY <1>2, <3>1, <3>2 DEF Tasks
  <2> QED BY <2>1, <2>2, <2>3
<1>5. ASSUME NEW u \in Workers, NEW v \in Workers, l[u] = l[v], l[u] # NoTask PROVE u = v
  <2>1. CASE u # w /\ v # w
    BY <1>2, <1>5, <2>1 DEF OwnTasks
  <2>2. CASE u = w \/ v = w
    BY <1>2, <1>3, <1>5, <2>2
  <2> QED BY <2>1, <2>2
<1> QED BY <1>2, <1>4, <1>5 DEF OwnTasks

\* The other way round.
LEMMA EndTask ==
    ASSUME NEW k \in [Workers -> Nat \cup {NoTask}], NEW w \in Workers, k[w] # NoTask,
           OwnTasks(k),
           NEW l, l = [k EXCEPT ![w] = NoTask]
    PROVE  /\ l \in [Workers -> Nat \cup {NoTask}] /\ Tasks(l) = Tasks(k) \ {k[w]} /\ k[w] \in Tasks(k)
           /\ k[w] \in Nat
           /\ OwnTasks(l)
<1>2. l \in [Workers -> Nat \cup {NoTask}] /\ l[w] = NoTask /\ \A v \in Workers \ {w} : l[v] = k[v]
  OBVIOUS
<1>3. k[w] \in Tasks(k) /\ k[w] \in Nat
  BY DEF Tasks
<1>4. Tasks(l) = Tasks(k) \ {k[w]}
  <2>1. ASSUME NEW y \in Tasks(l) PROVE y \in Tasks(k) \ {k[w]}
    <3>1. PICK v \in Workers : y = l[v] /\ y # NoTask
      BY DEF Tasks
    <3>2. v # w /\ y = k[v]
      BY <1>2, <3>1
    <3>3. y \in Tasks(k)
      BY <3>1, <3>2 DEF Tasks
    <3>4. y # k[w]
      BY <3>1, <3>2 DEF OwnTasks
    <3> QED BY <3>3, <3>4
  <2>3. ASSUME NEW y \in Tasks(k), y # k[w] PROVE y \in Tasks(l)
    <3>1. PICK v \in Workers : y = k[v] /\ y # NoTask
      BY DEF Tasks
    <3>2. v # w
      BY <2>3, <3>1
    <3> QED BY <1>2, <3>1, <3>2 DEF Tasks
  <2> QED BY <2>1, <2>3
<1>5. ASSUME NEW u \in Workers, NEW v \in Workers, l[u] = l[v], l[u] # NoTask PROVE u = v
  BY <1>2, <1>5 DEF OwnTasks
<1> QED BY <1>2, <1>3, <1>4, <1>5 DEF OwnTasks

-----------------------------------------------------------------------------
(***************************************************************************)
(* The steps of a request.                                                 *)
(***************************************************************************)
\* A new request has a greater number.
LEMMA NewRequest ==
    ASSUME NEW t \in Seq(Nat), NEW n \in Nat \ {0}, \A m \in ToSet(t) : m < n, Rising(t), 0 \notin ToSet(t)
    PROVE  /\ Append(t, n) \in Seq(Nat) /\ Rising(Append(t, n)) /\ 0 \notin ToSet(Append(t, n))
           /\ ToSet(Append(t, n)) = ToSet(t) \cup {n}
BY AddLast

\* The loop solves it.
LEMMA MoveHere ==
    ASSUME NEW t, NEW o, NEW f, NEW k, NEW q, NEW fin, NEW one,
           Moving(t, o, f, k, q, TRUE, fin, one), f = <<>>, q = <<>>, Tasks(k) = {},
           NEW n \in Nat \ {0}, \A m \in ToSet(t) : m < n
    PROVE  Moving(Append(t, n), Append(o, n), f, k, q, TRUE, fin, one)
<1>1. /\ t \in Seq(Nat) /\ o \in Seq(Nat) /\ Rising(t) /\ 0 \notin ToSet(t) /\ Once(o)
      /\ ToSet(t) \subseteq Nat /\ ToSet(o) \ {0} \subseteq ToSet(t) /\ (one => Rising(o))
  BY DEF Moving, Stages
<1>2. ToSet(f) = {} /\ ToSet(q) = {}
  BY DEF ToSet
<1>3. PICK a : a = Append(t, n)
  OBVIOUS
<1>4. PICK b : b = Append(o, n)
  OBVIOUS
<1>5. a \in Seq(Nat) /\ Rising(a) /\ 0 \notin ToSet(a) /\ ToSet(a) = ToSet(t) \cup {n}
  BY <1>1, <1>3, NewRequest
<1>6. n \notin ToSet(o) /\ \A y \in ToSet(o) : y = 0 \/ y < n
  BY <1>1
<1>7. b \in Seq(Nat) /\ Once(b) /\ (one => Rising(b)) /\ ToSet(b) = ToSet(o) \cup {n}
  BY <1>1, <1>4, <1>6, AddLast
<1>8. ToSet(b) \ {0} = (ToSet(o) \ {0}) \cup {n}
  BY <1>7
<1>9. PICK O : O = ToSet(o) \ {0}
  OBVIOUS
<1>10. Stages(ToSet(t), O, {}, {}, {}, TRUE, fin, one)
  BY <1>2, <1>9 DEF Moving
<1>11. Stages(ToSet(t) \cup {n}, O \cup {n}, {}, {}, {}, TRUE, fin, one)
  BY <1>10, StageHere
<1>12. Stages(ToSet(a), ToSet(b) \ {0}, ToSet(f), Tasks(k), ToSet(q), TRUE, fin, one)
  BY <1>2, <1>5, <1>8, <1>9, <1>11
<1>13. Moving(a, b, f, k, q, TRUE, fin, one)
  BY <1>5, <1>7, <1>12 DEF Moving
<1> QED BY <1>3, <1>4, <1>13

\* It comes after the shutdown.
LEMMA MoveLost ==
    ASSUME NEW t, NEW o, NEW f, NEW k, NEW q, NEW fin, NEW one,
           Moving(t, o, f, k, q, FALSE, fin, one), NEW n \in Nat \ {0}, \A m \in ToSet(t) : m < n
    PROVE  Moving(Append(t, n), o, f, k, q, FALSE, fin, one)
<1>1. t \in Seq(Nat) /\ Rising(t) /\ 0 \notin ToSet(t)
  BY DEF Moving, Stages
<1>2. PICK a : a = Append(t, n)
  OBVIOUS
<1>3. a \in Seq(Nat) /\ Rising(a) /\ 0 \notin ToSet(a) /\ ToSet(a) = ToSet(t) \cup {n}
  BY <1>1, <1>2, NewRequest
<1>4. Stages(ToSet(t), ToSet(o) \ {0}, ToSet(f), Tasks(k), ToSet(q), FALSE, fin, one)
  BY DEF Moving
<1>5. Stages(ToSet(a), ToSet(o) \ {0}, ToSet(f), Tasks(k), ToSet(q), FALSE, fin, one)
  <2>1. n \in Nat
    OBVIOUS
  <2>2. Stages(ToSet(t) \cup {n}, ToSet(o) \ {0}, ToSet(f), Tasks(k), ToSet(q), FALSE, fin, one)
    BY <1>4, <2>1, StageLost
  <2> QED BY <1>3, <2>2
<1>6. Moving(a, o, f, k, q, FALSE, fin, one)
  BY <1>3, <1>5 DEF Moving
<1> QED BY <1>2, <1>6

\* It is queued for the workers.
LEMMA MoveQueued ==
    ASSUME NEW t, NEW o, NEW f, NEW k, NEW q, NEW c, NEW fin, NEW one,
           Moving(t, o, f, k, q, c, fin, one), NEW n \in Nat \ {0}, \A m \in ToSet(t) : m < n
    PROVE  Moving(Append(t, n), o, f, k, Append(q, n), c, fin, one)
<1>1. /\ t \in Seq(Nat) /\ Rising(t) /\ 0 \notin ToSet(t) /\ q \in Seq(Nat) /\ Once(q)
      /\ ToSet(q) \subseteq ToSet(t) /\ ToSet(t) \subseteq Nat /\ (one => Rising(q))
  BY DEF Moving, Stages
<1>2. PICK a : a = Append(t, n)
  OBVIOUS
<1>3. PICK b : b = Append(q, n)
  OBVIOUS
<1>4. a \in Seq(Nat) /\ Rising(a) /\ 0 \notin ToSet(a) /\ ToSet(a) = ToSet(t) \cup {n}
  BY <1>1, <1>2, NewRequest
<1>5. n \notin ToSet(q) /\ \A y \in ToSet(q) : y < n
  BY <1>1
<1>6. b \in Seq(Nat) /\ Once(b) /\ (one => Rising(b)) /\ ToSet(b) = ToSet(q) \cup {n}
  BY <1>1, <1>3, <1>5, AddLast
<1>7. Stages(ToSet(t), ToSet(o) \ {0}, ToSet(f), Tasks(k), ToSet(q), c, fin, one)
  BY DEF Moving, Stages
<1>8. Stages(ToSet(a), ToSet(o) \ {0}, ToSet(f), Tasks(k), ToSet(b), c, fin, one)
  <2>1. n \in Nat
    OBVIOUS
  <2>2. Stages(ToSet(t) \cup {n}, ToSet(o) \ {0}, ToSet(f), Tasks(k), ToSet(q) \cup {n}, c, fin, one)
    BY <1>7, <2>1, StageQueued
  <2> QED BY <1>4, <1>6, <2>2
<1>9. Moving(a, o, f, k, b, c, fin, one)
  BY <1>4, <1>6, <1>8 DEF Moving
<1> QED BY <1>2, <1>3, <1>9

\* A worker takes the first request that is queued; when there is only one, it has no task.
LEMMA MoveTaken ==
    ASSUME NEW t, NEW o, NEW f, NEW k, NEW q, NEW c, NEW fin, NEW one,
           Moving(t, o, f, k, q, c, fin, one), q # <<>>, NEW w \in Workers, k[w] = NoTask,
           one => Tasks(k) = {}
    PROVE  Moving(t, o, f, [k EXCEPT ![w] = Head(q)], Tail(q), c, fin, one)
<1>1. /\ q \in Seq(Nat) /\ Once(q) /\ 0 \notin ToSet(q) /\ k \in [Workers -> Nat \cup {NoTask}]
      /\ OwnTasks(k)
      /\ one => Rising(q)
      /\ Apart(ToSet(o) \ {0}, ToSet(f), Tasks(k), ToSet(q))
  BY DEF Moving, Stages
<1>2. PICK x : x = Head(q)
  OBVIOUS
<1>3. PICK b : b = Tail(q)
  OBVIOUS
<1>4. PICK l : l = [k EXCEPT ![w] = x]
  OBVIOUS
<1>5. /\ b \in Seq(Nat) /\ x \in Nat /\ x \in ToSet(q) /\ ToSet(b) = ToSet(q) \ {x} /\ Once(b)
      /\ one => Rising(b) /\ \A y \in ToSet(q) : x = y \/ x < y
  BY <1>1, <1>2, <1>3, TakeFirst
<1>6. x \notin Tasks(k)
  BY <1>1, <1>5 DEF Apart
<1>7. /\ l \in [Workers -> Nat \cup {NoTask}] /\ Tasks(l) = Tasks(k) \cup {x}
      /\ OwnTasks(l)
  <2>1. Given(l, k, w, x)
    BY <1>4 DEF Given
  <2> QED BY <1>1, <1>5, <1>6, <2>1, GiveTask
<1>8. Stages(ToSet(t), ToSet(o) \ {0}, ToSet(f), Tasks(k), ToSet(q), c, fin, one)
  BY DEF Moving, Stages
<1>9. Stages(ToSet(t), ToSet(o) \ {0}, ToSet(f), Tasks(k) \cup {x}, ToSet(q) \ {x}, c, fin, one)
  BY <1>5, <1>8, StageTaken
<1>10. Stages(ToSet(t), ToSet(o) \ {0}, ToSet(f), Tasks(l), ToSet(b), c, fin, one)
  BY <1>5, <1>7, <1>9
<1>11. Moving(t, o, f, l, b, c, fin, one)
  BY <1>5, <1>7, <1>10 DEF Moving
<1> QED BY <1>2, <1>3, <1>4, <1>11

\* A worker hands its answer to the loop of the connection.
LEMMA MoveSolved ==
    ASSUME NEW t, NEW o, NEW f, NEW k, NEW q, NEW fin, NEW one,
           Moving(t, o, f, k, q, TRUE, fin, one), NEW w \in Workers, k[w] # NoTask
    PROVE  Moving(t, o, Append(f, k[w]), [k EXCEPT ![w] = NoTask], q, TRUE, fin, one)
<1>1. /\ f \in Seq(Nat) /\ Once(f) /\ k \in [Workers -> Nat \cup {NoTask}]
      /\ OwnTasks(k)
      /\ one => Rising(f) /\ InLine(ToSet(o) \ {0}, ToSet(f), Tasks(k), ToSet(q))
      /\ Apart(ToSet(o) \ {0}, ToSet(f), Tasks(k), ToSet(q))
  BY DEF Moving, Stages
<1>2. PICK x : x = k[w]
  OBVIOUS
<1>3. PICK b : b = Append(f, x)
  OBVIOUS
<1>4. PICK l : l = [k EXCEPT ![w] = NoTask]
  OBVIOUS
<1>5. /\ l \in [Workers -> Nat \cup {NoTask}] /\ Tasks(l) = Tasks(k) \ {x} /\ x \in Tasks(k) /\ x \in Nat
      /\ OwnTasks(l)
  BY <1>1, <1>2, <1>4, EndTask
<1>6. x \notin ToSet(f)
  BY <1>1, <1>5 DEF Apart
<1>7. one => \A y \in ToSet(f) : y < x
  BY <1>1, <1>5 DEF InLine, Below
<1>8. b \in Seq(Nat) /\ Once(b) /\ (one => Rising(b)) /\ ToSet(b) = ToSet(f) \cup {x}
  BY <1>1, <1>3, <1>5, <1>6, <1>7, AddLast
<1>9. Stages(ToSet(t), ToSet(o) \ {0}, ToSet(f), Tasks(k), ToSet(q), TRUE, fin, one)
  BY DEF Moving, Stages
<1>10. Stages(ToSet(t), ToSet(o) \ {0}, ToSet(f) \cup {x}, Tasks(k) \ {x}, ToSet(q), TRUE, fin, one)
  BY <1>5, <1>9, StageSolved
<1>11. Stages(ToSet(t), ToSet(o) \ {0}, ToSet(b), Tasks(l), ToSet(q), TRUE, fin, one)
  BY <1>5, <1>8, <1>10
<1>12. Moving(t, o, b, l, q, TRUE, fin, one)
  BY <1>5, <1>8, <1>11 DEF Moving
<1> QED BY <1>2, <1>3, <1>4, <1>12

\* A worker's answer comes after the shutdown.
LEMMA MoveUnwanted ==
    ASSUME NEW t, NEW o, NEW f, NEW k, NEW q, NEW fin, NEW one,
           Moving(t, o, f, k, q, FALSE, fin, one), NEW w \in Workers, k[w] # NoTask
    PROVE  Moving(t, o, f, [k EXCEPT ![w] = NoTask], q, FALSE, fin, one)
<1>1. /\ k \in [Workers -> Nat \cup {NoTask}]
      /\ OwnTasks(k)
  BY DEF Moving, Stages
<1>2. PICK x : x = k[w]
  OBVIOUS
<1>4. PICK l : l = [k EXCEPT ![w] = NoTask]
  OBVIOUS
<1>5. /\ l \in [Workers -> Nat \cup {NoTask}] /\ Tasks(l) = Tasks(k) \ {x} /\ x \in Tasks(k) /\ x \in Nat
      /\ OwnTasks(l)
  BY <1>1, <1>2, <1>4, EndTask
<1>9. Stages(ToSet(t), ToSet(o) \ {0}, ToSet(f), Tasks(k), ToSet(q), FALSE, fin, one)
  BY DEF Moving, Stages
<1>10. Stages(ToSet(t), ToSet(o) \ {0}, ToSet(f), Tasks(k) \ {x}, ToSet(q), FALSE, fin, one)
  BY <1>5, <1>9, StageUnwanted
<1>11. Stages(ToSet(t), ToSet(o) \ {0}, ToSet(f), Tasks(l), ToSet(q), FALSE, fin, one)
  BY <1>5, <1>10
<1>12. Moving(t, o, f, l, q, FALSE, fin, one)
  BY <1>5, <1>11 DEF Moving
<1> QED BY <1>4, <1>12

\* The loop writes the first answer that it was handed.
LEMMA MoveSent ==
    ASSUME NEW t, NEW o, NEW f, NEW k, NEW q, NEW c, NEW one,
           Moving(t, o, f, k, q, c, FALSE, one), f # <<>>
    PROVE  Moving(t, Append(o, Head(f)), Tail(f), k, q, c, FALSE, one)
<1>1. /\ f \in Seq(Nat) /\ Once(f) /\ 0 \notin ToSet(f) /\ o \in Seq(Nat) /\ Once(o)
      /\ one => Rising(f) /\ Rising(o) /\ InLine(ToSet(o) \ {0}, ToSet(f), Tasks(k), ToSet(q))
      /\ Apart(ToSet(o) \ {0}, ToSet(f), Tasks(k), ToSet(q))
  BY DEF Moving, Stages
<1>2. PICK x : x = Head(f)
  OBVIOUS
<1>3. PICK a : a = Append(o, x)
  OBVIOUS
<1>4. PICK b : b = Tail(f)
  OBVIOUS
<1>5. /\ b \in Seq(Nat) /\ x \in Nat /\ x \in ToSet(f) /\ ToSet(b) = ToSet(f) \ {x} /\ Once(b)
      /\ one => Rising(b) /\ \A y \in ToSet(f) : x = y \/ x < y
  BY <1>1, <1>2, <1>4, TakeFirst
<1>6. x # 0 /\ x \notin ToSet(o)
  BY <1>1, <1>5 DEF Apart
<1>7. one => \A y \in ToSet(o) : y = 0 \/ y < x
  BY <1>1, <1>5 DEF InLine, Below
<1>8. a \in Seq(Nat) /\ Once(a) /\ (one => Rising(a)) /\ ToSet(a) = ToSet(o) \cup {x}
  BY <1>1, <1>3, <1>5, <1>6, <1>7, AddLast
<1>9. ToSet(a) \ {0} = (ToSet(o) \ {0}) \cup {x}
  BY <1>6, <1>8
<1>10. Stages(ToSet(t), ToSet(o) \ {0}, ToSet(f), Tasks(k), ToSet(q), c, FALSE, one)
  BY DEF Moving, Stages
<1>11. Stages(ToSet(t), (ToSet(o) \ {0}) \cup {x}, ToSet(f) \ {x}, Tasks(k), ToSet(q), c, FALSE, one)
  BY <1>5, <1>10, StageSent
<1>12. Stages(ToSet(t), ToSet(a) \ {0}, ToSet(b), Tasks(k), ToSet(q), c, FALSE, one)
  BY <1>5, <1>9, <1>11
<1>13. Moving(t, a, b, k, q, c, FALSE, one)
  BY <1>5, <1>8, <1>12 DEF Moving
<1> QED BY <1>2, <1>3, <1>4, <1>13

\* After the FIN it drops it.
LEMMA MoveAfterFin ==
    ASSUME NEW t, NEW o, NEW f, NEW k, NEW q, NEW c, NEW one,
           Moving(t, o, f, k, q, c, TRUE, one), f # <<>>
    PROVE  Moving(t, o, Tail(f), k, q, c, TRUE, one)
<1>1. f \in Seq(Nat) /\ Once(f) /\ 0 \notin ToSet(f) /\ (one => Rising(f))
  BY DEF Moving, Stages
<1>2. PICK x : x = Head(f)
  OBVIOUS
<1>4. PICK b : b = Tail(f)
  OBVIOUS
<1>5. /\ b \in Seq(Nat) /\ x \in Nat /\ x \in ToSet(f) /\ ToSet(b) = ToSet(f) \ {x} /\ Once(b)
      /\ one => Rising(b)
  BY <1>1, <1>2, <1>4, TakeFirst
<1>10. Stages(ToSet(t), ToSet(o) \ {0}, ToSet(f), Tasks(k), ToSet(q), c, TRUE, one)
  BY DEF Moving, Stages
<1>11. Stages(ToSet(t), ToSet(o) \ {0}, ToSet(f) \ {x}, Tasks(k), ToSet(q), c, TRUE, one)
  BY <1>5, <1>10, StageAfterFin
<1>12. Stages(ToSet(t), ToSet(o) \ {0}, ToSet(b), Tasks(k), ToSet(q), c, TRUE, one)
  BY <1>5, <1>11
<1>13. Moving(t, o, b, k, q, c, TRUE, one)
  BY <1>5, <1>12 DEF Moving
<1> QED BY <1>4, <1>13

\* A line is refused: the connection is shut down, perhaps after a last answer.
LEMMA MoveRefused ==
    ASSUME NEW t, NEW o, NEW f, NEW k, NEW q, NEW c, NEW fin, NEW one,
           Moving(t, o, f, k, q, c, fin, one)
    PROVE  /\ Moving(t, o, f, k, q, FALSE, fin, one) /\ Moving(t, o, f, k, q, FALSE, TRUE, one)
           /\ Moving(t, Append(o, 0), f, k, q, FALSE, fin, one)
<1>1. /\ Stages(ToSet(t), ToSet(o) \ {0}, ToSet(f), Tasks(k), ToSet(q), c, fin, one)
      /\ o \in Seq(Nat) /\ Once(o) /\ (one => Rising(o))
  BY DEF Moving, Stages
<1>2. /\ Stages(ToSet(t), ToSet(o) \ {0}, ToSet(f), Tasks(k), ToSet(q), FALSE, fin, one)
      /\ Stages(ToSet(t), ToSet(o) \ {0}, ToSet(f), Tasks(k), ToSet(q), FALSE, TRUE, one)
  BY <1>1, StageShut
<1>3. Moving(t, o, f, k, q, FALSE, fin, one) /\ Moving(t, o, f, k, q, FALSE, TRUE, one)
  BY <1>2 DEF Moving
<1>4. PICK a : a = Append(o, 0)
  OBVIOUS
<1>5. a \in Seq(Nat) /\ Once(a) /\ (one => Rising(a)) /\ ToSet(a) = ToSet(o) \cup {0}
  BY <1>1, <1>4, AddLast
<1>6. ToSet(a) \ {0} = ToSet(o) \ {0}
  BY <1>5
<1>7. Stages(ToSet(t), ToSet(a) \ {0}, ToSet(f), Tasks(k), ToSet(q), FALSE, fin, one)
  BY <1>2, <1>6
<1>8. Moving(t, a, f, k, q, FALSE, fin, one)
  BY <1>5, <1>7 DEF Moving
<1> QED BY <1>3, <1>4, <1>8

-----------------------------------------------------------------------------
(***************************************************************************)
(* The stream of a client: tokens, in which the requests are numbered in   *)
(* order.                                                                  *)
(***************************************************************************)
Tokens ==
    {CR, LF} \cup [text : {"request"}, n : Nat \ {0}, hasId : BOOLEAN, puzzle : Nat, size : Nat]
Numbered(s) ==
    \A i, j \in 1 .. Len(s) : (i < j /\ s[i].text = "request" /\ s[j].text = "request") => s[i].n < s[j].n

\* What was not parsed yet is the end of what was sent, and what was taken came before; with ids,
\* if they are wanted.
Behind(sent, taken, ids, p) ==
    \A x \in ToSet(taken) : \E i \in 1 .. p :
        sent[i].text = "request" /\ sent[i].n = x /\ (ids => sent[i].hasId)
Place(sent, input, wire, p) ==
    /\ Len(sent) = p + Len(input) + Len(wire)
    /\ \A i \in 1 .. Len(input) : input[i] = sent[p + i]
    /\ \A i \in 1 .. Len(wire) : wire[i] = sent[p + Len(input) + i]
Stream(sent, input, wire, taken, ids) ==
    \E p \in Nat : Place(sent, input, wire, p) /\ Behind(sent, taken, ids, p)

Joined(u, s, t) ==
    /\ u \in Seq(Tokens) /\ Len(u) = Len(s) + Len(t)
    /\ \A i \in 1 .. Len(s) : u[i] = s[i]
    /\ \A i \in 1 .. Len(t) : u[Len(s) + i] = t[i]

\* There is a first CR LF if there is any.
LEMMA FirstCRLF ==
    ASSUME NEW s \in Seq(Tokens), findCRLF(s) # 0
    PROVE  findCRLF(s) \in 1 .. Len(s) - 1
<1> DEFINE places == {i \in 1 .. Len(s) - 1 : SubSeq(s, i, i + 1) = CRLF}
           R == OpToRel(<, Nat)
<1>1. Len(s) \in Nat
  OBVIOUS
<1>2. places \subseteq Nat /\ places \subseteq 1 .. Len(s) - 1
  BY <1>1
<1>3. places # {} /\ findCRLF(s) = Min(places)
  BY DEF findCRLF
<1>4. \A x, y \in Nat : y < x => <<y, x>> \in R
  BY DEF OpToRel
<1>5. IsWellFoundedOn(R, Nat)
  BY NatLessThanWellFounded
<1> HIDE DEF R, places
<1>6. PICK x \in places : \A y \in places : ~ (<<y, x>> \in R)
  BY <1>2, <1>3, <1>5, WFMin
<1>7. ASSUME NEW y \in places PROVE x <= y
  <2>1. x \in Nat /\ y \in Nat
    BY <1>2, <1>6
  <2>2. ~ (y < x)
    BY <1>4, <1>6, <2>1
  <2> QED BY <2>1, <2>2
<1>8. Min(places) \in places
  BY <1>7 DEF Min
<1> QED BY <1>2, <1>3, <1>8

\* What \o returns.
LEMMA JoinElements ==
    ASSUME NEW s \in Seq(Tokens), NEW t \in Seq(Tokens)
    PROVE  Joined(s \o t, s, t)
<1>0. PICK u : u = s \o t
  OBVIOUS
<1>1. /\ u \in Seq(Tokens) /\ Len(u) = Len(s) + Len(t) /\ Len(s) \in Nat /\ Len(t) \in Nat
      /\ \A i \in 1 .. Len(s) : u[i] = s[i]
      /\ \A i \in Len(s) + 1 .. Len(s) + Len(t) : u[i] = t[i - Len(s)]
  BY <1>0
<1>2. ASSUME NEW i \in 1 .. Len(t) PROVE u[Len(s) + i] = t[i]
  <2>1. PICK j : j = Len(s) + i
    OBVIOUS
  <2>2. j \in Len(s) + 1 .. Len(s) + Len(t) /\ j - Len(s) = i
    BY <1>1, <2>1
  <2> QED BY <1>1, <2>1, <2>2
<1> QED BY <1>0, <1>1, <1>2 DEF Joined

\* Bytes arrive.
LEMMA StreamRead ==
    ASSUME NEW sent, NEW input \in Seq(Tokens), NEW wire \in Seq(Tokens), NEW taken, NEW ids,
           Stream(sent, input, wire, taken, ids), NEW n \in 1 .. Len(wire)
    PROVE  /\ input \o SubSeq(wire, 1, n) \in Seq(Tokens) /\ Retrieve(wire, n) \in Seq(Tokens)
           /\ Stream(sent, input \o SubSeq(wire, 1, n), Retrieve(wire, n), taken, ids)
<1>1. PICK p \in Nat : Place(sent, input, wire, p) /\ Behind(sent, taken, ids, p)
  BY DEF Stream
<1>2. PICK a : a = SubSeq(wire, 1, n)
  OBVIOUS
<1>3. PICK b : b = Retrieve(wire, n)
  OBVIOUS
<1>4. PICK c : c = input \o a
  OBVIOUS
<1>5. a \in Seq(Tokens) /\ Len(a) = n /\ \A i \in 1 .. n : a[i] = wire[i]
  BY <1>2
<1>6. b \in Seq(Tokens) /\ Len(b) = Len(wire) - n /\ \A i \in 1 .. Len(wire) - n : b[i] = wire[n + i]
  BY <1>3 DEF Retrieve
<1>7. /\ c \in Seq(Tokens) /\ Len(c) = Len(input) + n
      /\ \A i \in 1 .. Len(input) : c[i] = input[i]
      /\ \A i \in 1 .. n : c[Len(input) + i] = a[i]
  <2>1. /\ c \in Seq(Tokens) /\ Len(c) = Len(input) + Len(a)
        /\ \A i \in 1 .. Len(input) : c[i] = input[i]
        /\ \A i \in 1 .. Len(a) : c[Len(input) + i] = a[i]
    <3>1. Joined(input \o a, input, a)
      BY <1>5, JoinElements
    <3> QED BY <1>4, <3>1 DEF Joined
  <2> QED BY <1>5, <2>1
<1>8. /\ Len(sent) = p + Len(input) + Len(wire)
      /\ \A i \in 1 .. Len(input) : input[i] = sent[p + i]
      /\ \A i \in 1 .. Len(wire) : wire[i] = sent[p + Len(input) + i]
  BY <1>1 DEF Place
<1>9. Len(input) \in Nat /\ Len(wire) \in Nat
  OBVIOUS
<1>10. PICK li : li = Len(input)
  OBVIOUS
<1>11. PICK lw : lw = Len(wire)
  OBVIOUS
<1>12. Len(sent) = p + Len(c) + Len(b)
  BY <1>6, <1>7, <1>8, <1>9
<1>13. ASSUME NEW i \in 1 .. Len(c) PROVE c[i] = sent[p + i]
  <2>1. CASE i \in 1 .. li
    BY <1>7, <1>8, <1>10, <2>1
  <2>2. CASE i \notin 1 .. li
    <3>1. PICK j : j = i - li
      OBVIOUS
    <3>2. j \in 1 .. n /\ li + j = i /\ j \in 1 .. lw /\ p + i = p + li + j
      BY <1>7, <1>9, <1>10, <1>11, <2>2, <3>1
    <3>3. c[li + j] = a[j] /\ a[j] = wire[j] /\ wire[j] = sent[p + li + j]
      BY <1>5, <1>7, <1>8, <1>10, <1>11, <3>2
    <3> QED BY <3>2, <3>3
  <2> QED BY <2>1, <2>2
<1>14. ASSUME NEW i \in 1 .. Len(b) PROVE b[i] = sent[p + Len(c) + i]
  <2>1. PICK j : j = n + i
    OBVIOUS
  <2>2. j \in 1 .. lw /\ p + Len(c) + i = p + li + j
    BY <1>6, <1>7, <1>9, <1>10, <1>11, <2>1
  <2>3. b[i] = wire[j] /\ wire[j] = sent[p + li + j]
    BY <1>6, <1>8, <1>10, <1>11, <2>1, <2>2
  <2> QED BY <2>2, <2>3
<1>15. Place(sent, c, b, p)
  BY <1>12, <1>13, <1>14 DEF Place
<1> QED BY <1>1, <1>2, <1>3, <1>4, <1>6, <1>7, <1>15 DEF Stream

\* A line is retrieved.
LEMMA PlaceRetrieve ==
    ASSUME NEW sent, NEW input \in Seq(Tokens), NEW wire \in Seq(Tokens), NEW p \in Nat,
           Place(sent, input, wire, p), NEW m \in 0 .. Len(input)
    PROVE  Retrieve(input, m) \in Seq(Tokens) /\ Place(sent, Retrieve(input, m), wire, p + m)
<1>1. PICK b : b = Retrieve(input, m)
  OBVIOUS
<1>2. b \in Seq(Tokens) /\ Len(b) = Len(input) - m /\ \A i \in 1 .. Len(input) - m : b[i] = input[m + i]
  BY <1>1 DEF Retrieve
<1>3. /\ Len(sent) = p + Len(input) + Len(wire)
      /\ \A i \in 1 .. Len(input) : input[i] = sent[p + i]
      /\ \A i \in 1 .. Len(wire) : wire[i] = sent[p + Len(input) + i]
  BY DEF Place
<1>4. Len(input) \in Nat /\ Len(wire) \in Nat
  OBVIOUS
<1>5. Len(sent) = (p + m) + Len(b) + Len(wire) /\ (p + m) + Len(b) = p + Len(input)
  BY <1>2, <1>3, <1>4
<1>6. ASSUME NEW i \in 1 .. Len(b) PROVE b[i] = sent[(p + m) + i]
  <2>1. PICK j : j = m + i
    OBVIOUS
  <2>2. j \in 1 .. Len(input) /\ (p + m) + i = p + j
    BY <1>2, <1>4, <2>1
  <2> QED BY <1>2, <1>3, <2>1, <2>2
<1>7. \A i \in 1 .. Len(wire) : wire[i] = sent[(p + m) + Len(b) + i]
  BY <1>3, <1>5
<1>8. Place(sent, b, wire, p + m)
  BY <1>5, <1>6, <1>7 DEF Place
<1> QED BY <1>1, <1>2, <1>8

\* What was taken stays behind.
LEMMA BehindFurther ==
    ASSUME NEW sent, NEW taken, NEW ids, NEW p \in Nat, NEW m \in Nat, Behind(sent, taken, ids, p)
    PROVE  Behind(sent, taken, ids, p + m)
<1>1. \A i \in 1 .. p : i \in 1 .. p + m
  OBVIOUS
<1> QED BY <1>1 DEF Behind

\* A line is refused.
LEMMA StreamDrop ==
    ASSUME NEW sent, NEW input \in Seq(Tokens), NEW wire \in Seq(Tokens), NEW taken, NEW ids,
           Stream(sent, input, wire, taken, ids), findCRLF(input) # 0
    PROVE  RetrieveLine(input) \in Seq(Tokens) /\ Stream(sent, RetrieveLine(input), wire, taken, ids)
<1>1. PICK p \in Nat : Place(sent, input, wire, p) /\ Behind(sent, taken, ids, p)
  BY DEF Stream
<1>2. PICK m : m = findCRLF(input) + 1
  OBVIOUS
<1>3. findCRLF(input) \in 1 .. Len(input) - 1
  BY FirstCRLF
<1>4. m \in 0 .. Len(input) /\ m \in Nat
  BY <1>2, <1>3
<1>5. Retrieve(input, m) \in Seq(Tokens) /\ Place(sent, Retrieve(input, m), wire, p + m)
  BY <1>1, <1>4, PlaceRetrieve
<1>6. Behind(sent, taken, ids, p + m) /\ p + m \in Nat
  <2>1. Behind(sent, taken, ids, p + m)
    BY <1>1, <1>4, BehindFurther
  <2> QED BY <1>4, <2>1
<1> QED BY <1>2, <1>5, <1>6 DEF Stream, RetrieveLine

\* A request is taken: its number is new, and greater than those that were taken before.
LEMMA StreamTake ==
    ASSUME NEW sent \in Seq(Tokens), Numbered(sent), NEW input \in Seq(Tokens), NEW wire \in Seq(Tokens),
           NEW taken \in Seq(Nat), NEW ids, Stream(sent, input, wire, taken, ids), findCRLF(input) # 0,
           Len(Line(input)) = 1, Line(input)[1].text = "request", ids => Line(input)[1].hasId,
           NEW n, n = Line(input)[1].n
    PROVE  /\ n \in Nat \ {0} /\ \A m \in ToSet(taken) : m < n
           /\ RetrieveLine(input) \in Seq(Tokens)
           /\ Stream(sent, RetrieveLine(input), wire, Append(taken, n), ids)
<1>1. PICK p \in Nat : Place(sent, input, wire, p) /\ Behind(sent, taken, ids, p)
  BY DEF Stream
<1>2. PICK f : f = findCRLF(input)
  OBVIOUS
<1>3. f \in 1 .. Len(input) - 1 /\ Len(input) \in Nat
  BY <1>2, FirstCRLF
<1>4. Line(input) = SubSeq(input, 1, f - 1)
  BY <1>2 DEF Line
<1>5. Len(Line(input)) = f - 1 /\ \A i \in 1 .. f - 1 : Line(input)[i] = input[i]
  BY <1>3, <1>4
<1>6. f = 2 /\ Line(input)[1] = input[1]
  <2>0. f \in Int
    BY <1>3
  <2>1. f - 1 = 1
    BY ONLY <1>5, Len(Line(input)) = 1
  <2>2. f = 2 /\ 1 \in 1 .. f - 1
    BY <2>0, <2>1
  <2> QED BY <1>5, <2>2
<1>7. PICK x : x = input[1]
  OBVIOUS
<1>8. PICK j : j = p + 1
  OBVIOUS
<1>9. /\ Len(sent) \in Nat /\ Len(wire) \in Nat /\ Len(sent) = p + Len(input) + Len(wire)
      /\ x = sent[j] /\ j \in 1 .. Len(sent)
  BY <1>1, <1>3, <1>6, <1>7, <1>8 DEF Place
<1>10. x.text = "request" /\ (ids => x.hasId) /\ n = x.n
  BY <1>6, <1>7
<1>11. x \in Tokens
  BY <1>9
<1>12. x \in [text : {"request"}, n : Nat \ {0}, hasId : BOOLEAN, puzzle : Nat, size : Nat]
  BY <1>10, <1>11 DEF Tokens, CR, LF
<1>13. n \in Nat \ {0}
  BY <1>10, <1>12
<1>14. ASSUME NEW m \in ToSet(taken) PROVE m < n
  <2>1. PICK i \in 1 .. p : sent[i].text = "request" /\ sent[i].n = m
    BY <1>1 DEF Behind
  <2>2. i \in 1 .. Len(sent) /\ i < j
    BY <1>3, <1>8, <1>9
  <2>3. sent[i].n < sent[j].n
    BY <1>9, <1>10, <2>1, <2>2 DEF Numbered
  <2> QED BY <1>9, <1>10, <2>1, <2>3
<1>15. RetrieveLine(input) = Retrieve(input, 3)
  BY <1>2, <1>6 DEF RetrieveLine
<1>16. Retrieve(input, 3) \in Seq(Tokens) /\ Place(sent, Retrieve(input, 3), wire, p + 3)
  <2>1. 3 \in 0 .. Len(input)
    BY <1>3, <1>6
  <2> QED BY <1>1, <2>1, PlaceRetrieve
<1>17. ToSet(Append(taken, n)) = ToSet(taken) \cup {n}
  BY <1>13, AddLast
<1>18. Behind(sent, Append(taken, n), ids, p + 3)
  <2>1. Behind(sent, taken, ids, p + 3)
    BY <1>1, BehindFurther
  <2>2. j \in 1 .. p + 3 /\ sent[j].text = "request" /\ sent[j].n = n /\ (ids => sent[j].hasId)
    BY <1>8, <1>9, <1>10
  <2> QED BY <1>17, <2>1, <2>2 DEF Behind
<1>19. p + 3 \in Nat
  OBVIOUS
<1> QED BY <1>13, <1>14, <1>15, <1>16, <1>18, <1>19 DEF Stream

-----------------------------------------------------------------------------
(***************************************************************************)
(* The invariant.                                                          *)
(***************************************************************************)
PoolRecord(threads) ==
    [threads : {threads}, maxQueueSize : {0}, queue : Seq(Nat), running : BOOLEAN,
     worker : [Workers -> {"loop", "take", "wait", "run", "done"}],
     task : [Workers -> Nat \cup {NoTask}], offer : [Producers -> Nat \cup {NoTask}],
     notFull : SUBSET Producers, stopping : BOOLEAN, joined : BOOLEAN,
     accepted : Seq(Nat), started : Seq(Nat)]
SudokuRecord(kind, script) ==
    [kind : {kind}, wire : Seq(Tokens), sent : {script}, input : Seq(Tokens), reading : BOOLEAN,
     connected : BOOLEAN, fin : BOOLEAN, functors : Seq(Nat), taken : Seq(Nat), out : Seq(Nat)]

\* A worker has a task while it runs one, and there are no other workers.
Hands(pl) ==
    \A w \in Workers : /\ pl.worker[w] = "run" <=> pl.task[w] # NoTask
                       /\ w \notin pl.threads => pl.worker[w] = "done"
One(threads) == ~(Cardinality(threads) > 1)
Ids(kind, threads) == kind = "hybrid" /\ Cardinality(threads) > 1

InOrder(pl, sk, kind, threads, script) ==
    /\ pl \in PoolRecord(threads) /\ sk \in SudokuRecord(kind, script) /\ Hands(pl)
    /\ threads = {} => sk.functors = <<>> /\ pl.queue = <<>>
    /\ Stream(script, sk.input, sk.wire, sk.taken, Ids(kind, threads))
    /\ Moving(sk.taken, sk.out, sk.functors, pl.task, pl.queue, sk.connected, sk.fin, One(threads))
OrderInv(kind, threads, script) == InOrder(pool, sudoku, kind, threads, script)

\* Which programs there are: without threads all behave alike, and two have a pool.
Program(kind, threads) == threads \subseteq Workers /\ (threads = {} \/ kind \in {"hybrid", "threadpool"})
Script(script) == script \in Seq(Tokens) /\ Numbered(script)

-----------------------------------------------------------------------------
\* With one thread at most there are not two.
LEMMA OneThread ==
    ASSUME NEW threads \in SUBSET Workers, One(threads), NEW v \in threads, NEW w \in threads
    PROVE  v = w
<1> SUFFICES ASSUME v # w PROVE FALSE
  OBVIOUS
<1>1. IsFiniteSet(threads) /\ Cardinality(threads) \in Nat
  BY PoolThreads, FS_Subset, FS_CardinalityType
<1>2. IsFiniteSet({v}) /\ Cardinality({v}) = 1
  BY FS_Singleton
<1>3. PICK S : S = {v} \cup {w}
  OBVIOUS
<1>4. Cardinality(S) = 2
  BY <1>2, <1>3, FS_AddElement
<1>5. S \in SUBSET threads
  BY <1>3
<1>6. Cardinality(S) <= Cardinality(threads)
  BY <1>1, <1>5, FS_Subset
<1> QED BY <1>1, <1>4, <1>6 DEF One

\* The workers that do nothing have no task.
LEMMA NoTasks ==
    ASSUME NEW threads, NEW pl \in PoolRecord(threads), Hands(pl), threads = {}
    PROVE  Tasks(pl.task) = {}
<1>1. \A w \in Workers : pl.task[w] = NoTask
  BY DEF PoolRecord, Hands
<1> QED BY <1>1 DEF Tasks

\* An answer was written, if it could be.
Wrote(new, sk, n) == new.out = IF sk.connected /\ ~sk.fin THEN Append(sk.out, n) ELSE sk.out
After(new, sk, kind, script, n) ==
    /\ new \in SudokuRecord(kind, script) /\ new.input = sk.input /\ new.wire = sk.wire
    /\ new.functors = sk.functors /\ new.taken = sk.taken /\ new.fin = sk.fin /\ Wrote(new, sk, n)

\* SendHere.
LEMMA SendFields ==
    ASSUME NEW kind, NEW script, NEW sk, sk \in SudokuRecord(kind, script), NEW n, n \in Nat
    PROVE  After(SendHere(sk, n), sk, kind, script, n) /\ SendHere(sk, n).connected = sk.connected
<1>1. PICK o : o = Append(sk.out, n)
  OBVIOUS
<1>2. sk.out \in Seq(Nat)
  BY DEF SudokuRecord
<1>3. o \in Seq(Nat)
  BY <1>1, <1>2, AddLast
<1>4. PICK r : r = [sk EXCEPT !.out = o]
  OBVIOUS
<1>5. /\ r \in SudokuRecord(kind, script) /\ r.input = sk.input /\ r.wire = sk.wire
      /\ r.functors = sk.functors /\ r.taken = sk.taken /\ r.fin = sk.fin /\ r.out = o
      /\ r.connected = sk.connected
  BY <1>3, <1>4 DEF SudokuRecord
<1>6. CASE sk.connected /\ ~sk.fin
  <2>1. SendHere(sk, n) = r
    BY <1>1, <1>4, <1>6 DEF SendHere, SendInLoop
  <2> QED BY <1>1, <1>5, <1>6, <2>1 DEF After, Wrote
<1>7. CASE ~(sk.connected /\ ~sk.fin)
  <2>1. sk = [sk EXCEPT !.out = sk.out]
    BY DEF SudokuRecord
  <2>2. SendHere(sk, n) = sk
    BY <1>7, <2>1 DEF SendHere, SendInLoop
  <2> QED BY <1>7, <2>2 DEF After, Wrote
<1> QED BY <1>6, <1>7

\* Refuse.
LEMMA RefuseFields ==
    ASSUME NEW kind, NEW script, NEW sk, sk \in SudokuRecord(kind, script)
    PROVE  After(Refuse(sk), sk, kind, script, 0) /\ Refuse(sk).connected = FALSE
<1>1. PICK s : s = SendHere(sk, 0)
  OBVIOUS
<1>2. After(s, sk, kind, script, 0)
  BY <1>1, SendFields
<1>3. PICK r : r = [s EXCEPT !.connected = FALSE, !.reading = FALSE]
  OBVIOUS
<1>4. Refuse(sk) = r
  BY <1>1, <1>3 DEF Refuse, BadRequest
<1>5. /\ r \in SudokuRecord(kind, script) /\ r.input = s.input /\ r.wire = s.wire
      /\ r.functors = s.functors /\ r.taken = s.taken /\ r.fin = s.fin /\ r.out = s.out
      /\ r.connected = FALSE
  BY <1>2, <1>3 DEF After, SudokuRecord
<1>6. After(r, sk, kind, script, 0)
  BY <1>2, <1>5 DEF After, Wrote
<1> QED BY <1>4, <1>5, <1>6

\* run, without a limit of the queue.
LEMMA RunFields ==
    ASSUME NEW threads, NEW pl \in PoolRecord(threads), NEW p, NEW n \in Nat, NEW next \in run(pl, p, n)
    PROVE  /\ next \in PoolRecord(threads) /\ next.queue = Append(pl.queue, n) /\ next.task = pl.task
           /\ Hands(pl) => Hands(next)
<1>1. ~isFull(pl)
  BY DEF PoolRecord, isFull
<1>2. PICK a : a = [pl EXCEPT !.offer[p] = NoTask, !.queue = Append(@, n), !.accepted = Append(@, n)]
  OBVIOUS
<1>3. PICK off : off = [pl.offer EXCEPT ![p] = NoTask]
  OBVIOUS
<1>3a. off \in [Producers -> Nat \cup {NoTask}]
  <2>1. pl.offer \in [Producers -> Nat \cup {NoTask}]
    BY DEF PoolRecord
  <2> QED BY <1>3, <2>1
<1>4. a = [pl EXCEPT !.offer = off, !.queue = Append(@, n), !.accepted = Append(@, n)]
  BY <1>2, <1>3
<1>5. pl.queue \in Seq(Nat) /\ pl.accepted \in Seq(Nat)
  BY DEF PoolRecord
<1>6. PICK q : q = Append(pl.queue, n)
  OBVIOUS
<1>7. PICK c : c = Append(pl.accepted, n)
  OBVIOUS
<1>7a. q \in Seq(Nat) /\ c \in Seq(Nat)
  BY <1>5, <1>6, <1>7, AddLast
<1>8. a = [pl EXCEPT !.offer = off, !.queue = q, !.accepted = c]
  BY <1>4, <1>6, <1>7
<1>9. /\ a \in PoolRecord(threads) /\ a.queue = q /\ a.task = pl.task /\ a.worker = pl.worker
      /\ a.threads = pl.threads
  BY <1>3a, <1>7a, <1>8 DEF PoolRecord
<1>10. next \in NotifyEmpty(a)
  BY <1>1, <1>2 DEF run
<1>11. CASE next = a
  BY <1>6, <1>9, <1>11 DEF Hands
<1>12. CASE \E w \in Sleeping(a) : next = [a EXCEPT !.worker[w] = "take"]
  <2>1. PICK w \in Sleeping(a) : next = [a EXCEPT !.worker[w] = "take"]
    BY <1>12
  <2>2. w \in Workers /\ a.worker[w] = "wait"
    BY DEF Sleeping
  <2>3. PICK k : k = [a.worker EXCEPT ![w] = "take"]
    OBVIOUS
  <2>4. a.worker \in [Workers -> {"loop", "take", "wait", "run", "done"}]
    BY <1>9 DEF PoolRecord
  <2>5. /\ k \in [Workers -> {"loop", "take", "wait", "run", "done"}] /\ k[w] = "take"
        /\ \A v \in Workers \ {w} : k[v] = a.worker[v]
    BY <2>2, <2>3, <2>4
  <2>6. next = [a EXCEPT !.worker = k]
    BY <2>1, <2>3
  <2>7. /\ next \in PoolRecord(threads) /\ next.queue = a.queue /\ next.task = a.task /\ next.worker = k
        /\ next.threads = a.threads
    BY <1>9, <2>5, <2>6 DEF PoolRecord
  <2>8. ASSUME Hands(pl) PROVE Hands(next)
    <3> SUFFICES ASSUME NEW v \in Workers
                 PROVE  /\ next.worker[v] = "run" <=> next.task[v] # NoTask
                        /\ v \notin next.threads => next.worker[v] = "done"
      BY DEF Hands
    <3>1. /\ a.worker[v] = "run" <=> a.task[v] # NoTask
          /\ v \notin a.threads => a.worker[v] = "done"
      BY <1>9, <2>8 DEF Hands
    <3>2. CASE v = w
      BY <2>2, <2>5, <2>7, <3>1, <3>2
    <3>3. CASE v # w
      BY <2>5, <2>7, <3>1, <3>3
    <3> QED BY <3>2, <3>3
  <2> QED BY <1>6, <1>9, <2>7, <2>8
<1> QED BY <1>10, <1>11, <1>12 DEF NotifyEmpty

-----------------------------------------------------------------------------
(***************************************************************************)
(* The steps.                                                              *)
(***************************************************************************)
\* The end of a message.
LEMMA InOrderReading ==
    ASSUME NEW kind, NEW threads, NEW script, NEW pl, NEW sk, InOrder(pl, sk, kind, threads, script), NEW b \in BOOLEAN
    PROVE  InOrder(pl, [sk EXCEPT !.reading = b], kind, threads, script)
<1>1. PICK r : r = [sk EXCEPT !.reading = b]
  OBVIOUS
<1>2. /\ r \in SudokuRecord(kind, script) /\ r.input = sk.input /\ r.wire = sk.wire
      /\ r.functors = sk.functors /\ r.taken = sk.taken /\ r.fin = sk.fin /\ r.out = sk.out
      /\ r.connected = sk.connected
  BY <1>1 DEF InOrder, SudokuRecord
<1> QED BY <1>1, <1>2 DEF InOrder

\* A line is refused.
LEMMA InOrderRefuse ==
    ASSUME NEW kind, NEW threads, NEW script, NEW pl, NEW sk, InOrder(pl, sk, kind, threads, script)
    PROVE  InOrder(pl, Refuse(sk), kind, threads, script)
<1>1. PICK r : r = Refuse(sk)
  OBVIOUS
<1>2. /\ r \in SudokuRecord(kind, script) /\ r.input = sk.input /\ r.wire = sk.wire
      /\ r.functors = sk.functors /\ r.taken = sk.taken /\ r.fin = sk.fin
      /\ Wrote(r, sk, 0)
      /\ r.connected = FALSE
  <2>1. sk \in SudokuRecord(kind, script)
    BY DEF InOrder
  <2>2. After(r, sk, kind, script, 0) /\ r.connected = FALSE
    BY <1>1, <2>1, RefuseFields
  <2> QED BY <2>2 DEF After
<1>3. PICK t, o, f, k, q, c, fin, one :
          /\ t = sk.taken /\ o = sk.out /\ f = sk.functors /\ k = pl.task /\ q = pl.queue
          /\ c = sk.connected /\ fin = sk.fin /\ one = One(threads)
  OBVIOUS
<1>4. Moving(t, o, f, k, q, c, fin, one)
  BY <1>3 DEF InOrder
<1>5. Moving(t, o, f, k, q, FALSE, fin, one) /\ Moving(t, Append(o, 0), f, k, q, FALSE, fin, one)
  BY <1>4, MoveRefused
<1>6. Moving(r.taken, r.out, r.functors, pl.task, pl.queue, r.connected, r.fin, One(threads))
  BY <1>2, <1>3, <1>5 DEF Wrote
<1> QED BY <1>1, <1>2, <1>6 DEF InOrder

\* The writing side is shut down.
LEMMA InOrderFin ==
    ASSUME NEW kind, NEW threads, NEW script, NEW pl, NEW sk, InOrder(pl, sk, kind, threads, script), ~sk.connected
    PROVE  InOrder(pl, [sk EXCEPT !.fin = TRUE], kind, threads, script)
<1>1. PICK r : r = [sk EXCEPT !.fin = TRUE]
  OBVIOUS
<1>2. /\ r \in SudokuRecord(kind, script) /\ r.input = sk.input /\ r.wire = sk.wire
      /\ r.functors = sk.functors /\ r.taken = sk.taken /\ r.fin = TRUE /\ r.out = sk.out
      /\ r.connected = FALSE
  BY <1>1 DEF InOrder, SudokuRecord
<1>3. PICK t, o, f, k, q, c, fin, one :
          /\ t = sk.taken /\ o = sk.out /\ f = sk.functors /\ k = pl.task /\ q = pl.queue
          /\ c = sk.connected /\ fin = sk.fin /\ one = One(threads)
  OBVIOUS
<1>4. Moving(t, o, f, k, q, c, fin, one)
  BY <1>3 DEF InOrder
<1>5. Moving(t, o, f, k, q, FALSE, TRUE, one)
  BY <1>4, MoveRefused
<1>6. Moving(r.taken, r.out, r.functors, pl.task, pl.queue, r.connected, r.fin, One(threads))
  BY <1>2, <1>3, <1>5
<1> QED BY <1>1, <1>2, <1>6 DEF InOrder

\* A message arrives.
LEMMA InOrderRead ==
    ASSUME NEW kind, NEW threads, NEW script, NEW pl, NEW sk, InOrder(pl, sk, kind, threads, script), NEW n \in 1 .. Len(sk.wire)
    PROVE  InOrder(pl, [sk EXCEPT !.input = @ \o SubSeq(sk.wire, 1, n), !.wire = Retrieve(@, n),
                                !.reading = TRUE], kind, threads, script)
<1>1. PICK a, b : a = sk.input \o SubSeq(sk.wire, 1, n) /\ b = Retrieve(sk.wire, n)
  OBVIOUS
<1>2. PICK i, w : i = sk.input /\ w = sk.wire
  OBVIOUS
<1>3. i \in Seq(Tokens) /\ w \in Seq(Tokens) /\ Stream(script, i, w, sk.taken, Ids(kind, threads))
  BY <1>2 DEF InOrder, SudokuRecord
<1>4. n \in 1 .. Len(w)
  BY <1>2
<1>5. /\ i \o SubSeq(w, 1, n) \in Seq(Tokens) /\ Retrieve(w, n) \in Seq(Tokens)
      /\ Stream(script, i \o SubSeq(w, 1, n), Retrieve(w, n), sk.taken, Ids(kind, threads))
  BY <1>3, <1>4, StreamRead
<1>6. a \in Seq(Tokens) /\ b \in Seq(Tokens) /\ Stream(script, a, b, sk.taken, Ids(kind, threads))
  BY <1>1, <1>2, <1>5
<1>7. PICK r : r = [sk EXCEPT !.input = a, !.wire = b, !.reading = TRUE]
  OBVIOUS
<1>8. /\ r \in SudokuRecord(kind, script) /\ r.input = a /\ r.wire = b
      /\ r.functors = sk.functors /\ r.taken = sk.taken /\ r.fin = sk.fin /\ r.out = sk.out
      /\ r.connected = sk.connected
  BY <1>6, <1>7 DEF InOrder, SudokuRecord
<1>9. InOrder(pl, r, kind, threads, script)
  BY <1>6, <1>8 DEF InOrder
<1> QED BY <1>1, <1>7, <1>9

\* A line is retrieved.
LEMMA InOrderDrop ==
    ASSUME NEW kind, NEW threads, NEW script, NEW pl, NEW sk, InOrder(pl, sk, kind, threads, script), findCRLF(sk.input) # 0
    PROVE  InOrder(pl, [sk EXCEPT !.input = RetrieveLine(@)], kind, threads, script)
<1>1. PICK i, w : i = sk.input /\ w = sk.wire
  OBVIOUS
<1>2. PICK a : a = RetrieveLine(i)
  OBVIOUS
<1>3. i \in Seq(Tokens) /\ w \in Seq(Tokens) /\ Stream(script, i, w, sk.taken, Ids(kind, threads))
  BY <1>1 DEF InOrder, SudokuRecord
<1>4. findCRLF(i) # 0
  BY <1>1
<1>5. RetrieveLine(i) \in Seq(Tokens) /\ Stream(script, RetrieveLine(i), w, sk.taken, Ids(kind, threads))
  BY <1>3, <1>4, StreamDrop
<1>6. PICK r : r = [sk EXCEPT !.input = a]
  OBVIOUS
<1>7. /\ r \in SudokuRecord(kind, script) /\ r.input = a /\ r.wire = w
      /\ r.functors = sk.functors /\ r.taken = sk.taken /\ r.fin = sk.fin /\ r.out = sk.out
      /\ r.connected = sk.connected
  BY <1>1, <1>2, <1>5, <1>6 DEF InOrder, SudokuRecord
<1>8. InOrder(pl, r, kind, threads, script)
  BY <1>2, <1>5, <1>7 DEF InOrder
<1> QED BY <1>1, <1>2, <1>6, <1>8

\* The loop runs an answer that was queued to it.
LEMMA InOrderSent ==
    ASSUME NEW kind, NEW threads, NEW script, NEW pl, NEW sk, InOrder(pl, sk, kind, threads, script), sk.functors # <<>>
    PROVE  InOrder(pl, [SendInLoop(sk, Head(sk.functors)) EXCEPT !.functors = Tail(@)], kind, threads, script)
<1>1. PICK t, o, f, k, q, c, fin, one :
          /\ t = sk.taken /\ o = sk.out /\ f = sk.functors /\ k = pl.task /\ q = pl.queue
          /\ c = sk.connected /\ fin = sk.fin /\ one = One(threads)
  OBVIOUS
<1>2. Moving(t, o, f, k, q, c, fin, one) /\ fin \in BOOLEAN /\ f # <<>>
  BY <1>1 DEF InOrder, SudokuRecord
<1>3. PICK a : a = IF fin THEN o ELSE Append(o, Head(f))
  OBVIOUS
<1>4. PICK b : b = Tail(f)
  OBVIOUS
<1>5. Moving(t, a, b, k, q, c, fin, one)
  <2>1. CASE fin = TRUE
    BY <1>2, <1>3, <1>4, <2>1, MoveAfterFin
  <2>2. CASE fin = FALSE
    BY <1>2, <1>3, <1>4, <2>2, MoveSent
  <2> QED BY <1>2, <2>1, <2>2
<1>6. a \in Seq(Nat) /\ b \in Seq(Nat)
  BY <1>5 DEF Moving
<1>7. PICK s : s = [sk EXCEPT !.out = a]
  OBVIOUS
<1>8. s = SendInLoop(sk, Head(sk.functors))
  BY <1>1, <1>3, <1>7 DEF SendInLoop
<1>9. /\ s \in SudokuRecord(kind, script) /\ s.input = sk.input /\ s.wire = sk.wire
      /\ s.functors = sk.functors /\ s.taken = sk.taken /\ s.fin = sk.fin /\ s.out = a
      /\ s.connected = sk.connected
  BY <1>6, <1>7 DEF InOrder, SudokuRecord
<1>10. PICK r : r = [s EXCEPT !.functors = b]
  OBVIOUS
<1>11. /\ r \in SudokuRecord(kind, script) /\ r.input = s.input /\ r.wire = s.wire
       /\ r.functors = b /\ r.taken = s.taken /\ r.fin = s.fin /\ r.out = s.out
       /\ r.connected = s.connected
  BY <1>6, <1>9, <1>10 DEF SudokuRecord
<1>12. r = [SendInLoop(sk, Head(sk.functors)) EXCEPT !.functors = Tail(@)]
  BY <1>1, <1>4, <1>8, <1>9, <1>10
<1>13. threads # {}
  BY DEF InOrder
<1>14. InOrder(pl, r, kind, threads, script)
  BY <1>1, <1>5, <1>9, <1>11, <1>13 DEF InOrder
<1> QED BY <1>12, <1>14

\* The request of a line is taken.
Taken(sk, n) == [sk EXCEPT !.input = RetrieveLine(@), !.taken = Append(@, n)]
Takes(sk, kind, threads, n) ==
    /\ findCRLF(sk.input) # 0 /\ Len(Line(sk.input)) = 1 /\ Line(sk.input)[1].text = "request"
    /\ Ids(kind, threads) => Line(sk.input)[1].hasId
    /\ n = Line(sk.input)[1].n

\* What it leaves.
LEMMA TakenFields ==
    ASSUME NEW kind, NEW threads, NEW script, NEW pl, NEW sk, InOrder(pl, sk, kind, threads, script), Script(script), NEW n, Takes(sk, kind, threads, n)
    PROVE  /\ n \in Nat \ {0} /\ \A m \in ToSet(sk.taken) : m < n
           /\ Taken(sk, n) \in SudokuRecord(kind, script)
           /\ Taken(sk, n).wire = sk.wire /\ Taken(sk, n).functors = sk.functors
           /\ Taken(sk, n).taken = Append(sk.taken, n) /\ Taken(sk, n).fin = sk.fin
           /\ Taken(sk, n).out = sk.out /\ Taken(sk, n).connected = sk.connected
           /\ Stream(script, Taken(sk, n).input, Taken(sk, n).wire, Taken(sk, n).taken, Ids(kind, threads))
<1>1. PICK i, w, t, ids : i = sk.input /\ w = sk.wire /\ t = sk.taken /\ ids = Ids(kind, threads)
  OBVIOUS
<1>2. /\ i \in Seq(Tokens) /\ w \in Seq(Tokens) /\ t \in Seq(Nat) /\ Stream(script, i, w, t, ids)
  BY <1>1 DEF InOrder, SudokuRecord
<1>3. /\ findCRLF(i) # 0 /\ Len(Line(i)) = 1 /\ Line(i)[1].text = "request" /\ n = Line(i)[1].n
      /\ ids => Line(i)[1].hasId
  BY <1>1 DEF Takes
<1>4. script \in Seq(Tokens) /\ Numbered(script)
  BY DEF Script
<1>5. /\ n \in Nat \ {0} /\ \A m \in ToSet(t) : m < n
      /\ RetrieveLine(i) \in Seq(Tokens) /\ Stream(script, RetrieveLine(i), w, Append(t, n), ids)
  BY <1>2, <1>3, <1>4, StreamTake
<1>6. PICK a, b : a = RetrieveLine(i) /\ b = Append(t, n)
  OBVIOUS
<1>7. a \in Seq(Tokens) /\ b \in Seq(Nat)
  BY <1>2, <1>5, <1>6, AddLast
<1>8. PICK r : r = [sk EXCEPT !.input = a, !.taken = b]
  OBVIOUS
<1>9. /\ r \in SudokuRecord(kind, script) /\ r.input = a /\ r.wire = sk.wire
      /\ r.functors = sk.functors /\ r.taken = b /\ r.fin = sk.fin /\ r.out = sk.out
      /\ r.connected = sk.connected
  BY <1>7, <1>8 DEF InOrder, SudokuRecord
<1>10. r = Taken(sk, n)
  BY <1>1, <1>6, <1>8 DEF Taken
<1> QED BY <1>1, <1>5, <1>6, <1>9, <1>10

\* The loop solves it.
LEMMA InOrderHere ==
    ASSUME NEW kind, NEW threads, NEW script, NEW pl, NEW sk, InOrder(pl, sk, kind, threads, script), Script(script), NEW n, Takes(sk, kind, threads, n), threads = {}
    PROVE  InOrder(pl, SendHere(Taken(sk, n), n), kind, threads, script)
<1>1. PICK g : g = Taken(sk, n)
  OBVIOUS
<1>2. /\ n \in Nat \ {0} /\ \A m \in ToSet(sk.taken) : m < n
      /\ g \in SudokuRecord(kind, script) /\ g.functors = sk.functors
      /\ g.taken = Append(sk.taken, n) /\ g.fin = sk.fin /\ g.out = sk.out /\ g.connected = sk.connected
      /\ Stream(script, g.input, g.wire, g.taken, Ids(kind, threads))
  BY <1>1, TakenFields
<1>3. PICK r : r = SendHere(g, n)
  OBVIOUS
<1>4. /\ r \in SudokuRecord(kind, script) /\ r.input = g.input /\ r.wire = g.wire
      /\ r.functors = g.functors /\ r.taken = g.taken /\ r.fin = g.fin /\ r.connected = g.connected
      /\ Wrote(r, g, n)
  <2>1. n \in Nat
    BY <1>2
  <2>2. After(r, g, kind, script, n) /\ r.connected = g.connected
    BY <1>2, <1>3, <2>1, SendFields
  <2> QED BY <2>2 DEF After
<1>5. PICK t, o, f, k, q, c, fin, one :
          /\ t = sk.taken /\ o = sk.out /\ f = sk.functors /\ k = pl.task /\ q = pl.queue
          /\ c = sk.connected /\ fin = sk.fin /\ one = One(threads)
  OBVIOUS
<1>6. Moving(t, o, f, k, q, c, fin, one) /\ c \in BOOLEAN /\ f = <<>> /\ q = <<>>
  BY <1>5 DEF InOrder, SudokuRecord
<1>7. Tasks(k) = {}
  <2>1. pl \in PoolRecord(threads) /\ Hands(pl)
    BY DEF InOrder
  <2> QED BY <1>5, <2>1, NoTasks
<1>8. n \in Nat \ {0} /\ \A m \in ToSet(t) : m < n
  BY <1>2, <1>5
<1>9. Moving(r.taken, r.out, r.functors, pl.task, pl.queue, r.connected, r.fin, One(threads))
  <2>1. CASE c = TRUE
    <3>1. Moving(Append(t, n), Append(o, n), f, k, q, TRUE, fin, one)
      BY <1>6, <1>7, <1>8, <2>1, MoveHere
    <3>2. ~fin
      BY <1>6, <2>1 DEF Moving, Stages
    <3>3. r.out = Append(o, n)
      BY <1>2, <1>4, <1>5, <2>1, <3>2 DEF Wrote
    <3> QED BY <1>2, <1>4, <1>5, <2>1, <3>1, <3>3
  <2>2. CASE c = FALSE
    <3>1. Moving(Append(t, n), o, f, k, q, FALSE, fin, one)
      BY <1>6, <1>8, <2>2, MoveLost
    <3>2. r.out = o
      BY <1>2, <1>4, <1>5, <2>2 DEF Wrote
    <3> QED BY <1>2, <1>4, <1>5, <2>2, <3>1, <3>2
  <2> QED BY <1>6, <2>1, <2>2
<1>10. InOrder(pl, r, kind, threads, script)
  <2>1. Stream(script, r.input, r.wire, r.taken, Ids(kind, threads)) /\ r.functors = <<>>
    BY <1>2, <1>4, <1>5, <1>6
  <2> QED BY <1>4, <1>9, <2>1 DEF InOrder
<1> QED BY <1>1, <1>3, <1>10

\* It is handed to the pool.
LEMMA InOrderQueued ==
    ASSUME NEW kind, NEW threads, NEW script, NEW pl, NEW sk, InOrder(pl, sk, kind, threads, script), Script(script), NEW n, Takes(sk, kind, threads, n), threads # {},
           NEW p, NEW next \in run(pl, p, n)
    PROVE  InOrder(next, Taken(sk, n), kind, threads, script)
<1>1. PICK g : g = Taken(sk, n)
  OBVIOUS
<1>2. /\ n \in Nat \ {0} /\ \A m \in ToSet(sk.taken) : m < n
      /\ g \in SudokuRecord(kind, script) /\ g.functors = sk.functors
      /\ g.taken = Append(sk.taken, n) /\ g.fin = sk.fin /\ g.out = sk.out /\ g.connected = sk.connected
      /\ Stream(script, g.input, g.wire, g.taken, Ids(kind, threads))
  BY <1>1, TakenFields
<1>3. /\ next \in PoolRecord(threads) /\ next.queue = Append(pl.queue, n) /\ next.task = pl.task
      /\ Hands(next)
  <2>1. n \in Nat
    BY <1>2
  <2>2. pl \in PoolRecord(threads) /\ Hands(pl)
    BY DEF InOrder
  <2> QED BY <2>1, <2>2, RunFields
<1>5. PICK t, o, f, k, q, c, fin, one :
          /\ t = sk.taken /\ o = sk.out /\ f = sk.functors /\ k = pl.task /\ q = pl.queue
          /\ c = sk.connected /\ fin = sk.fin /\ one = One(threads)
  OBVIOUS
<1>6. Moving(t, o, f, k, q, c, fin, one)
  BY <1>5 DEF InOrder
<1>7. n \in Nat \ {0} /\ \A m \in ToSet(t) : m < n
  BY <1>2, <1>5
<1>8. Moving(Append(t, n), o, f, k, Append(q, n), c, fin, one)
  BY <1>6, <1>7, MoveQueued
<1>9. Moving(g.taken, g.out, g.functors, next.task, next.queue, g.connected, g.fin, One(threads))
  BY <1>2, <1>3, <1>5, <1>8
<1>10. InOrder(next, g, kind, threads, script)
  BY <1>2, <1>3, <1>9 DEF InOrder
<1> QED BY <1>1, <1>10

\* A worker without a task, before and after the step.
LEMMA InOrderIdle ==
    ASSUME NEW kind, NEW threads, NEW script, NEW pl, NEW sk, InOrder(pl, sk, kind, threads, script), NEW w \in Workers, pl.worker[w] \in {"loop", "take"},
           NEW x \in {"loop", "take", "wait", "done"}
    PROVE  InOrder([pl EXCEPT !.worker[w] = x], sk, kind, threads, script)
<1>1. pl \in PoolRecord(threads) /\ Hands(pl)
  BY DEF InOrder
<1>2. PICK k : k = [pl.worker EXCEPT ![w] = x]
  OBVIOUS
<1>3. pl.worker \in [Workers -> {"loop", "take", "wait", "run", "done"}] /\ pl.threads = threads
  BY <1>1 DEF PoolRecord
<1>4. /\ k \in [Workers -> {"loop", "take", "wait", "run", "done"}] /\ k[w] = x
      /\ \A v \in Workers \ {w} : k[v] = pl.worker[v]
  BY <1>2, <1>3
<1>5. PICK next : next = [pl EXCEPT !.worker = k]
  OBVIOUS
<1>6. /\ next \in PoolRecord(threads) /\ next.queue = pl.queue /\ next.task = pl.task
      /\ next.worker = k /\ next.threads = pl.threads
  BY <1>1, <1>4, <1>5 DEF PoolRecord
<1>7. Hands(next)
  <2> SUFFICES ASSUME NEW v \in Workers
               PROVE  /\ next.worker[v] = "run" <=> next.task[v] # NoTask
                      /\ v \notin next.threads => next.worker[v] = "done"
    BY DEF Hands
  <2>1. /\ pl.worker[v] = "run" <=> pl.task[v] # NoTask
        /\ v \notin pl.threads => pl.worker[v] = "done"
    BY <1>1 DEF Hands
  <2>2. CASE v = w
    BY <1>4, <1>6, <2>1, <2>2
  <2>3. CASE v # w
    BY <1>4, <1>6, <2>1, <2>3
  <2> QED BY <2>2, <2>3
<1>8. InOrder(next, sk, kind, threads, script)
  BY <1>6, <1>7 DEF InOrder
<1> QED BY <1>2, <1>5, <1>8

\* A worker and its task change, and what they change to.
Works(next, pl, w, x, y, q, st) ==
    /\ next = [pl EXCEPT !.worker[w] = x, !.task[w] = y, !.queue = q, !.started = st]
    /\ pl.worker[w] # "done" /\ q \in Seq(Nat) /\ st \in Seq(Nat)
Worked(next, pl, threads, w, y, q) ==
    /\ next \in PoolRecord(threads) /\ Hands(next)
    /\ next.task = [pl.task EXCEPT ![w] = y] /\ next.queue = q
Fits(x, y) == x \in {"loop", "run"} /\ y \in Nat \cup {NoTask} /\ (x = "run" <=> y # NoTask)

\* It leaves a pool.
LEMMA WorkerTask ==
    ASSUME NEW threads, NEW pl, pl \in PoolRecord(threads), Hands(pl), NEW w, w \in Workers,
           NEW x, NEW y, Fits(x, y), NEW q, NEW st, NEW next, Works(next, pl, w, x, y, q, st)
    PROVE  Worked(next, pl, threads, w, y, q)
<1>1. /\ pl.worker \in [Workers -> {"loop", "take", "wait", "run", "done"}] /\ pl.threads = threads
      /\ pl.task \in [Workers -> Nat \cup {NoTask}]
  BY DEF PoolRecord
<1>2. PICK k : k = [pl.worker EXCEPT ![w] = x]
  OBVIOUS
<1>3. PICK t : t = [pl.task EXCEPT ![w] = y]
  OBVIOUS
<1>4. /\ k \in [Workers -> {"loop", "take", "wait", "run", "done"}] /\ k[w] = x
      /\ \A v \in Workers \ {w} : k[v] = pl.worker[v]
  BY <1>1, <1>2 DEF Fits
<1>5. /\ t \in [Workers -> Nat \cup {NoTask}] /\ t[w] = y
      /\ \A v \in Workers \ {w} : t[v] = pl.task[v]
  BY <1>1, <1>3 DEF Fits
<1>6. next = [pl EXCEPT !.worker = k, !.task = t, !.queue = q, !.started = st]
  BY <1>2, <1>3 DEF PoolRecord, Works
<1>7. /\ next \in PoolRecord(threads) /\ next.queue = q /\ next.task = t
      /\ next.worker = k /\ next.threads = pl.threads
  <2>1. PICK half : half = [pl EXCEPT !.worker = k, !.task = t]
    OBVIOUS
  <2>2. /\ half \in PoolRecord(threads) /\ half.task = t /\ half.worker = k
        /\ half.threads = pl.threads
    BY <1>4, <1>5, <2>1 DEF PoolRecord
  <2>3. next = [half EXCEPT !.queue = q, !.started = st]
    BY <1>6, <2>1
  <2>4. q \in Seq(Nat) /\ st \in Seq(Nat)
    BY DEF Works
  <2> QED BY <2>2, <2>3, <2>4 DEF PoolRecord
<1>8. Hands(next)
  <2> SUFFICES ASSUME NEW v \in Workers
               PROVE  /\ next.worker[v] = "run" <=> next.task[v] # NoTask
                      /\ v \notin next.threads => next.worker[v] = "done"
    BY DEF Hands
  <2>1. /\ pl.worker[v] = "run" <=> pl.task[v] # NoTask
        /\ v \notin pl.threads => pl.worker[v] = "done"
    BY DEF Hands
  <2>2. CASE v = w
    BY <1>4, <1>5, <1>7, <2>1, <2>2 DEF Fits, Works
  <2>3. CASE v # w
    BY <1>4, <1>5, <1>7, <2>1, <2>3
  <2> QED BY <2>2, <2>3
<1> QED BY <1>3, <1>7, <1>8 DEF Worked

\* A worker takes a task.
LEMMA InOrderTake ==
    ASSUME NEW kind, NEW threads, NEW script, NEW pl, NEW sk, InOrder(pl, sk, kind, threads, script), threads \subseteq Workers,
           NEW w \in Workers, pl.worker[w] = "take", pl.queue # <<>>, NEW next,
           next = [pl EXCEPT !.worker[w] = "run", !.task[w] = Head(pl.queue), !.queue = Tail(@),
                             !.started = Append(@, Head(pl.queue))]
    PROVE  InOrder(next, sk, kind, threads, script)
<1>1. pl \in PoolRecord(threads) /\ Hands(pl) /\ pl.queue \in Seq(Nat) /\ pl.started \in Seq(Nat)
      /\ pl.threads = threads
  BY DEF InOrder, PoolRecord
<1>2. PICK x : x = Head(pl.queue)
  OBVIOUS
<1>3. PICK b : b = Tail(pl.queue)
  OBVIOUS
<1>4. PICK st : st = Append(pl.started, x)
  OBVIOUS
<1>5. x \in Nat /\ b \in Seq(Nat)
  BY <1>1, <1>2, <1>3
<1>6. st \in Seq(Nat) /\ x # NoTask
  BY <1>1, <1>4, <1>5, AddLast, PoolThreads
<1>7. next = [pl EXCEPT !.worker[w] = "run", !.task[w] = x, !.queue = b, !.started = st]
  BY <1>2, <1>3, <1>4
<1>8. /\ next \in PoolRecord(threads) /\ Hands(next)
      /\ next.task = [pl.task EXCEPT ![w] = x] /\ next.queue = b
  <2>1. Works(next, pl, w, "run", x, b, st)
    BY <1>5, <1>6, <1>7 DEF Works
  <2>2. Fits("run", x)
    BY <1>5, <1>6 DEF Fits
  <2>3. Worked(next, pl, threads, w, x, b)
    BY ONLY <1>1, <2>1, <2>2, w \in Workers, WorkerTask
  <2> QED BY <2>3 DEF Worked
<1>9. PICK t, o, f, k, q, c, fin, one :
          /\ t = sk.taken /\ o = sk.out /\ f = sk.functors /\ k = pl.task /\ q = pl.queue
          /\ c = sk.connected /\ fin = sk.fin /\ one = One(threads)
  OBVIOUS
<1>10. Moving(t, o, f, k, q, c, fin, one)
  BY <1>9 DEF InOrder
<1>11. k[w] = NoTask
  BY <1>1, <1>9 DEF Hands
<1>12. ASSUME one PROVE Tasks(k) = {}
  <2>1. ASSUME NEW v \in Workers PROVE k[v] = NoTask
    <3>1. w \in threads
      BY <1>1 DEF Hands
    <3>2. CASE v \in threads
      BY <1>9, <1>11, <1>12, <3>1, <3>2, OneThread
    <3>3. CASE v \notin threads
      BY <1>1, <1>9, <3>3 DEF Hands
    <3> QED BY <3>2, <3>3
  <2> QED BY <2>1 DEF Tasks
<1>13. Moving(t, o, f, [k EXCEPT ![w] = Head(q)], Tail(q), c, fin, one)
  BY <1>9, <1>10, <1>11, <1>12, MoveTaken
<1>14. Moving(sk.taken, sk.out, sk.functors, next.task, next.queue, sk.connected, sk.fin, One(threads))
  BY <1>2, <1>3, <1>8, <1>9, <1>13
<1>15. threads # {}
  BY DEF InOrder
<1> QED BY <1>8, <1>14, <1>15 DEF InOrder

\* A worker ends its task.
LEMMA InOrderSolve ==
    ASSUME NEW kind, NEW threads, NEW script, NEW pl, NEW sk, InOrder(pl, sk, kind, threads, script), NEW w \in Workers, pl.worker[w] = "run", NEW next,
           next = [pl EXCEPT !.worker[w] = "loop", !.task[w] = NoTask]
    PROVE  InOrder(next, SendFromWorker(sk, pl.task[w]), kind, threads, script)
<1>1. /\ pl \in PoolRecord(threads) /\ Hands(pl) /\ pl.queue \in Seq(Nat) /\ pl.started \in Seq(Nat)
      /\ pl.threads = threads
  BY DEF InOrder, PoolRecord
<1>2. PICK st, b : st = pl.started /\ b = pl.queue
  OBVIOUS
<1>3. next = [pl EXCEPT !.worker[w] = "loop", !.task[w] = NoTask, !.queue = b, !.started = st]
  BY <1>1, <1>2 DEF PoolRecord
<1>4. /\ next \in PoolRecord(threads) /\ Hands(next)
      /\ next.task = [pl.task EXCEPT ![w] = NoTask] /\ next.queue = b
  <2>1. Works(next, pl, w, "loop", NoTask, b, st)
    BY <1>1, <1>2, <1>3 DEF Works
  <2>2. Fits("loop", NoTask)
    BY DEF Fits
  <2>3. Worked(next, pl, threads, w, NoTask, b)
    BY ONLY <1>1, <2>1, <2>2, w \in Workers, WorkerTask
  <2> QED BY <2>3 DEF Worked
<1>5. PICK t, o, f, k, q, c, fin, one :
          /\ t = sk.taken /\ o = sk.out /\ f = sk.functors /\ k = pl.task /\ q = pl.queue
          /\ c = sk.connected /\ fin = sk.fin /\ one = One(threads)
  OBVIOUS
<1>6. Moving(t, o, f, k, q, c, fin, one) /\ c \in BOOLEAN
  BY <1>5 DEF InOrder, SudokuRecord
<1>7. k[w] # NoTask
  BY <1>1, <1>5 DEF Hands
<1>8. threads # {}
  BY <1>1 DEF Hands
<1>9. CASE c = TRUE
  <2>1. Moving(t, o, Append(f, k[w]), [k EXCEPT ![w] = NoTask], q, TRUE, fin, one)
    BY <1>6, <1>7, <1>9, MoveSolved
  <2>2. PICK g : g = Append(f, k[w])
    OBVIOUS
  <2>3. g \in Seq(Nat)
    BY <2>1, <2>2 DEF Moving
  <2>4. PICK r : r = [sk EXCEPT !.functors = g]
    OBVIOUS
  <2>5. /\ r \in SudokuRecord(kind, script) /\ r.input = sk.input /\ r.wire = sk.wire
        /\ r.functors = g /\ r.taken = sk.taken /\ r.fin = sk.fin /\ r.out = sk.out
        /\ r.connected = sk.connected
    BY <2>3, <2>4 DEF InOrder, SudokuRecord
  <2>6. SendFromWorker(sk, pl.task[w]) = r
    BY <1>5, <1>9, <2>2, <2>4 DEF SendFromWorker
  <2>7. Moving(r.taken, r.out, r.functors, next.task, next.queue, r.connected, r.fin, One(threads))
    BY <1>2, <1>4, <1>5, <1>9, <2>1, <2>2, <2>5
  <2>8. InOrder(next, r, kind, threads, script)
    BY <1>4, <1>8, <2>5, <2>7 DEF InOrder
  <2> QED BY <2>6, <2>8
<1>10. CASE c = FALSE
  <2>1. Moving(t, o, f, [k EXCEPT ![w] = NoTask], q, FALSE, fin, one)
    BY <1>6, <1>7, <1>10, MoveUnwanted
  <2>2. SendFromWorker(sk, pl.task[w]) = sk
    BY <1>5, <1>10 DEF SendFromWorker
  <2>3. Moving(sk.taken, sk.out, sk.functors, next.task, next.queue, sk.connected, sk.fin, One(threads))
    BY <1>2, <1>4, <1>5, <1>10, <2>1
  <2>4. InOrder(next, sk, kind, threads, script)
    BY <1>4, <1>8, <2>3 DEF InOrder
  <2> QED BY <2>2, <2>4
<1> QED BY <1>6, <1>9, <1>10

-----------------------------------------------------------------------------
(***************************************************************************)
(* The program.                                                            *)
(***************************************************************************)
\* A turn of the loop of onMessage.
LEMMA ProcessLineInOrder ==
    ASSUME NEW kind, NEW threads, NEW script, Script(script), OrderInv(kind, threads, script), ProcessLine
    PROVE  OrderInv(kind, threads, script)'
<1>0. InOrder(pool, sudoku, kind, threads, script)
  BY DEF OrderInv
<1>1. PICK line : line = Line(sudoku.input)
  OBVIOUS
<1>2. PICK rest : rest = [sudoku EXCEPT !.input = RetrieveLine(@)]
  OBVIOUS
<1>3. PICK n : n = line[1].n
  OBVIOUS
<1>4. PICK good : good = [rest EXCEPT !.taken = Append(@, n)]
  OBVIOUS
<1>5. /\ findCRLF(sudoku.input) # 0
      /\ \/ ~GoodRequest(line) /\ sudoku' = Refuse(rest) /\ UNCHANGED pool
         \/ GoodRequest(line) /\ (SolveHere(good, n) \/ HandOver(good, n))
  BY <1>1, <1>2, <1>3, <1>4 DEF ProcessLine
<1>6. CASE ~GoodRequest(line) /\ sudoku' = Refuse(rest) /\ UNCHANGED pool
  <2>1. InOrder(pool, rest, kind, threads, script)
    BY <1>0, <1>2, <1>5, InOrderDrop
  <2>2. InOrder(pool, Refuse(rest), kind, threads, script)
    BY <2>1, InOrderRefuse
  <2> QED BY <1>6, <2>2 DEF OrderInv
<1>7. CASE GoodRequest(line) /\ (SolveHere(good, n) \/ HandOver(good, n))
  <2>1. sudoku.kind = kind /\ pool.threads = threads /\ sudoku \in SudokuRecord(kind, script)
    BY <1>0 DEF InOrder, SudokuRecord, PoolRecord
  <2>2. Takes(sudoku, kind, threads, n)
    BY <1>1, <1>3, <1>5, <1>7, <2>1 DEF GoodRequest, Takes, Ids
  <2>3. good = Taken(sudoku, n)
    BY <1>2, <1>4, <2>1 DEF Taken, SudokuRecord
  <2>4. CASE SolveHere(good, n)
    <3>1. threads = {} /\ sudoku' = SendHere(Taken(sudoku, n), n) /\ pool' = pool
      BY <2>1, <2>3, <2>4 DEF SolveHere
    <3>2. InOrder(pool, SendHere(Taken(sudoku, n), n), kind, threads, script)
      BY <1>0, <2>2, <3>1, InOrderHere
    <3> QED BY <3>1, <3>2 DEF OrderInv
  <2>5. CASE HandOver(good, n)
    <3>1. threads # {} /\ sudoku' = Taken(sudoku, n) /\ pool' \in run(pool, IoLoop, n)
      BY <2>1, <2>3, <2>5 DEF HandOver
    <3>2. \A next \in run(pool, IoLoop, n) : InOrder(next, Taken(sudoku, n), kind, threads, script)
      BY <1>0, <2>2, <3>1, InOrderQueued
    <3> QED BY <3>1, <3>2 DEF OrderInv
  <2> QED BY <1>7, <2>4, <2>5
<1> QED BY <1>5, <1>6, <1>7

\* The pool.
LEMMA TakeInOrder ==
    ASSUME NEW kind, NEW threads, NEW script, Program(kind, threads), OrderInv(kind, threads, script),
           NEW w \in Workers, Take(w), UNCHANGED sudoku
    PROVE  OrderInv(kind, threads, script)'
<1>0. InOrder(pool, sudoku, kind, threads, script) /\ threads \subseteq Workers
  BY DEF OrderInv, Program
<1>1. pool.maxQueueSize = 0
  BY <1>0 DEF InOrder, PoolRecord
<1>2. ASSUME NEW x \in {"loop", "take", "wait", "done"}, pool.worker[w] \in {"loop", "take"},
             pool' = [pool EXCEPT !.worker[w] = x]
      PROVE  OrderInv(kind, threads, script)'
  <2>1. InOrder([pool EXCEPT !.worker[w] = x], sudoku, kind, threads, script)
    BY <1>0, <1>2, InOrderIdle
  <2> QED BY <1>2, <2>1 DEF OrderInv
<1>3. CASE TestRunning(w)
  <2>1. PICK x \in {"take", "done"} : pool' = [pool EXCEPT !.worker[w] = x]
    BY <1>3 DEF TestRunning
  <2> QED BY <1>2, <1>3, <2>1 DEF TestRunning
<1>4. CASE take(w)
  <2>1. PICK next : next = [pool EXCEPT !.worker[w] = "run", !.task[w] = Head(pool.queue),
                                        !.queue = Tail(@), !.started = Append(@, Head(pool.queue))]
    OBVIOUS
  <2>2. pool.worker[w] = "take"
    BY <1>4 DEF take
  <2>3. \/ pool.queue # <<>> /\ pool' = next
        \/ pool' = [pool EXCEPT !.worker[w] = "wait"]
        \/ pool' = [pool EXCEPT !.worker[w] = "loop"]
    BY <1>1, <1>4, <2>1 DEF take
  <2>4. CASE pool.queue # <<>> /\ pool' = next
    <3>1. InOrder(next, sudoku, kind, threads, script)
      BY <1>0, <2>1, <2>2, <2>4, InOrderTake
    <3> QED BY <2>4, <3>1 DEF OrderInv
  <2> QED BY <1>2, <2>2, <2>3, <2>4
<1> QED BY <1>3, <1>4 DEF Take

\* Every step.
LEMMA SudokuStep ==
    ASSUME NEW kind, NEW threads, NEW script, Program(kind, threads), Script(script),
           OrderInv(kind, threads, script), [SudokuNext]_<<pool, sudoku>>
    PROVE  OrderInv(kind, threads, script)'
<1>0. InOrder(pool, sudoku, kind, threads, script)
  BY DEF OrderInv
<1>1. ASSUME NEW n \in 1 .. Len(sudoku.wire), ReadMessage(n) PROVE OrderInv(kind, threads, script)'
  <2>1. InOrder(pool, [sudoku EXCEPT !.input = @ \o SubSeq(sudoku.wire, 1, n), !.wire = Retrieve(@, n),
                                   !.reading = TRUE], kind, threads, script)
    BY <1>0, InOrderRead
  <2> QED BY <1>1, <2>1 DEF OrderInv, ReadMessage
<1>2. CASE ProcessLine
  BY <1>2, ProcessLineInOrder
<1>3. CASE EndMessage
  <2>1. InOrder(pool, [sudoku EXCEPT !.reading = FALSE], kind, threads, script)
    BY <1>0, InOrderReading
  <2>2. InOrder(pool, Refuse(sudoku), kind, threads, script)
    BY <1>0, InOrderRefuse
  <2>3. pool' = pool /\ (sudoku' = [sudoku EXCEPT !.reading = FALSE] \/ sudoku' = Refuse(sudoku))
    BY <1>3 DEF EndMessage
  <2> QED BY <2>1, <2>2, <2>3 DEF OrderInv
<1>4. CASE RunSendInLoop
  <2>1. InOrder(pool, [SendInLoop(sudoku, Head(sudoku.functors)) EXCEPT !.functors = Tail(@)],
              kind, threads, script)
    BY <1>0, <1>4, InOrderSent DEF RunSendInLoop
  <2> QED BY <1>4, <2>1 DEF OrderInv, RunSendInLoop
<1>5. CASE FinishShutdown
  <2>1. InOrder(pool, [sudoku EXCEPT !.fin = TRUE], kind, threads, script)
    BY <1>0, <1>5, InOrderFin DEF FinishShutdown
  <2> QED BY <1>5, <2>1 DEF OrderInv, FinishShutdown
<1>6. ASSUME NEW w \in Workers, solve(w) PROVE OrderInv(kind, threads, script)'
  <2>1. PICK next : next = [pool EXCEPT !.worker[w] = "loop", !.task[w] = NoTask]
    OBVIOUS
  <2>2. pool.worker[w] = "run" /\ pool' = next /\ sudoku' = SendFromWorker(sudoku, pool.task[w])
    BY <1>6, <2>1 DEF solve, TaskDone
  <2>3. InOrder(next, SendFromWorker(sudoku, pool.task[w]), kind, threads, script)
    BY <1>0, <2>1, <2>2, InOrderSolve
  <2> QED BY <2>2, <2>3 DEF OrderInv
<1>7. ASSUME NEW w \in Workers, Take(w), UNCHANGED sudoku PROVE OrderInv(kind, threads, script)'
  BY <1>7, TakeInOrder
<1>8. CASE UNCHANGED <<pool, sudoku>>
  BY <1>8 DEF OrderInv
<1> QED BY <1>1, <1>2, <1>3, <1>4, <1>5, <1>6, <1>7, <1>8 DEF SudokuNext

\* The start.
LEMMA SudokuStarts ==
    ASSUME NEW kind, NEW threads, NEW script, Program(kind, threads), Script(script),
           PoolStart(threads, 0), SudokuStart(kind, script)
    PROVE  OrderInv(kind, threads, script)
<1>0. PICK e : e = <<>>
  OBVIOUS
<1>1. e \in Seq(Nat) /\ e \in Seq(Tokens) /\ ToSet(e) = {} /\ Len(e) = 0
  BY <1>0 DEF ToSet
<1>2. PICK k : k = [w \in Workers |-> NoTask]
  OBVIOUS
<1>3. k \in [Workers -> Nat \cup {NoTask}] /\ Tasks(k) = {} /\ OwnTasks(k)
  BY <1>2 DEF Tasks, OwnTasks
<1>4. PICK f : f = [p \in Producers |-> NoTask]
  OBVIOUS
<1>5. PICK h : h = [w \in Workers |-> IF w \in threads THEN "loop" ELSE "done"]
  OBVIOUS
<1>6. /\ f \in [Producers -> Nat \cup {NoTask}]
      /\ h \in [Workers -> {"loop", "take", "wait", "run", "done"}]
  BY <1>4, <1>5
<1>7. pool = [threads |-> threads, maxQueueSize |-> 0, queue |-> e, running |-> TRUE, worker |-> h,
              task |-> k, offer |-> f, notFull |-> {}, stopping |-> FALSE, joined |-> FALSE,
              accepted |-> e, started |-> e]
  BY <1>0, <1>2, <1>4, <1>5 DEF PoolStart
<1>8. /\ pool \in PoolRecord(threads) /\ pool.worker = h /\ pool.task = k /\ pool.queue = e
      /\ pool.threads = threads
  BY <1>1, <1>3, <1>6, <1>7 DEF PoolRecord
<1>9. Hands(pool)
  BY <1>2, <1>5, <1>8 DEF Hands
<1>10. sudoku = [kind |-> kind, wire |-> script, sent |-> script, input |-> e, reading |-> FALSE,
                 connected |-> TRUE, fin |-> FALSE, functors |-> e, taken |-> e, out |-> e]
  BY <1>0 DEF SudokuStart
<1>11. script \in Seq(Tokens)
  BY DEF Script
<1>12. /\ sudoku \in SudokuRecord(kind, script) /\ sudoku.functors = e /\ sudoku.input = e
       /\ sudoku.wire = script /\ sudoku.taken = e /\ sudoku.out = e
       /\ sudoku.connected = TRUE /\ sudoku.fin = FALSE
  BY <1>1, <1>10, <1>11 DEF SudokuRecord
<1>13. Stream(script, e, script, e, Ids(kind, threads))
  <2>1. Place(script, e, script, 0)
    BY <1>1, <1>11 DEF Place
  <2>2. Behind(script, e, Ids(kind, threads), 0)
    BY <1>1 DEF Behind
  <2> QED BY <2>1, <2>2 DEF Stream
<1>14. Moving(e, e, e, k, e, TRUE, FALSE, One(threads))
  <2>1. Rising(e) /\ Once(e)
    BY <1>1 DEF Rising, Once
  <2>2. Stages({}, {}, {}, {}, {}, TRUE, FALSE, One(threads))
    BY DEF Stages, Apart, InLine, NoGap, Below
  <2>3. Stages(ToSet(e), ToSet(e) \ {0}, ToSet(e), Tasks(k), ToSet(e), TRUE, FALSE, One(threads))
    BY <1>1, <1>3, <2>2
  <2> QED BY <1>1, <1>3, <2>1, <2>3 DEF Moving
<1> QED BY <1>0, <1>8, <1>9, <1>12, <1>13, <1>14 DEF OrderInv, InOrder

\* What the invariant says of the answers.
LEMMA OrderShown ==
    ASSUME NEW kind, NEW threads, NEW script, Program(kind, threads), Script(script),
           OrderInv(kind, threads, script)
    PROVE  AnswersInOrder
<1>1. PICK t, o, f, k, q, c, fin, one :
          /\ t = sudoku.taken /\ o = sudoku.out /\ f = sudoku.functors /\ k = pool.task /\ q = pool.queue
          /\ c = sudoku.connected /\ fin = sudoku.fin /\ one = One(threads)
  OBVIOUS
<1>2. Moving(t, o, f, k, q, c, fin, one)
  BY <1>1 DEF OrderInv, InOrder
<1>3. sudoku.kind = kind /\ pool.threads = threads /\ sudoku.sent = script
  BY DEF OrderInv, InOrder, SudokuRecord, PoolRecord
<1>4. /\ t \in Seq(Nat) /\ o \in Seq(Nat) /\ Rising(t) /\ 0 \notin ToSet(t) /\ Once(o)
      /\ one => Rising(o) /\ NoGap(ToSet(t), ToSet(o) \ {0}, ToSet(f), fin)
      /\ ToSet(o) \ {0} \subseteq ToSet(t)
      /\ c => ToSet(t) \subseteq (ToSet(o) \ {0}) \cup ToSet(f) \cup Tasks(k) \cup ToSet(q)
  BY <1>2 DEF Moving, Stages
<1>5. /\ Len(t) \in Nat /\ DOMAIN t = 1 .. Len(t) /\ Len(o) \in Nat /\ DOMAIN o = 1 .. Len(o)
      /\ \A i \in 1 .. Len(t) : t[i] \in Nat /\ t[i] \in ToSet(t) /\ t[i] # 0
      /\ \A i \in 1 .. Len(o) : o[i] \in Nat /\ o[i] \in ToSet(o)
      /\ \A x \in ToSet(o) : \E i \in 1 .. Len(o) : x = o[i]
  BY <1>4 DEF ToSet
<1>6. ASSUME ~(kind = "threadpool" /\ Cardinality(threads) > 1), NEW i \in DOMAIN o, NEW n \in DOMAIN t,
             NEW j \in 1 .. n - 1, o[i] = t[n], Anonymous(t[j]), Anonymous(t[n])
      PROVE  \E h \in 1 .. i - 1 : o[h] = t[j]
  <2>1. j \in 1 .. Len(t) /\ n \in 1 .. Len(t) /\ i \in 1 .. Len(o) /\ j < n
    BY <1>5
  <2>2. t[j] < t[n] /\ t[j] \in ToSet(t) /\ t[n] \in ToSet(o) \ {0} /\ t[j] \in Nat /\ t[n] \in Nat /\ t[j] # 0
    BY <1>4, <1>5, <1>6, <2>1 DEF Rising
  <2>3. CASE one
    <3>1. t[j] \in ToSet(o)
      BY <1>4, <2>2, <2>3 DEF NoGap
    <3>2. PICK h \in 1 .. Len(o) : o[h] = t[j]
      BY <1>5, <3>1
    <3>3. Rising(o)
      BY <1>4, <2>3
    <3>4. ~(i < h) /\ i # h
      <4>1. o[i] = t[n] /\ o[i] # 0 /\ o[h] # 0
        BY <1>6, <2>2, <3>2
      <4>2. i < h => o[i] < o[h]
        BY <2>1, <3>3, <4>1 DEF Rising
      <4>3. ~(t[n] < t[j]) /\ t[n] # t[j]
        BY <2>2
      <4> QED BY <3>2, <4>1, <4>2, <4>3
    <3>5. h \in 1 .. i - 1
      BY <2>1, <3>4
    <3> QED BY <3>2, <3>5
  <2>4. CASE ~one
    <3>1. Cardinality(threads) > 1
      BY <1>1, <2>4 DEF One
    <3>2. threads # {}
      BY <3>1, FS_EmptySet
    <3>3. kind = "hybrid"
      BY <1>6, <3>1, <3>2 DEF Program
    <3>4. Ids(kind, threads)
      BY <3>1, <3>3 DEF Ids
    <3>5. PICK p \in Nat : Place(script, sudoku.input, sudoku.wire, p) /\ Behind(script, t, Ids(kind, threads), p)
      BY <1>1 DEF OrderInv, InOrder, Stream
    <3>6. PICK m \in 1 .. p : script[m].text = "request" /\ script[m].n = t[n] /\ script[m].hasId
      BY <1>5, <2>1, <3>4, <3>5 DEF Behind
    <3>7. script[m] \in ToSet(script)
      <4>1. script \in Seq(Tokens) /\ Len(sudoku.input) \in Nat /\ Len(sudoku.wire) \in Nat
        BY DEF Script, OrderInv, InOrder, SudokuRecord
      <4>2. Len(script) \in Nat /\ p <= Len(script) /\ DOMAIN script = 1 .. Len(script)
        BY <3>5, <4>1 DEF Place
      <4> QED BY <4>2 DEF ToSet
    <3> QED BY <1>3, <1>6, <3>6, <3>7 DEF Anonymous
  <2> QED BY <2>3, <2>4
<1>7. \A i, j \in DOMAIN o : (o[i] = o[j] /\ o[i] # 0) => i = j
  BY <1>4, <1>5 DEF Once
<1>8. ASSUME Quiet, c PROVE ToSet(t) \subseteq ToSet(o)
  <2>1. f = <<>> /\ q = <<>> /\ \A w \in Workers : k[w] = NoTask
    BY <1>1, <1>8 DEF Quiet
  <2>2. ToSet(f) = {} /\ ToSet(q) = {} /\ Tasks(k) = {}
    BY <2>1 DEF ToSet, Tasks
  <2> QED BY <1>4, <1>8, <2>2
<1>9. BadRequest = 0
  BY DEF BadRequest
<1>10. ~(sudoku.kind = "threadpool" /\ Cardinality(pool.threads) > 1) =>
         \A i \in DOMAIN o, n \in DOMAIN t : \A j \in 1 .. n - 1 :
            (o[i] = t[n] /\ Anonymous(t[j]) /\ Anonymous(t[n])) => \E h \in 1 .. i - 1 : o[h] = t[j]
  BY <1>3, <1>6
<1>11. \A i, j \in DOMAIN o : (o[i] = o[j] /\ o[i] # BadRequest) => i = j
  BY <1>7, <1>9
<1>12. ToSet(o) \ {BadRequest} \subseteq ToSet(t)
  BY <1>4, <1>9
<1>13. Quiet /\ sudoku.connected => ToSet(t) \subseteq ToSet(o)
  BY <1>1, <1>8
<1>14. t = sudoku.taken /\ o = sudoku.out
  BY <1>1
<1> QED BY ONLY <1>10, <1>11, <1>12, <1>13, <1>14 DEF AnswersInOrder

(***************************************************************************)
(* The answers of a sudoku server, with any threads, to any client that    *)
(* numbers its requests in order (AnswersInOrder; server_basic.cc,         *)
(* server_multiloop.cc, server_threadpool.cc, server_hybrid.cc): those     *)
(* without id come in the order of the requests, except from               *)
(* server_threadpool with several threads; no request is answered twice,   *)
(* and none stays unanswered unless the server refused a line.             *)
(***************************************************************************)
THEOREM SudokuAnswersInOrder ==
    ASSUME NEW CONSTANT kind, NEW CONSTANT threads, NEW CONSTANT script,
           Program(kind, threads), Script(script)
    PROVE  PoolStart(threads, 0) /\ SudokuStart(kind, script) /\ [][SudokuNext]_<<pool, sudoku>>
               => []AnswersInOrder
<1>1. PoolStart(threads, 0) /\ SudokuStart(kind, script) => OrderInv(kind, threads, script)
  BY SudokuStarts
<1>2. OrderInv(kind, threads, script) /\ [SudokuNext]_<<pool, sudoku>> => OrderInv(kind, threads, script)'
  BY SudokuStep
<1>3. OrderInv(kind, threads, script) => AnswersInOrder
  BY OrderShown
<1> QED BY <1>1, <1>2, <1>3, PTL

-----------------------------------------------------------------------------
(***************************************************************************)
(* ThreadPool.  To the shape of the pool, PoolSound adds all an inductive  *)
(* invariant needs: a producer asleep on notFull_ has a task in hand.      *)
(***************************************************************************)
PoolTask == Producers \X (1 .. MaxTasks)

PoolType ==
    [threads : SUBSET Workers, maxQueueSize : Nat, queue : Seq(PoolTask),
     running : BOOLEAN,
     worker : [Workers -> {"loop", "take", "wait", "run", "done"}],
     task : [Workers -> PoolTask \cup {NoTask}],
     offer : [Producers -> PoolTask \cup {NoTask}],
     notFull : SUBSET Producers,
     stopping : BOOLEAN, joined : BOOLEAN,
     accepted : Seq(PoolTask), started : Seq(PoolTask)]

PoolTypeOK ==
    /\ pool \in PoolType
    /\ \A p \in pool.notFull : pool.offer[p] # NoTask

PoolInv == PoolTypeOK /\ PoolSound

\* No task is NoTask.
LEMMA PoolTaskIsTask == \A t \in PoolTask : t # NoTask
BY PoolTasks DEF PoolTask

\* Adding a thread to a finite set of threads adds one to its size.
LEMMA OneMore ==
    ASSUME NEW S, NEW T, NEW x, IsFiniteSet(S), x \notin S, T = S \cup {x}
    PROVE  Cardinality(S) \in Nat /\ Cardinality(T) = Cardinality(S) + 1
BY FS_AddElement, FS_CardinalityType

\* The sets of threads that the invariant counts are finite.
LEMMA PoolFinite ==
    IsFiniteSet(Looking) /\ IsFiniteSet(Woken)
    /\ Cardinality(Looking) \in Nat /\ Cardinality(Woken) \in Nat
<1>1. Looking \subseteq Workers /\ Woken \subseteq Producers
  BY DEF Looking, Woken
<1>2. IsFiniteSet(Looking)
  BY <1>1, FS_Subset, PoolThreads
<1>3. IsFiniteSet(Woken)
  BY <1>1, FS_Subset, PoolProducers
<1>. QED BY <1>2, <1>3, FS_CardinalityType

\* The same, after a step.
LEMMA PoolFiniteNext ==
    IsFiniteSet(Looking') /\ IsFiniteSet(Woken')
    /\ Cardinality(Looking') \in Nat /\ Cardinality(Woken') \in Nat
<1>1. Looking' \subseteq Workers /\ Woken' \subseteq Producers
  BY DEF Looking, Woken
<1>2. IsFiniteSet(Looking')
  BY <1>1, FS_Subset, PoolThreads
<1>3. IsFiniteSet(Woken')
  BY <1>1, FS_Subset, PoolProducers
<1>. QED BY <1>2, <1>3, FS_CardinalityType

\* Queueing a task at the back leaves what was started at the front.
LEMMA QueuedBehind ==
    ASSUME NEW s \in Seq(PoolTask), NEW q \in Seq(PoolTask), NEW t \in PoolTask
    PROVE  Append(s \o q, t) = s \o Append(q, t)
<1>1. Append(s \o q, t) \in Seq(PoolTask) /\ s \o Append(q, t) \in Seq(PoolTask)
  OBVIOUS
<1>2. Len(Append(s \o q, t)) = Len(s \o Append(q, t))
  OBVIOUS
<1>3. ASSUME NEW i \in 1 .. Len(Append(s \o q, t))
      PROVE  Append(s \o q, t)[i] = (s \o Append(q, t))[i]
  OBVIOUS
<1>. QED BY <1>1, <1>2, <1>3, SeqEqual

\* Taking the task at the front moves it to the end of what was started.
LEMMA TakenInOrder ==
    ASSUME NEW s \in Seq(PoolTask), NEW q \in Seq(PoolTask), q # <<>>
    PROVE  s \o q = Append(s, Head(q)) \o Tail(q)
<1>1. Len(q) \in Nat \ {0} /\ Head(q) = q[1] /\ Head(q) \in PoolTask /\ Tail(q) \in Seq(PoolTask)
      /\ Len(Tail(q)) = Len(q) - 1
  OBVIOUS
<1>2. s \o q \in Seq(PoolTask) /\ Append(s, Head(q)) \in Seq(PoolTask)
      /\ Len(Append(s, Head(q))) = Len(s) + 1
  BY <1>1
<1>3. Append(s, Head(q)) \o Tail(q) \in Seq(PoolTask)
  BY <1>1, <1>2
<1>4. Len(s \o q) = Len(Append(s, Head(q)) \o Tail(q))
  BY <1>1, <1>2
<1>5. ASSUME NEW i \in 1 .. Len(s \o q)
      PROVE  (s \o q)[i] = (Append(s, Head(q)) \o Tail(q))[i]
  <2>1. CASE i <= Len(s)
    BY <1>1, <1>2, <2>1
  <2>2. CASE i = Len(s) + 1
    BY <1>1, <1>2, <2>2
  <2>3. CASE i > Len(s) + 1
    <3>1. i - (Len(s) + 1) \in 1 .. Len(Tail(q))
      BY <1>1, <1>2, <2>3
    <3>2. (Append(s, Head(q)) \o Tail(q))[i] = Tail(q)[i - (Len(s) + 1)]
      BY <1>1, <1>2, <2>3
    <3>3. Tail(q)[i - (Len(s) + 1)] = q[i - Len(s)]
      BY <1>1, <3>1
    <3>4. (s \o q)[i] = q[i - Len(s)]
      BY <2>3
    <3>. QED BY <3>2, <3>3, <3>4
  <2>. QED BY <2>1, <2>2, <2>3
<1>. QED BY <1>2, <1>3, <1>4, <1>5, SeqEqual

\* A producer has offered a natural number of tasks.
LEMMA OfferedType ==
    ASSUME PoolTypeOK, NEW p \in Producers
    PROVE  Offered(p) \in Nat
<1>1. pool.accepted \in Seq(PoolTask)
  BY DEF PoolTypeOK, PoolType
<1>2. DOMAIN pool.accepted = 1 .. Len(pool.accepted) /\ Len(pool.accepted) \in Nat
  BY <1>1
<1>3. IsFiniteSet(DOMAIN pool.accepted)
  BY <1>2, FS_Interval
<1>4. IsFiniteSet({i \in DOMAIN pool.accepted : pool.accepted[i][1] = p})
  BY <1>3, FS_Subset
<1>. QED BY <1>4, FS_CardinalityType DEF Offered

\* run(): a producer that finds the queue full goes to sleep on notFull_; one that does not
\* queues its task and wakes one sleeping worker.
LEMMA RunKeeps ==
    ASSUME PoolInv, NEW p \in Producers, NEW t \in PoolTask, pool' \in run(pool, p, t),
           p \notin pool.notFull
    PROVE  PoolInv'
<1>1. CASE isFull(pool)
  <2>0. pool' = [pool EXCEPT !.offer[p] = t, !.notFull = @ \cup {p}]
    BY <1>1 DEF run
  <2>1. PoolTypeOK'
    <3>1. pool \in PoolType /\ t # NoTask /\ \A r \in pool.notFull : pool.offer[r] # NoTask
      BY PoolTaskIsTask DEF PoolInv, PoolTypeOK
    <3>2. pool' \in PoolType
      BY <2>0, <3>1 DEF PoolType
    <3>3. pool.offer \in [Producers -> PoolTask \cup {NoTask}] /\ pool.notFull \subseteq Producers
          /\ pool'.offer = [pool.offer EXCEPT ![p] = t] /\ pool'.notFull = pool.notFull \cup {p}
      BY <2>0, <3>1 DEF PoolType
    <3>4. \A r \in pool'.notFull : pool'.offer[r] # NoTask
      BY <3>1, <3>3
    <3>. QED BY <3>2, <3>4 DEF PoolTypeOK
  <2>2. Looking' = Looking /\ Sleeping(pool') = Sleeping(pool)
    BY <2>0 DEF Looking, Sleeping, PoolInv, PoolTypeOK, PoolType
  <2>3. pool'.queue = pool.queue /\ pool'.maxQueueSize = pool.maxQueueSize
        /\ pool'.accepted = pool.accepted /\ pool'.started = pool.started
        /\ pool'.running = pool.running
    BY <2>0 DEF PoolInv, PoolTypeOK, PoolType
  <2>4. Len(pool.queue) \in Nat /\ pool.maxQueueSize \in Nat
        /\ Len(pool.queue) >= pool.maxQueueSize
    BY <1>1 DEF isFull, PoolInv, PoolTypeOK, PoolType
  <2>5. Len(pool'.queue) + Cardinality(Woken') >= pool'.maxQueueSize
    BY <2>3, <2>4, PoolFiniteNext
  <2>. QED BY <2>1, <2>2, <2>3, <2>5 DEF PoolInv, PoolSound
<1>2. CASE ~isFull(pool)
  <2>. DEFINE next == [pool EXCEPT !.offer[p] = NoTask, !.queue = Append(@, t),
                                   !.accepted = Append(@, t)]
  <2>0. pool' \in NotifyEmpty(next)
    BY <1>2 DEF run
  <2>1. /\ next.queue = Append(pool.queue, t) /\ next.accepted = Append(pool.accepted, t)
        /\ next.offer = [pool.offer EXCEPT ![p] = NoTask] /\ next.worker = pool.worker
        /\ next.notFull = pool.notFull /\ next.started = pool.started
        /\ next.maxQueueSize = pool.maxQueueSize /\ next.running = pool.running
        /\ Sleeping(next) = Sleeping(pool)
    BY DEF PoolInv, PoolTypeOK, PoolType, Sleeping
  <2>2. Len(pool.queue) \in Nat /\ pool.maxQueueSize \in Nat
        /\ Len(Append(pool.queue, t)) = Len(pool.queue) + 1
        /\ (pool.maxQueueSize > 0 => Len(pool.queue) < pool.maxQueueSize)
    BY <1>2 DEF isFull, PoolInv, PoolTypeOK, PoolType
  <2>3. next \in PoolType
    <3>1. pool \in PoolType
      BY DEF PoolInv, PoolTypeOK
    <3>2. Append(pool.queue, t) \in Seq(PoolTask) /\ Append(pool.accepted, t) \in Seq(PoolTask)
      BY <3>1 DEF PoolType
    <3>. QED BY <3>1, <3>2 DEF PoolType
  <2>. HIDE DEF next
  <2>4. /\ pool' \in PoolType
        /\ pool'.queue = next.queue /\ pool'.accepted = next.accepted
        /\ pool'.offer = next.offer /\ pool'.notFull = next.notFull
        /\ pool'.started = next.started /\ pool'.maxQueueSize = next.maxQueueSize
        /\ pool'.running = next.running
        /\ \/ pool' = next /\ Sleeping(next) = {}
           \/ \E w \in Sleeping(next) : pool'.worker = [next.worker EXCEPT ![w] = "take"]
    <3>1. CASE Sleeping(next) = {}
      BY <2>0, <2>3, <3>1 DEF NotifyEmpty
    <3>2. CASE Sleeping(next) # {}
      <4>1. PICK w \in Sleeping(next) : pool' = [next EXCEPT !.worker[w] = "take"]
        BY <2>0, <3>2 DEF NotifyEmpty
      <4>2. w \in Workers
        BY DEF Sleeping
      <4>3. pool' \in PoolType
        BY <2>3, <4>1, <4>2 DEF PoolType
      <4>. QED BY <2>3, <4>1, <4>2, <4>3 DEF PoolType
    <3>. QED BY <3>1, <3>2
  <2>5. PoolTypeOK'
    BY <2>1, <2>4 DEF PoolInv, PoolTypeOK, PoolType
  <2>6. pool'.accepted = pool'.started \o pool'.queue
    <3>1. pool.accepted \in Seq(PoolTask) /\ pool.started \in Seq(PoolTask)
          /\ pool.queue \in Seq(PoolTask) /\ pool.accepted = pool.started \o pool.queue
      BY DEF PoolInv, PoolTypeOK, PoolType, PoolSound
    <3>2. PICK s \in Seq(PoolTask), q \in Seq(PoolTask) : s = pool.started /\ q = pool.queue
      BY <3>1
    <3>3. Append(s \o q, t) = s \o Append(q, t)
      BY QueuedBehind
    <3>4. pool'.accepted = Append(s \o q, t) /\ pool'.queue = Append(q, t) /\ pool'.started = s
      BY <2>1, <2>4, <3>1, <3>2
    <3>. QED BY <3>3, <3>4
  <2>7. pool'.maxQueueSize > 0 => Len(pool'.queue) <= pool'.maxQueueSize
    BY <2>1, <2>2, <2>4
  <2>8. Sleeping(pool') # {} => pool'.running /\ Len(pool'.queue) <= Cardinality(Looking')
    <3>1. CASE pool' = next /\ Sleeping(next) = {}
      BY <3>1
    <3>2. ASSUME NEW w \in Sleeping(next), pool'.worker = [next.worker EXCEPT ![w] = "take"]
          PROVE  pool'.running /\ Len(pool'.queue) <= Cardinality(Looking')
      <4>1. w \in Workers /\ pool.worker[w] = "wait" /\ w \in Sleeping(pool)
        BY <2>1 DEF Sleeping
      <4>2. Looking' = Looking \cup {w} /\ w \notin Looking
        BY <3>2, <4>1, <2>1 DEF Looking, PoolInv, PoolTypeOK, PoolType
      <4>3. Cardinality(Looking) \in Nat /\ Cardinality(Looking') = Cardinality(Looking) + 1
        BY <4>2, PoolFinite, OneMore
      <4>4. pool.running /\ Len(pool.queue) <= Cardinality(Looking)
        BY <4>1 DEF PoolInv, PoolSound
      <4>5. Len(pool'.queue) = Len(pool.queue) + 1 /\ pool'.running
        BY <2>1, <2>2, <2>4, <4>4
      <4>. QED BY <2>2, <4>3, <4>4, <4>5
    <3>. QED BY <2>4, <3>1, <3>2
  <2>9. pool'.notFull # {} => Len(pool'.queue) + Cardinality(Woken') >= pool'.maxQueueSize
    <3>. SUFFICES ASSUME pool.notFull # {}
                  PROVE  Len(pool.queue) + 1 + Cardinality(Woken') >= pool.maxQueueSize
      BY <2>1, <2>2, <2>4
    <3>0. Len(pool.queue) + Cardinality(Woken) >= pool.maxQueueSize
      BY DEF PoolInv, PoolSound
    <3>a. pool.offer \in [Producers -> PoolTask \cup {NoTask}]
      BY DEF PoolInv, PoolTypeOK, PoolType
    <3>1. p \notin Woken' /\ Woken \subseteq Woken' \cup {p}
      BY <2>1, <2>4, <3>a DEF Woken
    <3>2. Woken' \subseteq Woken
      BY <2>1, <2>4, <3>a DEF Woken
    <3>3. CASE p \in Woken
      <4>1. Woken = Woken' \cup {p}
        BY <3>1, <3>2, <3>3
      <4>2. Cardinality(Woken') \in Nat /\ Cardinality(Woken) = Cardinality(Woken') + 1
        BY <3>1, <4>1, PoolFiniteNext, OneMore
      <4>. QED BY <2>2, <3>0, <4>2
    <3>4. CASE p \notin Woken
      <4>1. Woken = Woken'
        BY <3>1, <3>2, <3>4
      <4>2. Cardinality(Woken) = Cardinality(Woken') /\ Cardinality(Woken) \in Nat
        BY <4>1, PoolFinite
      <4>. QED BY <2>2, <3>0, <4>2
    <3>. QED BY <3>3, <3>4
  <2>. QED BY <2>5, <2>6, <2>7, <2>8, <2>9 DEF PoolInv, PoolSound
<1>. QED BY <1>1, <1>2

\* take(): a worker takes the task at the front and wakes one producer that waits for room, or
\* goes to sleep, or finds that the pool was stopped.
LEMMA TakeKeeps ==
    ASSUME PoolInv, NEW w \in Workers, take(w)
    PROVE  PoolInv'
<1>. USE DEF PoolInv
<1>w. pool.worker \in [Workers -> {"loop", "take", "wait", "run", "done"}] /\ pool.worker[w] = "take"
      /\ w \in Looking /\ pool.queue \in Seq(PoolTask) /\ Len(pool.queue) \in Nat
      /\ pool.maxQueueSize \in Nat
  BY DEF PoolTypeOK, PoolType, take, Looking
<1>1. CASE pool.queue # <<>>
  <2>. DEFINE next == [pool EXCEPT !.worker[w] = "run", !.task[w] = Head(pool.queue),
                                   !.queue = Tail(@), !.started = Append(@, Head(pool.queue))]
  <2>0. pool' \in IF pool.maxQueueSize > 0 THEN NotifyFull(next) ELSE {next}
    BY <1>1 DEF take
  <2>q. Head(pool.queue) \in PoolTask /\ Tail(pool.queue) \in Seq(PoolTask)
        /\ Len(Tail(pool.queue)) = Len(pool.queue) - 1 /\ Len(pool.queue) > 0
    BY <1>w, <1>1
  <2>1. /\ next.queue = Tail(pool.queue) /\ next.started = Append(pool.started, Head(pool.queue))
        /\ next.offer = pool.offer /\ next.worker = [pool.worker EXCEPT ![w] = "run"]
        /\ next.notFull = pool.notFull /\ next.accepted = pool.accepted
        /\ next.maxQueueSize = pool.maxQueueSize /\ next.running = pool.running
    BY DEF PoolTypeOK, PoolType
  <2>3. next \in PoolType
    <3>1. pool \in PoolType
      BY DEF PoolTypeOK
    <3>2. Append(pool.started, Head(pool.queue)) \in Seq(PoolTask)
      BY <3>1, <2>q DEF PoolType
    <3>. QED BY <3>1, <3>2, <2>q DEF PoolType
  <2>. HIDE DEF next
  <2>4. /\ pool' \in PoolType
        /\ pool'.queue = next.queue /\ pool'.accepted = next.accepted
        /\ pool'.offer = next.offer /\ pool'.worker = next.worker
        /\ pool'.started = next.started /\ pool'.maxQueueSize = next.maxQueueSize
        /\ pool'.running = next.running
        /\ \/ pool' = next /\ (next.notFull = {} \/ ~(pool.maxQueueSize > 0))
           \/ \E p \in next.notFull : pool'.notFull = next.notFull \ {p}
    BY <2>0, <2>3 DEF NotifyFull, PoolType
  <2>5. PoolTypeOK'
    BY <2>1, <2>4 DEF PoolTypeOK, PoolType
  <2>6. pool'.accepted = pool'.started \o pool'.queue
    <3>1. pool.started \in Seq(PoolTask) /\ pool.accepted = pool.started \o pool.queue
      BY DEF PoolTypeOK, PoolType, PoolSound
    <3>2. PICK s \in Seq(PoolTask), q \in Seq(PoolTask) :
            s = pool.started /\ q = pool.queue /\ q # <<>>
      BY <3>1, <1>w, <1>1
    <3>3. s \o q = Append(s, Head(q)) \o Tail(q)
      BY ONLY <3>2, TakenInOrder
    <3>. QED BY <2>1, <2>4, <3>1, <3>2, <3>3
  <2>7. pool'.maxQueueSize > 0 => Len(pool'.queue) <= pool'.maxQueueSize
    BY <2>1, <2>4, <2>q, <1>w DEF PoolSound
  <2>8. Sleeping(pool') # {} => pool'.running /\ Len(pool'.queue) <= Cardinality(Looking')
    <3>1. pool'.worker = [pool.worker EXCEPT ![w] = "run"]
      BY <2>1, <2>4
    <3>2. Sleeping(pool') \subseteq Sleeping(pool)
      BY <3>1, <1>w DEF Sleeping
    <3>3. Looking = Looking' \cup {w} /\ w \notin Looking'
      BY <3>1, <1>w DEF Looking
    <3>4. Cardinality(Looking') \in Nat /\ Cardinality(Looking) = Cardinality(Looking') + 1
      BY <3>3, PoolFiniteNext, OneMore
    <3>5. Sleeping(pool) # {} => pool.running /\ Len(pool.queue) <= Cardinality(Looking)
      BY DEF PoolSound
    <3>6. Len(pool'.queue) = Len(pool.queue) - 1 /\ pool'.running = pool.running
      BY <2>1, <2>4, <2>q
    <3>. QED BY <1>w, <3>2, <3>4, <3>5, <3>6
  <2>9. pool'.notFull # {} => Len(pool'.queue) + Cardinality(Woken') >= pool'.maxQueueSize
    <3>. SUFFICES ASSUME pool'.notFull # {}, pool.maxQueueSize > 0
                  PROVE  Len(pool.queue) - 1 + Cardinality(Woken') >= pool.maxQueueSize
      BY <2>1, <2>4, <2>q, <1>w, PoolFiniteNext
    <3>1. PICK p \in pool.notFull : pool'.notFull = pool.notFull \ {p}
      BY <2>1, <2>4
    <3>2. p \in Producers /\ pool.offer[p] # NoTask /\ pool'.offer = pool.offer
      BY <2>1, <2>4 DEF PoolTypeOK, PoolType
    <3>3. Woken' = Woken \cup {p} /\ p \notin Woken
      BY <3>1, <3>2 DEF Woken
    <3>4. Cardinality(Woken) \in Nat /\ Cardinality(Woken') = Cardinality(Woken) + 1
      BY <3>3, PoolFinite, OneMore
    <3>5. Len(pool.queue) + Cardinality(Woken) >= pool.maxQueueSize
      BY <3>1 DEF PoolSound
    <3>. QED BY <1>w, <3>4, <3>5
  <2>. QED BY <2>5, <2>6, <2>7, <2>8, <2>9 DEF PoolSound
<1>2. CASE pool.queue = <<>> /\ pool.running /\ pool' = [pool EXCEPT !.worker[w] = "wait"]
  <2>1. PoolTypeOK'
    BY <1>2 DEF PoolTypeOK, PoolType
  <2>2. pool'.queue = pool.queue /\ pool'.maxQueueSize = pool.maxQueueSize
        /\ pool'.accepted = pool.accepted /\ pool'.started = pool.started
        /\ pool'.running = pool.running /\ pool'.notFull = pool.notFull /\ pool'.offer = pool.offer
    BY <1>2 DEF PoolTypeOK, PoolType
  <2>3. Woken' = Woken
    BY <2>2 DEF Woken
  <2>4. pool'.running /\ Len(pool'.queue) <= Cardinality(Looking')
    BY <1>2, <2>2, PoolFiniteNext
  <2>. QED BY <2>1, <2>2, <2>3, <2>4 DEF PoolSound
<1>3. CASE pool.queue = <<>> /\ ~pool.running /\ pool' = [pool EXCEPT !.worker[w] = "loop"]
  <2>1. PoolTypeOK'
    BY <1>3 DEF PoolTypeOK, PoolType
  <2>2. pool'.queue = pool.queue /\ pool'.maxQueueSize = pool.maxQueueSize
        /\ pool'.accepted = pool.accepted /\ pool'.started = pool.started
        /\ pool'.running = pool.running /\ pool'.notFull = pool.notFull /\ pool'.offer = pool.offer
        /\ pool'.worker = [pool.worker EXCEPT ![w] = "loop"]
    BY <1>3 DEF PoolTypeOK, PoolType
  <2>3. Woken' = Woken
    BY <2>2 DEF Woken
  <2>4. Sleeping(pool') = {}
    BY <1>w, <1>3, <2>2 DEF Sleeping, PoolSound
  <2>. QED BY <2>1, <2>2, <2>3, <2>4 DEF PoolSound
<1>. QED BY <1>1, <1>2, <1>3 DEF take

\* A step that moves one worker and nothing else, so that no more workers sleep and no fewer look.
LEMMA WorkerMoves ==
    ASSUME PoolInv, NEW w \in Workers, NEW c \in {"loop", "take", "done"},
           pool.worker[w] # "take", pool'.worker = [pool.worker EXCEPT ![w] = c],
           PoolTypeOK', pool'.queue = pool.queue, pool'.maxQueueSize = pool.maxQueueSize,
           pool'.accepted = pool.accepted, pool'.started = pool.started,
           pool'.running = pool.running, pool'.notFull = pool.notFull, pool'.offer = pool.offer
    PROVE  PoolInv'
<1>1. pool.worker \in [Workers -> {"loop", "take", "wait", "run", "done"}]
      /\ Len(pool.queue) \in Nat
  BY DEF PoolInv, PoolTypeOK, PoolType
<1>2. Woken' = Woken
  BY DEF Woken
<1>3. Sleeping(pool') \subseteq Sleeping(pool)
  BY <1>1 DEF Sleeping
<1>4. Looking \subseteq Looking'
  BY <1>1 DEF Looking
<1>5. Cardinality(Looking) <= Cardinality(Looking')
  BY <1>4, PoolFiniteNext, FS_Subset
<1>6. Sleeping(pool') # {} => pool'.running /\ Len(pool'.queue) <= Cardinality(Looking')
  BY <1>1, <1>3, <1>5, PoolFinite, PoolFiniteNext DEF PoolInv, PoolSound
<1>. QED BY <1>2, <1>6 DEF PoolInv, PoolSound

\* A producer that wakes by itself is one more that was woken.
LEMMA ProducerWakes ==
    ASSUME PoolInv, NEW p \in pool.notFull, pool' = [pool EXCEPT !.notFull = @ \ {p}]
    PROVE  PoolInv'
<1>1. PoolTypeOK'
  BY DEF PoolInv, PoolTypeOK, PoolType
<1>2. pool'.queue = pool.queue /\ pool'.maxQueueSize = pool.maxQueueSize
      /\ pool'.accepted = pool.accepted /\ pool'.started = pool.started
      /\ pool'.running = pool.running /\ pool'.worker = pool.worker /\ pool'.offer = pool.offer
      /\ pool'.notFull = pool.notFull \ {p}
      /\ Len(pool.queue) \in Nat /\ pool.maxQueueSize \in Nat
  BY DEF PoolInv, PoolTypeOK, PoolType
<1>3. Looking' = Looking /\ Sleeping(pool') = Sleeping(pool)
  BY <1>2 DEF Looking, Sleeping
<1>4. Woken \subseteq Woken'
  BY <1>2 DEF Woken
<1>5. Cardinality(Woken) <= Cardinality(Woken')
  BY <1>4, PoolFiniteNext, FS_Subset
<1>6. Len(pool'.queue) + Cardinality(Woken') >= pool'.maxQueueSize
  BY <1>2, <1>5, PoolFinite, PoolFiniteNext DEF PoolInv, PoolSound
<1>. QED BY <1>1, <1>2, <1>3, <1>6 DEF PoolInv, PoolSound

\* stop() wakes every worker that sleeps.
LEMMA StopKeeps ==
    ASSUME PoolInv, stop
    PROVE  PoolInv'
<1>1. PoolTypeOK'
  BY DEF PoolInv, PoolTypeOK, PoolType, stop
<1>2. pool'.queue = pool.queue /\ pool'.maxQueueSize = pool.maxQueueSize
      /\ pool'.accepted = pool.accepted /\ pool'.started = pool.started
      /\ pool'.notFull = pool.notFull /\ pool'.offer = pool.offer
      /\ pool'.worker = [w \in Workers |-> IF pool.worker[w] = "wait" THEN "take" ELSE pool.worker[w]]
  BY DEF PoolInv, PoolTypeOK, PoolType, stop
<1>3. Woken' = Woken
  BY <1>2 DEF Woken
<1>4. Sleeping(pool') = {}
  BY <1>2 DEF Sleeping
<1>. QED BY <1>1, <1>2, <1>3, <1>4 DEF PoolInv, PoolSound

\* Every step of the pool keeps the invariant.
LEMMA PoolStep ==
    ASSUME PoolInv, [PoolNext]_pool
    PROVE  PoolInv'
<1>1. ASSUME NEW w \in Workers, TestRunning(w)
      PROVE  PoolInv'
  <2>1. PICK c \in {"take", "done"} : pool' = [pool EXCEPT !.worker[w] = c]
    BY <1>1 DEF TestRunning
  <2>2. pool.worker[w] # "take"
    BY <1>1 DEF TestRunning
  <2>3. PoolTypeOK'
    BY <2>1 DEF PoolInv, PoolTypeOK, PoolType
  <2>. QED BY <2>1, <2>2, <2>3, WorkerMoves DEF PoolInv, PoolTypeOK, PoolType
<1>2. ASSUME NEW w \in Workers, TaskDone(w)
      PROVE  PoolInv'
  <2>1. PoolTypeOK'
    BY <1>2 DEF PoolInv, PoolTypeOK, PoolType, TaskDone
  <2>2. pool.worker[w] # "take" /\ pool'.worker = [pool.worker EXCEPT ![w] = "loop"]
    BY <1>2 DEF PoolInv, PoolTypeOK, PoolType, TaskDone
  <2>. QED BY <1>2, <2>1, <2>2, WorkerMoves DEF PoolInv, PoolTypeOK, PoolType, TaskDone
<1>3. ASSUME NEW p \in Producers, Produce(p)
      PROVE  PoolInv'
  <2>1. <<p, Offered(p) + 1>> \in PoolTask
    BY <1>3, OfferedType, PoolTasks DEF Produce, PoolTask, PoolInv
  <2>2. pool.offer[p] = NoTask /\ p \notin pool.notFull
    BY <1>3 DEF Produce, PoolInv, PoolTypeOK, PoolType
  <2>. QED BY <1>3, <2>1, <2>2, RunKeeps DEF Produce
<1>4. ASSUME NEW p \in Producers, RunAgain(p)
      PROVE  PoolInv'
  <2>1. pool.offer[p] \in PoolTask
    BY <1>4 DEF RunAgain, PoolInv, PoolTypeOK, PoolType
  <2>. QED BY <1>4, <2>1, RunKeeps DEF RunAgain
<1>5. ASSUME NEW w \in Sleeping(pool), pool' = [pool EXCEPT !.worker[w] = "take"]
      PROVE  PoolInv'
  <2>1. w \in Workers /\ pool.worker[w] # "take"
    BY DEF Sleeping
  <2>2. PoolTypeOK'
    BY <1>5, <2>1 DEF PoolInv, PoolTypeOK, PoolType
  <2>. QED BY <1>5, <2>1, <2>2, WorkerMoves DEF PoolInv, PoolTypeOK, PoolType
<1>6. CASE Join
  <2>1. PoolTypeOK'
    BY <1>6 DEF PoolInv, PoolTypeOK, PoolType, Join
  <2>2. pool'.queue = pool.queue /\ pool'.maxQueueSize = pool.maxQueueSize
        /\ pool'.accepted = pool.accepted /\ pool'.started = pool.started
        /\ pool'.running = pool.running /\ pool'.worker = pool.worker /\ pool'.offer = pool.offer
        /\ pool'.notFull = pool.notFull
    BY <1>6 DEF PoolInv, PoolTypeOK, PoolType, Join
  <2>3. Looking' = Looking /\ Sleeping(pool') = Sleeping(pool) /\ Woken' = Woken
    BY <2>2 DEF Looking, Sleeping, Woken
  <2>. QED BY <2>1, <2>2, <2>3 DEF PoolInv, PoolSound
<1>7. CASE UNCHANGED pool
  BY <1>7 DEF PoolInv, PoolTypeOK, PoolType, PoolSound, Looking, Sleeping, Woken
<1>. QED
  BY <1>1, <1>2, <1>3, <1>4, <1>5, <1>6, <1>7, TakeKeeps, ProducerWakes, StopKeeps
  DEF PoolNext, Take, SpuriousWakeup

(***************************************************************************)
(* ThreadPool by itself (PoolSound; run(), take(), stop() in               *)
(* ThreadPool.cc), with any threads, producers and setMaxQueueSize:        *)
(* tasks are taken in the order in which run() queued them, the queue      *)
(* keeps its bound, and no notify is lost.  While a worker sleeps, as many *)
(* others are about to look at the queue as it has tasks; while a producer *)
(* sleeps, there is no more room than producers already woken for it.      *)
(***************************************************************************)
THEOREM PoolLosesNoWakeup ==
    ASSUME NEW CONSTANT threads, threads \subseteq Workers, NEW CONSTANT max \in Nat
    PROVE  PoolStart(threads, max) /\ [][PoolNext]_pool => []PoolSound
<1>1. PoolStart(threads, max) => PoolInv
  <2>. SUFFICES ASSUME PoolStart(threads, max) PROVE PoolInv
    OBVIOUS
  <2>1. PoolTypeOK
    BY DEF PoolStart, PoolTypeOK, PoolType
  <2>2. pool.queue = <<>> /\ pool.accepted = <<>> /\ pool.started = <<>> /\ pool.notFull = {}
        /\ pool.maxQueueSize = max
    BY DEF PoolStart
  <2>3. Sleeping(pool) = {}
    BY DEF PoolStart, Sleeping
  <2>4. <<>> \o <<>> = <<>> /\ Len(<<>>) <= max
    OBVIOUS
  <2>. QED BY <2>1, <2>2, <2>3, <2>4 DEF PoolInv, PoolSound
<1>2. PoolInv /\ [PoolNext]_pool => PoolInv'
  BY PoolStep
<1>3. PoolInv => PoolSound
  BY DEF PoolInv
<1>. QED BY <1>1, <1>2, <1>3, PTL
=============================================================================
