----------------------------- MODULE DataProofs -----------------------------
(***************************************************************************)
(* Three proofs that go by induction over data, for any sizes and any      *)
(* number of steps: that the counts of SudokuStat are those of the window  *)
(* of the last seconds, that AsyncLogging keeps every line, once and in    *)
(* its place, and that the dates and times of Calendar are right for every *)
(* day and come back as they went.                                         *)
(*                                                                         *)
(* The first two models compute with the folds of the community modules: a *)
(* count is MapThenSumSet over a ring of slots, a buffer's length is       *)
(* FoldFunction over its lines, and what waits for the file is FlattenSeq  *)
(* of the buffers.  Each of them is a CHOOSE of a function that satisfies  *)
(* a recursive equation, so the lemmas here show that there is such a      *)
(* function, that any two agree, and from that what the fold returns.  The *)
(* inductions are made over a set of numbers, NatSetInduction: a set that  *)
(* holds 0 and with a number its successor holds them all.                 *)
(*                                                                         *)
(* TrueStat is the invariant of the first proof: each of the two rings has *)
(* the true value of every second of its window, in its place, both have   *)
(* the same length, and the window counts no more than the good responses. *)
(* SafeLog is that of the second and Walk that of the third: see there.    *)
(***************************************************************************)
EXTENDS SudokuStat, AsyncLogging, Calendar, FiniteSetTheorems, SequenceTheorems, WellFoundedInduction, TLAPS

\* Induction over the naturals, for the numbers of a set.
LEMMA NatSetInduction ==
    ASSUME NEW T, 0 \in T, \A n \in Nat : n \in T => n + 1 \in T
    PROVE  Nat \subseteq T
<1> DEFINE R == OpToRel(<, Nat)
           C == Nat \ T
<1> SUFFICES ASSUME C # {} PROVE FALSE
  OBVIOUS
<1>1. \A x, y \in Nat : y < x => <<y, x>> \in R
  BY DEF OpToRel
<1>2. IsWellFoundedOn(R, Nat)
  BY NatLessThanWellFounded
<1> HIDE DEF R
<1>3. C \subseteq Nat
  OBVIOUS
<1> HIDE DEF C
<1>4. PICK x \in C : \A y \in C : ~ (<<y, x>> \in R)
  BY <1>2, <1>3, WFMin
<1>5. x \in Nat /\ x # 0 /\ x \notin T
  BY <1>3 DEF C
<1>6. x - 1 \in Nat /\ x - 1 < x /\ (x - 1) + 1 = x
  BY <1>5
<1>7. x - 1 \notin C
  BY <1>1, <1>4, <1>5, <1>6
<1> QED BY <1>5, <1>6, <1>7 DEF C

-----------------------------------------------------------------------------
(***************************************************************************)
(* What MapThenSumSet computes.  Its definition takes an element of a set  *)
(* after the other, in an order that CHOOSE fixes: Sums says that a        *)
(* function does so for every subset of D.                                 *)
(***************************************************************************)
Some(s) == CHOOSE x \in s : TRUE
SumOver(f, D) == MapThenSumSet(LAMBDA i : f[i], D)
Sums(it, f, E) == it = [s \in E |-> IF s = {} THEN 0 ELSE f[Some(s)] + it[s \ {Some(s)}]]
SumsTo(it, f, t) == \E D : Sums(it, f, SUBSET D) /\ t \subseteq D
UpTo(D, n) == {s \in SUBSET D : Cardinality(s) <= n}

\* The set without its next element is finite and smaller.
LEMMA NextSmaller ==
    ASSUME NEW s, IsFiniteSet(s), s # {}
    PROVE  /\ Some(s) \in s /\ IsFiniteSet(s \ {Some(s)})
           /\ Cardinality(s) \in Nat /\ Cardinality(s \ {Some(s)}) = Cardinality(s) - 1
<1>1. Some(s) \in s
  BY DEF Some
<1> QED BY <1>1, FS_RemoveElement, FS_CardinalityType

\* A set with elements is not empty.
LEMMA SizeNotNull ==
    ASSUME NEW s, NEW n \in Nat, Cardinality(s) = n + 1
    PROVE  s # {}
<1>1. Cardinality({}) = 0
  BY FS_EmptySet
<1> QED BY <1>1

\* There is such a function.
LEMMA SumsExist ==
    ASSUME NEW f, NEW D, IsFiniteSet(D)
    PROVE  \E it : Sums(it, f, SUBSET D)
<1> DEFINE T == {n \in Nat : \E it : Sums(it, f, UpTo(D, n))}
<1>0. \A s \in SUBSET D : IsFiniteSet(s) /\ Cardinality(s) \in Nat
  BY FS_Subset, FS_CardinalityType
<1>1. 0 \in T
  <2> DEFINE it == [s \in UpTo(D, 0) |-> 0]
  <2>1. \A s \in UpTo(D, 0) : s = {}
    BY <1>0, FS_EmptySet DEF UpTo
  <2>2. Sums(it, f, UpTo(D, 0))
    BY <2>1 DEF Sums
  <2> QED BY <2>2
<1>2. ASSUME NEW n \in Nat, n \in T PROVE n + 1 \in T
  <2>1. PICK it : Sums(it, f, UpTo(D, n))
    BY <1>2
  <2> DEFINE next == [s \in UpTo(D, n + 1) |-> IF s = {} THEN 0 ELSE f[Some(s)] + it[s \ {Some(s)}]]
  <2>2. ASSUME NEW s \in UpTo(D, n + 1), s # {}
        PROVE  s \ {Some(s)} \in UpTo(D, n) /\ s \ {Some(s)} \in UpTo(D, n + 1)
    <3>1. s \in SUBSET D /\ Cardinality(s) <= n + 1
      BY DEF UpTo
    <3>2. Cardinality(s) \in Nat /\ Cardinality(s \ {Some(s)}) = Cardinality(s) - 1
      BY <1>0, <2>2, <3>1, NextSmaller
    <3> QED BY <3>1, <3>2 DEF UpTo
  <2>3. ASSUME NEW s \in UpTo(D, n) PROVE next[s] = it[s]
    <3>1. s \in UpTo(D, n + 1)
      BY <1>0 DEF UpTo
    <3> QED BY <2>1, <3>1 DEF Sums
  <2> HIDE DEF next
  <2>4. Sums(next, f, UpTo(D, n + 1))
    <3>1. next = [s \in UpTo(D, n + 1) |-> IF s = {} THEN 0 ELSE f[Some(s)] + it[s \ {Some(s)}]]
      BY DEF next
    <3> QED BY <2>2, <2>3, <3>1 DEF Sums
  <2> QED BY <2>4
<1>3. Cardinality(D) \in T
  <2> HIDE DEF T
  <2> QED BY <1>1, <1>2, FS_CardinalityType, NatSetInduction
<1>4. UpTo(D, Cardinality(D)) = SUBSET D
  BY FS_Subset DEF UpTo
<1> QED BY <1>3, <1>4

\* All such functions agree on the finite sets that they have in common.
LEMMA SumsAgree ==
    ASSUME NEW t, IsFiniteSet(t), NEW f, NEW g, SumsTo(g, f, t), NEW h, SumsTo(h, f, t)
    PROVE  g[t] = h[t]
<1>a. PICK D : Sums(g, f, SUBSET D) /\ t \subseteq D
  BY DEF SumsTo
<1>b. PICK E : Sums(h, f, SUBSET E) /\ t \subseteq E
  BY DEF SumsTo
<1> DEFINE T == {n \in Nat : \A s \in SUBSET t : Cardinality(s) = n => g[s] = h[s]}
<1>0. \A s \in SUBSET t : /\ IsFiniteSet(s) /\ Cardinality(s) \in Nat
                          /\ s \in SUBSET D /\ s \in SUBSET E
  BY <1>a, <1>b, FS_Subset, FS_CardinalityType
<1>1. 0 \in T
  <2>1. ASSUME NEW s \in SUBSET t, Cardinality(s) = 0 PROVE g[s] = h[s]
    <3>1. s = {}
      BY <1>0, <2>1, FS_EmptySet
    <3> QED BY <1>a, <1>b, <1>0, <3>1 DEF Sums
  <2> QED BY <2>1
<1>2. ASSUME NEW n \in Nat, n \in T PROVE n + 1 \in T
  <2>1. ASSUME NEW s \in SUBSET t, Cardinality(s) = n + 1 PROVE g[s] = h[s]
    <3>1. s # {}
      BY <2>1, SizeNotNull
    <3>2. Cardinality(s \ {Some(s)}) = n /\ s \ {Some(s)} \in SUBSET t
      BY <1>0, <2>1, <3>1, NextSmaller
    <3>3. g[s \ {Some(s)}] = h[s \ {Some(s)}]
      BY <1>2, <3>2
    <3>4. g[s] = f[Some(s)] + g[s \ {Some(s)}] /\ h[s] = f[Some(s)] + h[s \ {Some(s)}]
      BY <1>a, <1>b, <1>0, <3>1 DEF Sums
    <3> QED BY <3>3, <3>4
  <2> QED BY <2>1
<1>3. Cardinality(t) \in T
  <2> HIDE DEF T
  <2> QED BY <1>1, <1>2, FS_CardinalityType, NatSetInduction
<1> QED BY <1>3

\* MapThenSumSet takes the value of such a function.
LEMMA SumIs ==
    ASSUME NEW f, NEW D, IsFiniteSet(D)
    PROVE  \E it : Sums(it, f, SUBSET D) /\ SumOver(f, D) = it[D]
<1> DEFINE it == CHOOSE g : g = [s \in SUBSET D |-> IF s = {} THEN 0 ELSE f[Some(s)] + g[s \ {Some(s)}]]
<1>1. SumOver(f, D) = it[D]
  BY DEF SumOver, MapThenSumSet, MapThenFoldSet, Some
<1>2. Sums(it, f, SUBSET D)
  <2>1. PICK g : Sums(g, f, SUBSET D)
    BY SumsExist
  <2>2. g = [s \in SUBSET D |-> IF s = {} THEN 0 ELSE f[Some(s)] + g[s \ {Some(s)}]]
    BY <2>1 DEF Sums
  <2>3. it = [s \in SUBSET D |-> IF s = {} THEN 0 ELSE f[Some(s)] + it[s \ {Some(s)}]]
    BY <2>2, Zenon
  <2> QED BY <2>3 DEF Sums
<1> QED BY <1>1, <1>2

\* A sum over a finite set, taken apart at the next element.
LEMMA SumNext ==
    ASSUME NEW f, NEW D, IsFiniteSet(D)
    PROVE  SumOver(f, D) = IF D = {} THEN 0 ELSE f[Some(D)] + SumOver(f, D \ {Some(D)})
<1>1. PICK it : Sums(it, f, SUBSET D) /\ SumOver(f, D) = it[D]
  BY SumIs
<1>2. it[D] = IF D = {} THEN 0 ELSE f[Some(D)] + it[D \ {Some(D)}]
  <2>1. D \in SUBSET D
    OBVIOUS
  <2> QED BY <1>1, <2>1 DEF Sums
<1>3. ASSUME D # {} PROVE it[D \ {Some(D)}] = SumOver(f, D \ {Some(D)})
  <2>0. PICK E : E = D \ {Some(D)}
    OBVIOUS
  <2>1. IsFiniteSet(E) /\ E \in SUBSET D /\ E \in SUBSET E
    BY <1>3, <2>0, NextSmaller
  <2>2. PICK at : Sums(at, f, SUBSET E) /\ SumOver(f, E) = at[E]
    BY <2>1, SumIs
  <2>3. it[E] = at[E]
    <3>1. SumsTo(it, f, E)
      BY <1>1, <2>1 DEF SumsTo
    <3>2. SumsTo(at, f, E)
      BY <2>2 DEF SumsTo
    <3> QED BY <2>1, <3>1, <3>2, SumsAgree
  <2> QED BY <2>0, <2>2, <2>3
<1> QED BY <1>1, <1>2, <1>3

\* A sum depends on the values that it adds, and nothing else.
LEMMA SumSame ==
    ASSUME NEW f, NEW g, NEW D, IsFiniteSet(D), \A i \in D : f[i] = g[i]
    PROVE  SumOver(f, D) = SumOver(g, D)
<1>1. PICK it : Sums(it, f, SUBSET D) /\ SumOver(f, D) = it[D]
  BY SumIs
<1>2. PICK at : Sums(at, g, SUBSET D) /\ SumOver(g, D) = at[D]
  BY SumIs
<1>3. \A s \in SUBSET D : s # {} => Some(s) \in D
  BY DEF Some
<1>4. Sums(at, f, SUBSET D)
  BY <1>2, <1>3 DEF Sums
<1>5. SumsTo(it, f, D) /\ SumsTo(at, f, D)
  BY <1>1, <1>4 DEF SumsTo
<1> QED BY <1>1, <1>2, <1>5, SumsAgree

\* A sum of integers is an integer, and taken apart at any element.
LEMMA SumAny ==
    ASSUME NEW f, NEW D, IsFiniteSet(D), \A i \in D : f[i] \in Int
    PROVE  /\ SumOver(f, D) \in Int
           /\ \A x \in D : SumOver(f, D) = f[x] + SumOver(f, D \ {x})
<1> DEFINE P(s) == /\ SumOver(f, s) \in Int
                   /\ \A x \in s : SumOver(f, s) = f[x] + SumOver(f, s \ {x})
           T == {n \in Nat : \A s \in SUBSET D : Cardinality(s) <= n => P(s)}
<1>0. \A s \in SUBSET D : IsFiniteSet(s) /\ Cardinality(s) \in Nat
  BY FS_Subset, FS_CardinalityType
<1>1. 0 \in T
  <2>1. ASSUME NEW s \in SUBSET D, Cardinality(s) <= 0 PROVE P(s)
    <3>1. s = {}
      BY <1>0, <2>1, FS_EmptySet
    <3>2. SumOver(f, s) = 0
      BY <1>0, <3>1, SumNext
    <3> QED BY <3>1, <3>2
  <2> QED BY <2>1
<1>2. ASSUME NEW n \in Nat, n \in T PROVE n + 1 \in T
  <2>0. \A s \in SUBSET D : Cardinality(s) <= n => P(s)
    BY <1>2
  <2> HIDE DEF T
  <2>1. ASSUME NEW s \in SUBSET D, Cardinality(s) = n + 1 PROVE P(s)
    <3> DEFINE c == Some(s)
    <3>1. s # {}
      BY <2>1, SizeNotNull
    <3>2. c \in s /\ s \ {c} \in SUBSET D /\ Cardinality(s \ {c}) = n
      BY <1>0, <2>1, <3>1, NextSmaller
    <3>3. SumOver(f, s) = f[c] + SumOver(f, s \ {c})
      BY <1>0, <3>1, SumNext
    <3> HIDE DEF c
    <3>4. f[c] \in Int /\ P(s \ {c})
      BY <2>0, <3>2
    <3>5. ASSUME NEW x \in s, x # c PROVE SumOver(f, s) = f[x] + SumOver(f, s \ {x})
      <4>1. Cardinality(s \ {x}) = n /\ n <= n /\ s \ {x} \in SUBSET D
        BY <1>0, <2>1, FS_RemoveElement
      <4>2. P(s \ {x})
        <5> HIDE DEF P
        <5> QED BY <2>0, <4>1
      <4>3. SumOver(f, s \ {c}) = f[x] + SumOver(f, (s \ {c}) \ {x})
        BY <3>4, <3>5
      <4>4. SumOver(f, s \ {x}) = f[c] + SumOver(f, (s \ {x}) \ {c})
        BY <3>2, <3>5, <4>2
      <4>5. (s \ {c}) \ {x} = (s \ {x}) \ {c}
        OBVIOUS
      <4>6. SumOver(f, (s \ {x}) \ {c}) \in Int
        <5>1. (s \ {x}) \ {c} \in SUBSET D /\ Cardinality((s \ {x}) \ {c}) <= n
          BY <1>0, <3>2, <3>5, <4>1, FS_RemoveElement
        <5> QED BY <2>0, <5>1
      <4>7. f[x] \in Int
        OBVIOUS
      <4> DEFINE k == SumOver(f, (s \ {x}) \ {c})
      <4>8. /\ SumOver(f, s) = f[c] + (f[x] + k) /\ SumOver(f, s \ {x}) = f[c] + k
            /\ k \in Int /\ f[c] \in Int
        BY <3>3, <3>4, <4>3, <4>4, <4>5, <4>6
      <4> HIDE DEF k
      <4> QED BY ONLY <4>7, <4>8
    <3>6. SumOver(f, s) \in Int
      BY <3>3, <3>4
    <3> QED BY <3>3, <3>5, <3>6
  <2>2. \A s \in SUBSET D : Cardinality(s) <= n + 1 => P(s)
    BY <1>0, <2>0, <2>1
  <2> QED BY <2>2 DEF T
<1>3. Cardinality(D) \in T
  <2> HIDE DEF T
  <2> QED BY <1>1, <1>2, FS_CardinalityType, NatSetInduction
<1> QED BY <1>3

-----------------------------------------------------------------------------
(***************************************************************************)
(* Sums over the elements of a sequence.                                   *)
(***************************************************************************)
\* There is nothing to add.
LEMMA SumNone ==
    ASSUME NEW f
    PROVE  SumOver(f, 1 .. 0) = 0
<1>1. 1 .. 0 = {} /\ IsFiniteSet({})
  BY FS_EmptySet
<1> QED BY <1>1, SumNext

\* The sum over the first n + 1 elements is that over the first n and one more.
LEMMA SumUpTo ==
    ASSUME NEW f, NEW n \in Nat, \A i \in 1 .. n + 1 : f[i] \in Int
    PROVE  /\ SumOver(f, 1 .. n) \in Int
           /\ SumOver(f, 1 .. n + 1) = f[n + 1] + SumOver(f, 1 .. n)
<1>1. IsFiniteSet(1 .. n) /\ IsFiniteSet(1 .. n + 1)
  BY FS_Interval
<1>2. (1 .. n + 1) \ {n + 1} = 1 .. n /\ n + 1 \in 1 .. n + 1
  OBVIOUS
<1>3. SumOver(f, 1 .. n) \in Int
  BY <1>1, SumAny
<1>4. SumOver(f, 1 .. n + 1) = f[n + 1] + SumOver(f, (1 .. n + 1) \ {n + 1})
  BY <1>1, <1>2, SumAny
<1> QED BY <1>2, <1>3, <1>4

\* A sequence that repeats another from place k + 1 on has its sum but that of the first k.
LEMMA SumShifted ==
    ASSUME NEW f, NEW g, NEW k \in Nat, NEW n \in Nat,
           \A i \in 1 .. k + n : f[i] \in Int, \A i \in 1 .. n : g[i] = f[k + i]
    PROVE  SumOver(g, 1 .. n) = SumOver(f, 1 .. k + n) - SumOver(f, 1 .. k)
<1> DEFINE T == {m \in Nat : m <= n => SumOver(g, 1 .. m) = SumOver(f, 1 .. k + m) - SumOver(f, 1 .. k)}
<1>0. \A m \in Nat : m <= k + n => SumOver(f, 1 .. m) \in Int
  <2>1. ASSUME NEW m \in Nat, m <= k + n PROVE SumOver(f, 1 .. m) \in Int
    <3>1. IsFiniteSet(1 .. m) /\ \A i \in 1 .. m : f[i] \in Int
      BY <2>1, FS_Interval
    <3> QED BY <3>1, SumAny
  <2> QED BY <2>1
<1>1. 0 \in T
  <2>1. SumOver(g, 1 .. 0) = 0
    BY SumNone
  <2>2. SumOver(f, 1 .. k) \in Int /\ k + 0 = k
    BY <1>0
  <2> QED BY <2>1, <2>2
<1>2. ASSUME NEW m \in Nat, m \in T PROVE m + 1 \in T
  <2> SUFFICES ASSUME m + 1 <= n
               PROVE  SumOver(g, 1 .. m + 1) = SumOver(f, 1 .. k + (m + 1)) - SumOver(f, 1 .. k)
    OBVIOUS
  <2>1. SumOver(g, 1 .. m) = SumOver(f, 1 .. k + m) - SumOver(f, 1 .. k)
    BY <1>2
  <2> HIDE DEF T
  <2>2. SumOver(g, 1 .. m + 1) = g[m + 1] + SumOver(g, 1 .. m) /\ SumOver(g, 1 .. m) \in Int
    <3>1. \A i \in 1 .. m + 1 : g[i] \in Int
      OBVIOUS
    <3> QED BY <3>1, SumUpTo
  <2>3. SumOver(f, 1 .. (k + m) + 1) = f[(k + m) + 1] + SumOver(f, 1 .. k + m)
    <3>1. k + m \in Nat /\ \A i \in 1 .. (k + m) + 1 : f[i] \in Int
      OBVIOUS
    <3> QED BY ONLY <3>1, SumUpTo
  <2>4. (k + m) + 1 = k + (m + 1) /\ g[m + 1] = f[k + (m + 1)] /\ f[k + (m + 1)] \in Int
    OBVIOUS
  <2>5. SumOver(f, 1 .. k) \in Int /\ SumOver(f, 1 .. k + m) \in Int
    BY <1>0
  <2> QED BY ONLY <2>1, <2>2, <2>3, <2>4, <2>5
<1>3. n \in T
  <2> HIDE DEF T
  <2> QED BY <1>1, <1>2, NatSetInduction
<1> QED BY <1>3

\* Sums of naturals are naturals.
LEMMA SumNat ==
    ASSUME NEW f, NEW n \in Nat, \A i \in 1 .. n : f[i] \in Nat
    PROVE  SumOver(f, 1 .. n) \in Nat
<1> DEFINE T == {m \in Nat : m <= n => SumOver(f, 1 .. m) \in Nat}
<1>1. 0 \in T
  BY SumNone
<1>2. ASSUME NEW m \in Nat, m \in T PROVE m + 1 \in T
  <2> SUFFICES ASSUME m + 1 <= n PROVE SumOver(f, 1 .. m + 1) \in Nat
    OBVIOUS
  <2>1. SumOver(f, 1 .. m) \in Nat
    BY <1>2
  <2> HIDE DEF T
  <2>2. SumOver(f, 1 .. m + 1) = f[m + 1] + SumOver(f, 1 .. m)
    BY SumUpTo
  <2> QED BY <2>1, <2>2
<1>3. n \in T
  <2> HIDE DEF T
  <2> QED BY <1>1, <1>2, NatSetInduction
<1> QED BY <1>3

\* Zeros at the end add nothing.
LEMMA SumZeros ==
    ASSUME NEW f, NEW k \in Nat, NEW n \in Nat,
           \A i \in 1 .. k : f[i] \in Int, \A i \in k + 1 .. k + n : f[i] = 0
    PROVE  SumOver(f, 1 .. k + n) = SumOver(f, 1 .. k)
<1> DEFINE T == {m \in Nat : m <= n => SumOver(f, 1 .. k + m) = SumOver(f, 1 .. k)}
<1>1. 0 \in T
  OBVIOUS
<1>2. ASSUME NEW m \in Nat, m \in T PROVE m + 1 \in T
  <2> SUFFICES ASSUME m + 1 <= n PROVE SumOver(f, 1 .. k + (m + 1)) = SumOver(f, 1 .. k)
    OBVIOUS
  <2>1. SumOver(f, 1 .. k + m) = SumOver(f, 1 .. k)
    BY <1>2
  <2> HIDE DEF T
  <2>2. k + m \in Nat /\ (k + m) + 1 = k + (m + 1) /\ f[(k + m) + 1] = 0
        /\ \A i \in 1 .. (k + m) + 1 : f[i] \in Int
    OBVIOUS
  <2>3. /\ SumOver(f, 1 .. k + m) \in Int
        /\ SumOver(f, 1 .. (k + m) + 1) = f[(k + m) + 1] + SumOver(f, 1 .. k + m)
    BY ONLY <2>2, SumUpTo
  <2> QED BY ONLY <2>1, <2>2, <2>3
<1>3. n \in T
  <2> HIDE DEF T
  <2> QED BY <1>1, <1>2, NatSetInduction
<1> QED BY <1>3

\* The sum over a sequence one element of which is raised.
LEMMA SumRaised ==
    ASSUME NEW f, NEW g, NEW D, IsFiniteSet(D), NEW k \in D, NEW x \in Int,
           \A i \in D : f[i] \in Int, g[k] = f[k] + x, \A i \in D \ {k} : g[i] = f[i]
    PROVE  SumOver(g, D) = SumOver(f, D) + x
<1>1. IsFiniteSet(D \ {k}) /\ \A i \in D : g[i] \in Int
  BY FS_RemoveElement
<1>2. SumOver(g, D) = g[k] + SumOver(g, D \ {k}) /\ SumOver(f, D) = f[k] + SumOver(f, D \ {k})
  BY <1>1, SumAny
<1>3. SumOver(g, D \ {k}) = SumOver(f, D \ {k})
  BY <1>1, SumSame
<1>4. SumOver(f, D \ {k}) \in Int
  BY <1>1, SumAny
<1> QED BY <1>2, <1>3, <1>4

-----------------------------------------------------------------------------
(***************************************************************************)
(* One ring.  Its slots are the values of the last seconds; of the seconds *)
(* after the last one nothing is known yet.                                *)
(***************************************************************************)
Ring(last, ring, values) ==
    /\ ring \in Seq(Nat) /\ values \in [1 .. MaxSecond -> Nat] /\ last \in 0 .. MaxSecond
    /\ Len(ring) <= kSeconds /\ Len(ring) <= last
    /\ last > 0 => Len(ring) > 0
    /\ \A i \in 1 .. Len(ring) : ring[i] = values[last - Len(ring) + i]
    /\ \A t \in 1 .. MaxSecond : t > last => values[t] = 0

\* The ring with n zeros pushed, of which m slots are left.
Slid(ring, n, next, m) ==
    /\ next \in Seq(Nat) /\ Len(next) = m /\ n <= m /\ m <= Len(ring) + n /\ m <= kSeconds
    /\ \A i \in 1 .. m : next[i] = IF i <= m - n THEN ring[i + (Len(ring) + n - m)] ELSE 0

\* The length of a ring of len slots after n zeros are pushed.
Left(len, n) == IF len + n <= kSeconds THEN len + n ELSE kSeconds

\* What the window does to a ring as it moves to a second.
Moved(last, ring, second) ==
    IF last + 1 = second \/ last = 0 THEN PushBack(ring, 0)
    ELSE IF second > last /\ second < last + kSeconds THEN PushZeros(ring, second - last)
    ELSE IF second > last THEN <<0>>
    ELSE ring

\* Total is the sum over the places of a ring.
LEMMA TotalIs ==
    ASSUME NEW ring \in Seq(Nat)
    PROVE  Total(ring) = SumOver(ring, 1 .. Len(ring)) /\ Total(ring) \in Nat
<1>1. DOMAIN ring = 1 .. Len(ring) /\ Len(ring) \in Nat /\ \A i \in 1 .. Len(ring) : ring[i] \in Nat
  OBVIOUS
<1>2. Total(ring) = SumOver(ring, DOMAIN ring)
  BY DEF Total, SumOver
<1> QED BY <1>1, <1>2, SumNat

\* A ring that slid holds no more than before.
LEMMA SlidTotal ==
    ASSUME NEW ring \in Seq(Nat), NEW n \in Nat, NEW m \in Nat, NEW next, Slid(ring, n, next, m)
    PROVE  Total(next) <= Total(ring)
<1> DEFINE k == Len(ring)
           all == [i \in 1 .. k + n |-> IF i <= k THEN ring[i] ELSE 0]
           o == k + n - m
<1>1. k \in Nat /\ o \in Nat /\ o + m = k + n /\ next \in Seq(Nat) /\ Len(next) = m
  BY DEF Slid
<1>2. \A i \in 1 .. m : next[i] = all[o + i]
  BY <1>1 DEF Slid
<1>3. /\ \A i \in 1 .. k + n : all[i] \in Nat
      /\ \A i \in 1 .. k : all[i] = ring[i]
      /\ \A i \in k + 1 .. k + n : all[i] = 0
  BY <1>1
<1> HIDE DEF all
<1>4. SumOver(next, 1 .. m) = SumOver(all, 1 .. o + m) - SumOver(all, 1 .. o)
  <2>1. \A i \in 1 .. o + m : all[i] \in Int
    BY <1>1, <1>3
  <2>2. o \in Nat
    BY <1>1
  <2> HIDE DEF o
  <2> QED BY ONLY m \in Nat, <2>2, <1>2, <2>1, SumShifted
<1>5. SumOver(all, 1 .. k + n) = SumOver(all, 1 .. k)
  <2>1. \A i \in 1 .. k : all[i] \in Int
    BY <1>1, <1>3
  <2> QED BY <1>1, <1>3, <2>1, SumZeros
<1>6. SumOver(all, 1 .. k) = SumOver(ring, 1 .. k)
  <2>1. IsFiniteSet(1 .. k)
    BY <1>1, FS_Interval
  <2>2. \A i \in 1 .. k : all[i] = ring[i]
    BY <1>3
  <2> HIDE DEF k
  <2> QED BY ONLY <2>1, <2>2, SumSame
<1>7. SumOver(all, 1 .. o) \in Nat
  <2>1. \A i \in 1 .. o : all[i] \in Nat
    BY <1>1, <1>3
  <2> HIDE DEF o
  <2> QED BY <1>1, <2>1, SumNat
<1>8. /\ Total(next) = SumOver(next, 1 .. m) /\ Total(next) \in Nat
      /\ Total(ring) = SumOver(ring, 1 .. k) /\ Total(ring) \in Nat
  BY <1>1, TotalIs
<1>9. SumOver(all, 1 .. o + m) = SumOver(all, 1 .. k + n)
  BY <1>1
<1> HIDE DEF k, o
<1> QED BY ONLY <1>4, <1>5, <1>6, <1>7, <1>8, <1>9

\* A ring that slid by the seconds that have passed is the ring of the new last second.
LEMMA SlidRing ==
    ASSUME NEW last, NEW ring, NEW values, Ring(last, ring, values), NEW second \in 1 .. MaxSecond,
           second > last, NEW next, NEW m \in Nat, Slid(ring, second - last, next, m)
    PROVE  Ring(second, next, values)
<1> DEFINE n == second - last
<1>1. /\ last \in Nat /\ second \in Nat /\ Len(ring) \in Nat /\ Len(ring) <= last /\ n \in Nat /\ n > 0
      /\ MaxSecond \in Nat /\ kSeconds \in Nat
  BY StatSizes DEF Ring
<1>2. /\ next \in Seq(Nat) /\ Len(next) = m /\ n <= m /\ m <= Len(ring) + n /\ m <= kSeconds
      /\ \A i \in 1 .. m : next[i] = IF i <= m - n THEN ring[i + (Len(ring) + n - m)] ELSE 0
  BY DEF Slid
<1>3. m <= second /\ m > 0
  BY <1>1, <1>2
<1>4. ASSUME NEW i \in 1 .. m PROVE next[i] = values[second - m + i]
  <2>1. CASE i <= m - n
    <3> DEFINE j == i + (Len(ring) + n - m)
    <3>1. j \in 1 .. Len(ring) /\ last - Len(ring) + j = second - m + i
      BY <1>1, <1>2, <2>1
    <3>2. next[i] = ring[j]
      BY <1>2, <2>1
    <3> HIDE DEF j
    <3>3. ring[j] = values[last - Len(ring) + j]
      BY <3>1 DEF Ring
    <3> QED BY <3>1, <3>2, <3>3
  <2>2. CASE ~(i <= m - n)
    <3>1. second - m + i \in 1 .. MaxSecond /\ second - m + i > last
      BY <1>1, <1>2, <1>3, <2>2
    <3>2. next[i] = 0
      BY <1>2, <2>2
    <3> QED BY <3>1, <3>2 DEF Ring
  <2> QED BY <2>1, <2>2
<1>5. \A t \in 1 .. MaxSecond : t > second => values[t] = 0
  BY <1>1 DEF Ring
<1> QED BY <1>1, <1>2, <1>3, <1>4, <1>5 DEF Ring

\* push_back slides the ring by one.
LEMMA PushBackSlides ==
    ASSUME NEW ring \in Seq(Nat), Len(ring) <= kSeconds
    PROVE  Slid(ring, 1, PushBack(ring, 0), Left(Len(ring), 1))
<1>0. kSeconds \in Nat /\ kSeconds >= 1 /\ Len(ring) \in Nat
  BY StatSizes
<1>1. CASE Len(ring) < kSeconds
  <2>1. /\ Append(ring, 0) \in Seq(Nat) /\ Len(Append(ring, 0)) = Len(ring) + 1
        /\ \A i \in 1 .. Len(ring) + 1 : Append(ring, 0)[i] = IF i <= Len(ring) THEN ring[i] ELSE 0
    OBVIOUS
  <2>2. Slid(ring, 1, PushBack(ring, 0), Len(ring) + 1)
    BY <1>0, <1>1, <2>1 DEF Slid, PushBack
  <2> QED BY <1>0, <1>1, <2>2 DEF Left
<1>2. CASE ~(Len(ring) < kSeconds)
  <2> DEFINE tail == Tail(ring)
  <2>1. /\ tail \in Seq(Nat) /\ Len(tail) = Len(ring) - 1
        /\ \A i \in 1 .. Len(ring) - 1 : tail[i] = ring[i + 1]
    BY <1>0, <1>2
  <2> HIDE DEF tail
  <2>2. /\ Append(tail, 0) \in Seq(Nat) /\ Len(Append(tail, 0)) = Len(ring)
        /\ \A i \in 1 .. Len(ring) : Append(tail, 0)[i] = IF i <= Len(ring) - 1 THEN ring[i + 1] ELSE 0
    BY <1>0, <1>2, <2>1
  <2>3. Slid(ring, 1, Append(tail, 0), Len(ring))
    BY <1>0, <1>2, <2>2 DEF Slid
  <2>4. Left(Len(ring), 1) = Len(ring)
    BY <1>0, <1>2 DEF Left
  <2> QED BY <1>2, <2>3, <2>4 DEF PushBack, tail
<1> QED BY <1>1, <1>2

\* The loop of push_backs slides it by their number.
LEMMA PushZerosSlides ==
    ASSUME NEW ring \in Seq(Nat), NEW n \in 1 .. kSeconds
    PROVE  Slid(ring, n, PushZeros(ring, n), Left(Len(ring), n))
<1> DEFINE zeros == [i \in 1 .. n |-> 0]
           all == ring \o zeros
           k == Len(ring) + n
           o == IF k <= kSeconds THEN 0 ELSE k - kSeconds
<1>0. kSeconds \in Nat /\ Len(ring) \in Nat /\ n \in Nat /\ k \in Nat /\ o \in Nat /\ o <= Len(ring)
  BY StatSizes
<1>1. zeros \in Seq(Nat) /\ Len(zeros) = n
  BY <1>0
<1>2. /\ all \in Seq(Nat) /\ Len(all) = k
      /\ \A i \in 1 .. k : all[i] = IF i <= Len(ring) THEN ring[i] ELSE 0
  BY <1>0, <1>1
<1> HIDE DEF all, zeros
<1>3. Max({1, Len(all) - kSeconds + 1}) = o + 1
  <2>1. \E x \in {1, Len(all) - kSeconds + 1} : \A y \in {1, Len(all) - kSeconds + 1} : x >= y
    BY <1>0, <1>2
  <2>2. Max({1, Len(all) - kSeconds + 1}) \in {1, Len(all) - kSeconds + 1}
        /\ \A y \in {1, Len(all) - kSeconds + 1} : Max({1, Len(all) - kSeconds + 1}) >= y
    BY <2>1 DEF Max
  <2> QED BY <1>0, <1>2, <2>2
<1>4. PushZeros(ring, n) = SubSeq(all, o + 1, k)
  BY <1>2, <1>3 DEF PushZeros, all, zeros
<1>5. /\ SubSeq(all, o + 1, k) \in Seq(Nat) /\ Len(SubSeq(all, o + 1, k)) = k - o
      /\ \A i \in 1 .. k - o : SubSeq(all, o + 1, k)[i] = all[o + i]
  <2> HIDE DEF k, o
  <2>1. o <= k
    BY <1>0 DEF k, o
  <2> QED BY <1>0, <1>2, <2>1
<1>6. Slid(ring, n, SubSeq(all, o + 1, k), k - o)
  <2>0. /\ k - o \in Nat /\ k = Len(ring) + n /\ n <= k - o /\ k - o <= Len(ring) + n /\ k - o <= kSeconds
    <3>1. CASE k <= kSeconds
      <4>1. o = 0
        BY <3>1
      <4> HIDE DEF o
      <4> QED BY <1>0, <3>1, <4>1
    <3>2. CASE ~(k <= kSeconds)
      <4>1. o = k - kSeconds
        BY <3>2
      <4> HIDE DEF o
      <4> QED BY <1>0, <3>2, <4>1
    <3> QED BY <3>1, <3>2
  <2> DEFINE next == SubSeq(all, o + 1, k)
  <2>1. \A i \in 1 .. k - o : next[i] = all[o + i]
    BY <1>5
  <2>2. next \in Seq(Nat) /\ Len(next) = k - o
    BY <1>5
  <2> HIDE DEF next, k, o
  <2>3. ASSUME NEW i \in 1 .. k - o
        PROVE  next[i] = IF i <= (k - o) - n THEN ring[i + (Len(ring) + n - (k - o))] ELSE 0
    <3>1. /\ o + i \in 1 .. k /\ i + (Len(ring) + n - (k - o)) = o + i
          /\ (i <= (k - o) - n) = (o + i <= Len(ring))
      BY <1>0, <2>0
    <3>2. all[o + i] = IF o + i <= Len(ring) THEN ring[o + i] ELSE 0
      BY <1>2, <3>1
    <3> QED BY <2>1, <3>1, <3>2
  <2>4. Slid(ring, n, next, k - o)
    BY <2>0, <2>2, <2>3 DEF Slid
  <2> QED BY <2>4 DEF next
<1>7. k - o = Left(Len(ring), n)
  BY <1>0 DEF Left
<1> HIDE DEF k, o
<1> QED BY <1>4, <1>6, <1>7

\* Where the window stands after it moved, and how long its rings are.
Later(last, second) == IF second > last THEN second ELSE last
MovedLen(last, len, second) ==
    IF second <= last THEN len
    ELSE IF last + 1 = second \/ (last > 0 /\ second < last + kSeconds) THEN Left(len, second - last)
    ELSE 1

\* A ring moved to a second is the ring of the later second and holds no more than before.
LEMMA MovedRing ==
    ASSUME NEW last, NEW ring, NEW values, Ring(last, ring, values), NEW second \in 1 .. MaxSecond
    PROVE  /\ Ring(Later(last, second), Moved(last, ring, second), values)
           /\ Len(Moved(last, ring, second)) = MovedLen(last, Len(ring), second)
           /\ Total(Moved(last, ring, second)) <= Total(ring)
<1> DEFINE next == Moved(last, ring, second)
<1>0. /\ last \in Nat /\ second \in Nat /\ second > 0 /\ kSeconds \in Nat /\ kSeconds > 0 /\ MaxSecond \in Nat
      /\ ring \in Seq(Nat) /\ Len(ring) \in Nat /\ Len(ring) <= kSeconds /\ Len(ring) <= last
  BY StatSizes DEF Ring
<1>1. Total(ring) \in Nat
  BY <1>0, TotalIs
<1>2. CASE second <= last
  <2>1. next = ring /\ Later(last, second) = last /\ MovedLen(last, Len(ring), second) = Len(ring)
    BY <1>0, <1>2 DEF Moved, Later, MovedLen
  <2> QED BY <1>1, <2>1
<1>3. ASSUME second > last, NEW m \in Nat, Slid(ring, second - last, next, m),
             m = MovedLen(last, Len(ring), second)
      PROVE  /\ Ring(Later(last, second), next, values)
             /\ Len(next) = MovedLen(last, Len(ring), second)
             /\ Total(next) <= Total(ring)
  <2> HIDE DEF next
  <2>1. Later(last, second) = second
    BY <1>3 DEF Later
  <2>2. Ring(second, next, values)
    BY <1>3, SlidRing
  <2>3. Total(next) <= Total(ring)
    <3>1. second - last \in Nat
      BY <1>0, <1>3
    <3> QED BY <1>0, <1>3, <3>1, SlidTotal
  <2>4. Len(next) = m
    BY <1>3 DEF Slid
  <2> QED BY <1>3, <2>1, <2>2, <2>3, <2>4
<1>4. CASE last + 1 = second
  <2>1. Slid(ring, 1, next, Left(Len(ring), 1))
    BY <1>0, <1>4, PushBackSlides DEF Moved
  <2>2. /\ second - last = 1 /\ second > last /\ Left(Len(ring), 1) \in Nat
        /\ MovedLen(last, Len(ring), second) = Left(Len(ring), 1)
    BY <1>0, <1>4 DEF MovedLen, Left
  <2> QED BY <1>3, <2>1, <2>2
<1>5. CASE second > last + 1 /\ last > 0 /\ second < last + kSeconds
  <2>0. second - last \in 1 .. kSeconds
    BY <1>0, <1>5
  <2>1. Slid(ring, second - last, next, Left(Len(ring), second - last))
    BY <1>0, <1>5, <2>0, PushZerosSlides DEF Moved
  <2>2. /\ second > last /\ Left(Len(ring), second - last) \in Nat
        /\ MovedLen(last, Len(ring), second) = Left(Len(ring), second - last)
    BY <1>0, <1>5 DEF MovedLen, Left
  <2> QED BY <1>3, <2>1, <2>2
<1>6. CASE second > last + 1 /\ ~(last > 0 /\ second < last + kSeconds)
  <2>1. next = <<0>>
    <3>1. CASE last = 0
      <4>1. ring = <<>>
        BY <1>0, <3>1
      <4> QED BY <1>0, <3>1, <4>1 DEF Moved, PushBack
    <3>2. CASE last # 0
      BY <1>0, <1>6, <3>2 DEF Moved
    <3> QED BY <3>1, <3>2
  <2>2. Later(last, second) = second /\ MovedLen(last, Len(ring), second) = 1
    BY <1>0, <1>6 DEF Later, MovedLen
  <2>3. <<0>> \in Seq(Nat) /\ Len(<<0>>) = 1 /\ <<0>>[1] = 0
    OBVIOUS
  <2>4. values[second] = 0 /\ \A t \in 1 .. MaxSecond : t > second => values[t] = 0
    BY <1>0, <1>6 DEF Ring
  <2>5. Ring(second, <<0>>, values)
    <3>1. values \in [1 .. MaxSecond -> Nat]
      BY DEF Ring
    <3>2. second \in 0 .. MaxSecond /\ 1 <= kSeconds /\ 1 <= second
      BY <1>0
    <3>3. \A i \in 1 .. 1 : <<0>>[i] = values[second - 1 + i]
      BY <1>0, <2>3, <2>4
    <3> QED BY <2>3, <2>4, <3>1, <3>2, <3>3 DEF Ring
  <2>6. Total(<<0>>) = 0
    <3>1. PICK z : z = <<0>>
      OBVIOUS
    <3>2. z \in Seq(Nat) /\ Len(z) = 1 /\ z[1] = 0
      BY <2>3, <3>1
    <3>3. Total(z) = SumOver(z, 1 .. 1)
      BY ONLY <3>2, TotalIs
    <3>4. SumOver(z, 1 .. 0 + 1) = SumOver(z, 1 .. 0)
      <4>1. (\A i \in 1 .. 0 : z[i] \in Int) /\ (\A i \in 0 + 1 .. 0 + 1 : z[i] = 0)
        BY <3>2
      <4> QED BY ONLY <4>1, SumZeros
    <3>5. 1 .. 0 + 1 = 1 .. 1
      OBVIOUS
    <3> QED BY <3>1, <3>3, <3>4, <3>5, SumNone
  <2> QED BY <1>1, <2>1, <2>2, <2>3, <2>5, <2>6
<1>7. second <= last \/ last + 1 = second \/ second > last + 1
  BY <1>0
<1> QED BY <1>2, <1>4, <1>5, <1>6, <1>7

\* What Count does to a ring of a window whose last second is the second or later.
Counted(last, ring, second, x) ==
    IF second > last - Len(ring) THEN AddAt(ring, second - last + Len(ring), x) ELSE ring

\* A second that is counted, in the ring and among the values.
LEMMA CountedRing ==
    ASSUME NEW last, NEW ring, NEW values, Ring(last, ring, values), NEW second \in 1 .. MaxSecond,
           second <= last, NEW x \in Nat
    PROVE  /\ Ring(last, Counted(last, ring, second, x), [values EXCEPT ![second] = @ + x])
           /\ Len(Counted(last, ring, second, x)) = Len(ring)
           /\ Total(Counted(last, ring, second, x)) <= Total(ring) + x
<1> DEFINE next == Counted(last, ring, second, x)
           more == [values EXCEPT ![second] = @ + x]
           k == second - last + Len(ring)
<1>0. /\ last \in Nat /\ second \in Nat /\ second > 0 /\ MaxSecond \in Nat
      /\ ring \in Seq(Nat) /\ Len(ring) \in Nat /\ Len(ring) <= last /\ last <= MaxSecond
      /\ values \in [1 .. MaxSecond -> Nat]
  BY StatSizes DEF Ring
<1>1. /\ more \in [1 .. MaxSecond -> Nat] /\ more[second] = values[second] + x
      /\ \A t \in 1 .. MaxSecond : t # second => more[t] = values[t]
  BY <1>0
<1>2. Total(ring) = SumOver(ring, 1 .. Len(ring)) /\ Total(ring) \in Nat
  BY <1>0, TotalIs
<1> HIDE DEF more
<1>3. CASE second > last - Len(ring)
  <2>1. k \in 1 .. Len(ring) /\ last - Len(ring) + k = second
    BY <1>0, <1>3
  <2>2. next = [ring EXCEPT ![k] = @ + x]
    BY <1>3 DEF Counted, AddAt
  <2> HIDE DEF next, k
  <2>3. next \in Seq(Nat) /\ Len(next) = Len(ring) /\ next[k] = ring[k] + x
        /\ \A i \in 1 .. Len(ring) : i # k => next[i] = ring[i]
    BY <1>0, <2>1, <2>2
  <2>4. ASSUME NEW i \in 1 .. Len(ring) PROVE next[i] = more[last - Len(ring) + i]
    <3>1. ring[i] = values[last - Len(ring) + i]
      BY DEF Ring
    <3>2. CASE i = k
      BY <1>1, <2>1, <2>3, <3>1, <3>2
    <3>3. CASE i # k
      <4>1. last - Len(ring) + i \in 1 .. MaxSecond
        BY ONLY <1>0, i \in 1 .. Len(ring)
      <4>2. last - Len(ring) + i # second
        BY ONLY <1>0, i \in 1 .. Len(ring), <2>1, <3>3
      <4> QED BY <1>1, <2>3, <3>1, <3>3, <4>1, <4>2
    <3> QED BY <3>2, <3>3
  <2>5. Ring(last, next, more)
    <3>1. \A t \in 1 .. MaxSecond : t > last => more[t] = 0
      BY <1>0, <1>1 DEF Ring
    <3> QED BY <1>1, <2>3, <2>4, <3>1 DEF Ring
  <2>6. Total(next) = Total(ring) + x
    <3>1. Total(next) = SumOver(next, 1 .. Len(ring))
      BY <2>3, TotalIs
    <3>2. PICK D : D = 1 .. Len(ring)
      OBVIOUS
    <3>3. IsFiniteSet(D)
      BY <1>0, <3>2, FS_Interval
    <3>4. (\A i \in D : ring[i] \in Int) /\ (\A i \in D \ {k} : next[i] = ring[i]) /\ k \in D
      BY <1>0, <2>1, <2>3, <3>2
    <3>5. next[k] = ring[k] + x /\ x \in Int
      BY <2>3
    <3>6. SumOver(next, D) = SumOver(ring, D) + x
      BY ONLY <3>3, <3>4, <3>5, SumRaised
    <3> QED BY <1>2, <3>1, <3>2, <3>6
  <2> QED BY <1>2, <2>3, <2>5, <2>6 DEF next, more
<1>4. CASE ~(second > last - Len(ring))
  <2>1. next = ring
    BY <1>4 DEF Counted
  <2>2. ASSUME NEW i \in 1 .. Len(ring) PROVE ring[i] = more[last - Len(ring) + i]
    <3>1. last - Len(ring) + i \in 1 .. MaxSecond /\ last - Len(ring) + i # second
      BY <1>0, <1>4, SMTT(30)
    <3> QED BY <1>1, <3>1 DEF Ring
  <2>3. \A t \in 1 .. MaxSecond : t > last => more[t] = 0
    BY <1>0, <1>1 DEF Ring
  <2>4. Ring(last, ring, more)
    BY <1>1, <2>2, <2>3 DEF Ring
  <2> HIDE DEF next
  <2> QED BY <1>2, <2>1, <2>4 DEF next, more
<1> QED BY <1>3, <1>4

-----------------------------------------------------------------------------
(***************************************************************************)
(* The two rings and the counters together.                                *)
(***************************************************************************)
StatRecord ==
    [lastSecond : Nat, requests : Seq(Nat), latencies : Seq(Nat),
     totalRequests : Nat, totalResponses : Nat, totalSolved : Nat, badRequests : Nat,
     totalLatency : Nat, badLatency : Nat,
     count : [1 .. MaxSecond -> Nat], sum : [1 .. MaxSecond -> Nat]]

\* The fields that a moving window leaves alone.
SameCounters(st, next) ==
    /\ next.totalRequests = st.totalRequests /\ next.totalResponses = st.totalResponses
    /\ next.totalSolved = st.totalSolved /\ next.badRequests = st.badRequests
    /\ next.totalLatency = st.totalLatency /\ next.badLatency = st.badLatency
    /\ next.count = st.count /\ next.sum = st.sum

\* The inductive invariant, of a record.
TrueStat(st) ==
    /\ st \in StatRecord
    /\ Ring(st.lastSecond, st.requests, st.count)
    /\ Ring(st.lastSecond, st.latencies, st.sum)
    /\ Len(st.latencies) = Len(st.requests)
    /\ Total(st.requests) <= st.totalResponses - st.badLatency

\* What Advance does, field by field.
LEMMA AdvanceFields ==
    ASSUME NEW st \in StatRecord, NEW second \in 1 .. MaxSecond,
           Moved(st.lastSecond, st.requests, second) \in Seq(Nat),
           Moved(st.lastSecond, st.latencies, second) \in Seq(Nat)
    PROVE  /\ Advance(st, second) \in StatRecord
           /\ Advance(st, second).lastSecond = Later(st.lastSecond, second)
           /\ Advance(st, second).requests = Moved(st.lastSecond, st.requests, second)
           /\ Advance(st, second).latencies = Moved(st.lastSecond, st.latencies, second)
           /\ SameCounters(st, Advance(st, second))
<1> DEFINE r == Moved(st.lastSecond, st.requests, second)
           l == Moved(st.lastSecond, st.latencies, second)
           moved == [st EXCEPT !.lastSecond = second, !.requests = r, !.latencies = l]
<1>0. st.lastSecond \in Nat /\ second \in Nat /\ second > 0 /\ kSeconds \in Nat
  BY StatSizes DEF StatRecord
<1>1. CASE second > st.lastSecond
  <2>1. Advance(st, second) = moved
    BY <1>0, <1>1 DEF Advance, Moved
  <2>2. r \in Seq(Nat) /\ l \in Seq(Nat)
    OBVIOUS
  <2>3. Later(st.lastSecond, second) = second
    BY <1>1 DEF Later
  <2> HIDE DEF r, l
  <2>4. /\ moved \in StatRecord /\ moved.lastSecond = second /\ moved.requests = r
        /\ moved.latencies = l /\ SameCounters(st, moved)
    BY <1>0, <2>2 DEF StatRecord, SameCounters
  <2> HIDE DEF moved
  <2> QED BY <2>1, <2>3, <2>4 DEF r, l
<1>2. CASE ~(second > st.lastSecond)
  <2>1. /\ Advance(st, second) = st /\ Later(st.lastSecond, second) = st.lastSecond
        /\ r = st.requests /\ l = st.latencies
    BY <1>0, <1>2 DEF Advance, Later, Moved
  <2> QED BY <2>1 DEF SameCounters
<1> QED BY <1>1, <1>2

\* What Count does, field by field.
LEMMA CountFields ==
    ASSUME NEW st \in StatRecord, NEW second \in 1 .. MaxSecond, second <= st.lastSecond,
           NEW elapsed \in Nat, Len(st.latencies) = Len(st.requests),
           st.lastSecond > 0 => Len(st.requests) > 0,
           Counted(st.lastSecond, st.requests, second, 1) \in Seq(Nat),
           Counted(st.lastSecond, st.latencies, second, elapsed) \in Seq(Nat)
    PROVE  /\ Count(st, second, elapsed) \in StatRecord
           /\ Count(st, second, elapsed).lastSecond = st.lastSecond
           /\ Count(st, second, elapsed).requests = Counted(st.lastSecond, st.requests, second, 1)
           /\ Count(st, second, elapsed).latencies = Counted(st.lastSecond, st.latencies, second, elapsed)
           /\ SameCounters(st, Count(st, second, elapsed))
<1> DEFINE r == Counted(st.lastSecond, st.requests, second, 1)
           l == Counted(st.lastSecond, st.latencies, second, elapsed)
           k == second - st.lastSecond + Len(st.requests)
           counted == [st EXCEPT !.requests = r, !.latencies = l]
<1>0. /\ st.lastSecond \in Nat /\ second \in Nat /\ second > 0
      /\ st.requests \in Seq(Nat) /\ st.latencies \in Seq(Nat) /\ Len(st.requests) \in Nat
      /\ st.lastSecond > 0 /\ Len(st.requests) > 0
  BY DEF StatRecord
<1>1. CASE second > st.lastSecond - Len(st.requests)
  <2>1. r = AddAt(st.requests, k, 1) /\ l = AddAt(st.latencies, k, elapsed)
    BY <1>1 DEF Counted
  <2>2. Count(st, second, elapsed) = counted
    <3>1. CASE second = st.lastSecond
      <4>1. k = Len(st.requests) /\ k = Len(st.latencies)
        BY <1>0, <3>1
      <4> HIDE DEF k, r, l
      <4> QED BY <2>1, <3>1, <4>1 DEF Count
    <3>2. CASE second # st.lastSecond
      <4>1. second >= firstSecond(st) /\ second - firstSecond(st) + 1 = k
        BY <1>0, <1>1, SMTT(30) DEF firstSecond
      <4> HIDE DEF k, r, l
      <4> QED BY <2>1, <3>2, <4>1 DEF Count
    <3> QED BY <3>1, <3>2
  <2>3. r \in Seq(Nat) /\ l \in Seq(Nat)
    OBVIOUS
  <2> HIDE DEF r, l
  <2>4. /\ counted \in StatRecord /\ counted.lastSecond = st.lastSecond /\ counted.requests = r
        /\ counted.latencies = l /\ SameCounters(st, counted)
    BY <1>0, <2>3 DEF StatRecord, SameCounters
  <2> HIDE DEF counted
  <2> QED BY <2>2, <2>4 DEF r, l
<1>2. CASE ~(second > st.lastSecond - Len(st.requests))
  <2>1. r = st.requests /\ l = st.latencies
    BY <1>2 DEF Counted
  <2>2. second # st.lastSecond /\ ~(second >= firstSecond(st))
    BY <1>0, <1>2 DEF firstSecond
  <2>3. Count(st, second, elapsed) = st
    BY <2>2 DEF Count
  <2> QED BY <2>1, <2>3 DEF SameCounters
<1> QED BY <1>1, <1>2

\* An empty ring holds nothing.
LEMMA EmptyRing ==
    ASSUME NEW values, values = [t \in 1 .. MaxSecond |-> 0]
    PROVE  Ring(0, <<>>, values) /\ Total(<<>>) = 0
<1>1. <<>> \in Seq(Nat) /\ Len(<<>>) = 0 /\ kSeconds \in Nat /\ MaxSecond \in Nat
  BY StatSizes
<1>2. Total(<<>>) = 0
  <2>1. PICK z : z = <<>>
    OBVIOUS
  <2>2. z \in Seq(Nat) /\ Len(z) = 0
    BY <1>1, <2>1
  <2>3. Total(z) = SumOver(z, 1 .. 0)
    BY ONLY <2>2, TotalIs
  <2> QED BY <2>1, <2>3, SumNone
<1>3. values \in [1 .. MaxSecond -> Nat] /\ \A t \in 1 .. MaxSecond : values[t] = 0
  OBVIOUS
<1> QED BY <1>1, <1>2, <1>3 DEF Ring

\* A fresh window, at the start and after a reset.
LEMMA NewStatIsTrue == TrueStat(NewStat)
<1>0. MaxSecond \in Nat /\ <<>> \in Seq(Nat) /\ Len(<<>>) = 0
  BY StatSizes
<1>1. NewStat \in StatRecord
  BY <1>0 DEF NewStat, StatRecord
<1>2. /\ NewStat.lastSecond = 0 /\ NewStat.requests = <<>> /\ NewStat.latencies = <<>>
      /\ NewStat.count = [t \in 1 .. MaxSecond |-> 0] /\ NewStat.sum = [t \in 1 .. MaxSecond |-> 0]
      /\ NewStat.totalResponses = 0 /\ NewStat.badLatency = 0
  BY DEF NewStat
<1>3. /\ Ring(0, <<>>, NewStat.count) /\ Ring(0, <<>>, NewStat.sum) /\ Total(<<>>) = 0
  BY <1>2, EmptyRing
<1> QED BY <1>0, <1>1, <1>2, <1>3 DEF TrueStat

\* The record with a response counted, before its latency is looked at and after.
Responded(st, solved) ==
    [st EXCEPT !.totalResponses = @ + 1, !.totalSolved = @ + IF solved THEN 1 ELSE 0]
Timed(st, second, elapsed) ==
    [st EXCEPT !.totalLatency = @ + elapsed, !.count[second] = @ + 1, !.sum[second] = @ + elapsed]

\* A response whose latency is negative is counted as such.
LEMMA BadResponse ==
    ASSUME NEW st, TrueStat(st), NEW solved \in BOOLEAN
    PROVE  TrueStat([Responded(st, solved) EXCEPT !.badLatency = @ + 1])
<1> DEFINE next == [Responded(st, solved) EXCEPT !.badLatency = @ + 1]
<1>0. st \in StatRecord
  BY DEF TrueStat
<1>1. /\ next \in StatRecord /\ next.lastSecond = st.lastSecond /\ next.requests = st.requests
      /\ next.latencies = st.latencies /\ next.count = st.count /\ next.sum = st.sum
      /\ next.totalResponses = st.totalResponses + 1 /\ next.badLatency = st.badLatency + 1
  <2>1. PICK a \in Nat, b \in Nat : a = st.totalResponses + 1
                              /\ b = st.totalSolved + IF solved THEN 1 ELSE 0
    <3>1. st.totalResponses \in Nat /\ st.totalSolved \in Nat
      BY <1>0 DEF StatRecord
    <3> QED BY ONLY <3>1
  <2>2. Responded(st, solved) = [st EXCEPT !.totalResponses = a, !.totalSolved = b]
    BY <2>1 DEF Responded
  <2>3. PICK c \in Nat : c = st.badLatency + 1
    BY <1>0 DEF StatRecord
  <2>4. next = [st EXCEPT !.totalResponses = a, !.totalSolved = b, !.badLatency = c]
    BY <1>0, <2>2, <2>3 DEF StatRecord
  <2> HIDE DEF next
  <2> QED BY <1>0, <2>1, <2>3, <2>4 DEF StatRecord
<1>2. st.totalResponses \in Nat /\ st.badLatency \in Nat
  BY <1>0 DEF StatRecord
<1> HIDE DEF next
<1>3. next.totalResponses - next.badLatency = st.totalResponses - st.badLatency
  BY <1>1, <1>2
<1>4. TrueStat(next)
  BY <1>1, <1>3 DEF TrueStat
<1> QED BY <1>4 DEF next

\* Values of which one is raised are values.
LEMMA ValueRaised ==
    ASSUME NEW S, NEW values \in [S -> Nat], NEW second \in S, NEW x \in Nat
    PROVE  [values EXCEPT ![second] = @ + x] \in [S -> Nat]
<1>1. \A t \in S : values[t] \in Nat /\ values[second] + x \in Nat
  OBVIOUS
<1> QED BY <1>1

\* A response whose latency is not negative: the window moves and its slot is raised.
LEMMA GoodResponse ==
    ASSUME NEW st, TrueStat(st), NEW second \in 1 .. MaxSecond, NEW elapsed \in Nat,
           NEW solved \in BOOLEAN
    PROVE  TrueStat(Count(Advance(Timed(Responded(st, solved), second, elapsed), second), second, elapsed))
<1> DEFINE timed == Timed(Responded(st, solved), second, elapsed)
           moved == Advance(timed, second)
           next == Count(moved, second, elapsed)
           last == Later(st.lastSecond, second)
           r == Moved(st.lastSecond, st.requests, second)
           l == Moved(st.lastSecond, st.latencies, second)
<1>0. /\ st \in StatRecord /\ Ring(st.lastSecond, st.requests, st.count)
      /\ Ring(st.lastSecond, st.latencies, st.sum) /\ Len(st.latencies) = Len(st.requests)
      /\ Total(st.requests) <= st.totalResponses - st.badLatency
  BY DEF TrueStat
<1>1. /\ timed \in StatRecord /\ timed.lastSecond = st.lastSecond /\ timed.requests = st.requests
      /\ timed.latencies = st.latencies
      /\ timed.count = [st.count EXCEPT ![second] = @ + 1]
      /\ timed.sum = [st.sum EXCEPT ![second] = @ + elapsed]
      /\ timed.totalResponses = st.totalResponses + 1 /\ timed.badLatency = st.badLatency
  <2>0. /\ st.totalResponses \in Nat /\ st.totalSolved \in Nat
        /\ st.count \in [1 .. MaxSecond -> Nat] /\ st.sum \in [1 .. MaxSecond -> Nat]
    BY <1>0 DEF StatRecord
  <2>1. PICK a \in Nat, b \in Nat : a = st.totalResponses + 1
                              /\ b = st.totalSolved + IF solved THEN 1 ELSE 0
    BY ONLY <2>0
  <2> DEFINE rs == [st EXCEPT !.totalResponses = a, !.totalSolved = b]
  <2>2. Responded(st, solved) = rs
    BY <2>1 DEF Responded
  <2>3. /\ rs \in StatRecord /\ rs.totalLatency = st.totalLatency /\ rs.count = st.count /\ rs.sum = st.sum
        /\ rs.lastSecond = st.lastSecond /\ rs.requests = st.requests /\ rs.latencies = st.latencies
        /\ rs.totalResponses = a /\ rs.badLatency = st.badLatency
    BY <1>0 DEF StatRecord
  <2> HIDE DEF rs
  <2>4. PICK c \in Nat : c = st.totalLatency + elapsed
    BY <1>0 DEF StatRecord
  <2>5. PICK cs \in [1 .. MaxSecond -> Nat] : cs = [st.count EXCEPT ![second] = @ + 1]
    BY <2>0, ValueRaised
  <2>6. PICK sm \in [1 .. MaxSecond -> Nat] : sm = [st.sum EXCEPT ![second] = @ + elapsed]
    BY <2>0, ValueRaised
  <2>7. timed = [rs EXCEPT !.totalLatency = c, !.count = cs, !.sum = sm]
    BY <2>2, <2>3, <2>4, <2>5, <2>6 DEF Timed
  <2> HIDE DEF timed
  <2>8. /\ timed \in StatRecord /\ timed.lastSecond = rs.lastSecond /\ timed.requests = rs.requests
        /\ timed.latencies = rs.latencies /\ timed.count = cs /\ timed.sum = sm
        /\ timed.totalResponses = a /\ timed.badLatency = rs.badLatency
    BY <2>3, <2>7 DEF StatRecord
  <2> QED BY <2>1, <2>3, <2>5, <2>6, <2>8
<1> HIDE DEF timed
<1>2. Ring(last, r, st.count) /\ Len(r) = MovedLen(st.lastSecond, Len(st.requests), second)
      /\ Total(r) <= Total(st.requests)
  BY <1>0, MovedRing
<1>3. Ring(last, l, st.sum) /\ Len(l) = MovedLen(st.lastSecond, Len(st.latencies), second)
  BY <1>0, MovedRing
<1> HIDE DEF r, l, last
<1>4. r \in Seq(Nat) /\ l \in Seq(Nat) /\ last \in Nat /\ (last > 0 => Len(r) > 0) /\ Len(l) = Len(r)
  BY <1>0, <1>2, <1>3 DEF Ring
<1>5. /\ moved \in StatRecord /\ moved.lastSecond = last /\ moved.requests = r /\ moved.latencies = l
      /\ SameCounters(timed, moved)
  BY <1>1, <1>4, AdvanceFields DEF r, l, last
<1>6. second <= last
  BY <1>0 DEF last, Later, StatRecord
<1> HIDE DEF moved
<1>7. /\ Ring(last, Counted(last, r, second, 1), timed.count)
      /\ Len(Counted(last, r, second, 1)) = Len(r)
      /\ Total(Counted(last, r, second, 1)) <= Total(r) + 1
  <2>0. PICK x \in Nat : x = 1
    OBVIOUS
  <2>1. timed.count = [st.count EXCEPT ![second] = @ + x]
    BY <1>1, <2>0
  <2>2. PICK values : values = st.count
    OBVIOUS
  <2>3. Ring(last, r, values) /\ second \in 1 .. MaxSecond /\ second <= last /\ x \in Nat
    BY <1>2, <1>6, <2>2
  <2>4. /\ Ring(last, Counted(last, r, second, x), [values EXCEPT ![second] = @ + x])
        /\ Len(Counted(last, r, second, x)) = Len(r)
        /\ Total(Counted(last, r, second, x)) <= Total(r) + x
    BY ONLY <2>3, CountedRing
  <2> QED BY <2>0, <2>1, <2>2, <2>4
<1>8. /\ Ring(last, Counted(last, l, second, elapsed), timed.sum)
      /\ Len(Counted(last, l, second, elapsed)) = Len(l)
  <2>1. timed.sum = [st.sum EXCEPT ![second] = @ + elapsed]
    BY <1>1
  <2>2. PICK values : values = st.sum
    OBVIOUS
  <2>3. Ring(last, l, values) /\ second \in 1 .. MaxSecond /\ second <= last /\ elapsed \in Nat
    BY <1>3, <1>6, <2>2
  <2>4. /\ Ring(last, Counted(last, l, second, elapsed), [values EXCEPT ![second] = @ + elapsed])
        /\ Len(Counted(last, l, second, elapsed)) = Len(l)
    BY ONLY <2>3, CountedRing
  <2> QED BY <2>1, <2>2, <2>4
<1>9. Counted(last, r, second, 1) \in Seq(Nat) /\ Counted(last, l, second, elapsed) \in Seq(Nat)
  BY <1>7, <1>8 DEF Ring
<1>10. /\ next \in StatRecord /\ next.lastSecond = last /\ next.requests = Counted(last, r, second, 1)
       /\ next.latencies = Counted(last, l, second, elapsed) /\ SameCounters(moved, next)
  BY <1>4, <1>5, <1>6, <1>9, CountFields
<1> HIDE DEF next
<1>11. /\ next.count = timed.count /\ next.sum = timed.sum
       /\ next.totalResponses = st.totalResponses + 1 /\ next.badLatency = st.badLatency
  BY <1>1, <1>5, <1>10 DEF SameCounters
<1>12. Total(next.requests) <= next.totalResponses - next.badLatency
  <2>1. st.totalResponses \in Nat /\ st.badLatency \in Nat
    BY <1>0 DEF StatRecord
  <2>2. Total(st.requests) \in Nat /\ Total(r) \in Nat /\ Total(Counted(last, r, second, 1)) \in Nat
    BY <1>0, <1>4, <1>9, TotalIs DEF StatRecord
  <2>3. Total(next.requests) = Total(Counted(last, r, second, 1))
    BY <1>10
  <2> QED BY ONLY <1>0, <1>2, <1>7, <1>11, <2>1, <2>2, <2>3
<1>13. TrueStat(next)
  BY <1>4, <1>7, <1>8, <1>10, <1>11, <1>12 DEF TrueStat
<1> QED BY <1>13 DEF next, moved, timed

\* Every call of the statistics keeps the window true.
LEMMA StatStep ==
    ASSUME TrueStat(stat), [StatNext]_stat
    PROVE  TrueStat(stat')
<1>0. stat \in StatRecord
  BY DEF TrueStat
<1>1. ASSUME NEW second \in 1 .. MaxSecond, NEW elapsed \in Latencies, NEW solved \in BOOLEAN,
             recordResponse(second, elapsed, solved)
      PROVE  TrueStat(stat')
  <2>0. elapsed \in Int
    BY StatSizes
  <2>1. CASE elapsed < 0
    <3>1. stat' = [Responded(stat, solved) EXCEPT !.badLatency = @ + 1]
      BY <1>1, <2>1 DEF recordResponse, Responded
    <3> QED BY <3>1, BadResponse
  <2>2. CASE ~(elapsed < 0)
    <3>1. stat' = Count(Advance(Timed(Responded(stat, solved), second, elapsed), second), second, elapsed)
      BY <1>1, <2>2 DEF recordResponse, Responded, Timed
    <3>2. elapsed \in Nat
      BY <2>0, <2>2
    <3> QED BY <3>1, <3>2, GoodResponse
  <2> QED BY <2>1, <2>2
<1>2. ASSUME NEW next \in StatRecord, next.lastSecond = stat.lastSecond, next.requests = stat.requests,
             next.latencies = stat.latencies, next.count = stat.count, next.sum = stat.sum,
             next.totalResponses = stat.totalResponses, next.badLatency = stat.badLatency
      PROVE  TrueStat(next)
  BY <1>2 DEF TrueStat
<1>3. CASE recordRequest
  <2>0. PICK v \in Nat : v = stat.totalRequests + 1
    BY <1>0 DEF StatRecord
  <2> DEFINE next == [stat EXCEPT !.totalRequests = v]
  <2>1. /\ next \in StatRecord /\ next.lastSecond = stat.lastSecond /\ next.requests = stat.requests
        /\ next.latencies = stat.latencies /\ next.count = stat.count /\ next.sum = stat.sum
        /\ next.totalResponses = stat.totalResponses /\ next.badLatency = stat.badLatency
    BY <1>0 DEF StatRecord
  <2>2. stat' = next
    BY <1>3, <2>0 DEF recordRequest
  <2> HIDE DEF next
  <2> QED BY <1>2, <2>1, <2>2
<1>4. CASE recordBadRequest
  <2>0. PICK v \in Nat : v = stat.badRequests + 1
    BY <1>0 DEF StatRecord
  <2> DEFINE next == [stat EXCEPT !.badRequests = v]
  <2>1. /\ next \in StatRecord /\ next.lastSecond = stat.lastSecond /\ next.requests = stat.requests
        /\ next.latencies = stat.latencies /\ next.count = stat.count /\ next.sum = stat.sum
        /\ next.totalResponses = stat.totalResponses /\ next.badLatency = stat.badLatency
    BY <1>0 DEF StatRecord
  <2>2. stat' = next
    BY <1>4, <2>0 DEF recordBadRequest
  <2> HIDE DEF next
  <2> QED BY <1>2, <2>1, <2>2
<1>5. CASE reset
  BY <1>5, NewStatIsTrue DEF reset
<1>6. CASE UNCHANGED stat
  BY <1>6
<1> QED BY <1>1, <1>3, <1>4, <1>5, <1>6 DEF StatNext

\* The invariant says what WindowIsTrue says.
LEMMA TrueStatShows ==
    ASSUME TrueStat(stat)
    PROVE  WindowIsTrue
<1>1. /\ stat \in StatRecord /\ Ring(stat.lastSecond, stat.requests, stat.count)
      /\ Ring(stat.lastSecond, stat.latencies, stat.sum) /\ Len(stat.latencies) = Len(stat.requests)
      /\ Total(stat.requests) <= stat.totalResponses - stat.badLatency
  BY DEF TrueStat
<1>2. /\ stat.requests \in Seq(Nat) /\ stat.latencies \in Seq(Nat) /\ stat.lastSecond \in Nat
      /\ stat.totalResponses \in Nat /\ stat.badLatency \in Nat
  BY <1>1 DEF StatRecord
<1>3. Total(stat.requests) \in Nat
  BY <1>2, TotalIs
<1>4. Len(stat.requests) <= kSeconds
  BY <1>1 DEF Ring
<1>5. ASSUME NEW i \in DOMAIN stat.requests
      PROVE  LET second == stat.lastSecond - Len(stat.requests) + i IN
             IF second < 1 THEN stat.requests[i] = 0
             ELSE stat.requests[i] = stat.count[second] /\ stat.latencies[i] = stat.sum[second]
  <2>1. i \in 1 .. Len(stat.requests) /\ i \in 1 .. Len(stat.latencies)
    BY <1>1, <1>2
  <2>2. stat.requests[i] = stat.count[stat.lastSecond - Len(stat.requests) + i]
    BY <1>1, <2>1 DEF Ring
  <2>3. stat.latencies[i] = stat.sum[stat.lastSecond - Len(stat.requests) + i]
    BY <1>1, <2>1 DEF Ring
  <2>4. Len(stat.requests) <= stat.lastSecond /\ Len(stat.requests) \in Nat
    BY <1>1, <1>2 DEF Ring
  <2>5. ~(stat.lastSecond - Len(stat.requests) + i < 1)
    BY <1>2, <2>1, <2>4
  <2> QED BY <2>2, <2>3, <2>5
<1>6. stat.totalResponses = stat.badLatency => Total(stat.requests) = 0
  BY <1>1, <1>2, <1>3
<1>7. report.requests60s = Total(stat.requests)
  BY DEF report
<1>8. Total(stat.requests) = 0 => report.latency60s = 0
  BY DEF report
<1> QED BY <1>1, <1>4, <1>5, <1>6, <1>7, <1>8 DEF WindowIsTrue

(***************************************************************************)
(* Whatever seconds and latencies the threads report and in whatever order *)
(* (stat.h 53-104, 139-190), every slot of the window holds exactly the    *)
(* responses of its second since the last reset and their latencies, the   *)
(* window is never longer than kSeconds, and report never counts more      *)
(* responses than there were.                                              *)
(***************************************************************************)
THEOREM StatWindowIsTrue == StatStart /\ [][StatNext]_stat => []WindowIsTrue
<1>1. StatStart => TrueStat(stat)
  BY NewStatIsTrue DEF StatStart
<1>2. TrueStat(stat) /\ [StatNext]_stat => TrueStat(stat)'
  BY StatStep
<1>3. TrueStat(stat) => WindowIsTrue
  BY TrueStatShows
<1> QED BY <1>1, <1>2, <1>3, PTL

-----------------------------------------------------------------------------
(***************************************************************************)
(* What FlattenSeq computes.  Joins says that a function joins the first i *)
(* of n sequences, for every i.                                            *)
(***************************************************************************)
Joins(f, s, n) == f = [i \in 1 .. n |-> IF i = 1 THEN s[i] ELSE f[i - 1] \o s[i]]

\* There is such a function.
LEMMA JoinsExist ==
    ASSUME NEW s, NEW n \in Nat
    PROVE  \E f : Joins(f, s, n)
<1> DEFINE T == {m \in Nat : \E f : Joins(f, s, m)}
<1>1. 0 \in T
  <2>1. Joins([i \in 1 .. 0 |-> 0], s, 0)
    BY DEF Joins
  <2> QED BY <2>1
<1>2. ASSUME NEW m \in Nat, m \in T PROVE m + 1 \in T
  <2>1. PICK f : Joins(f, s, m)
    BY <1>2
  <2> DEFINE next == [i \in 1 .. m + 1 |-> IF i = 1 THEN s[i] ELSE f[i - 1] \o s[i]]
  <2>2. \A i \in 1 .. m : next[i] = f[i]
    <3>1. \A i \in 1 .. m : f[i] = IF i = 1 THEN s[i] ELSE f[i - 1] \o s[i]
      BY <2>1 DEF Joins
    <3>2. \A i \in 1 .. m : i \in 1 .. m + 1
      OBVIOUS
    <3> QED BY <3>1, <3>2
  <2>3. ASSUME NEW i \in 1 .. m + 1, i # 1 PROVE next[i - 1] = f[i - 1]
    <3>1. i - 1 \in 1 .. m
      BY <2>3
    <3> HIDE DEF next
    <3> QED BY <2>2, <3>1
  <2>4. next = [i \in 1 .. m + 1 |-> IF i = 1 THEN s[i] ELSE f[i - 1] \o s[i]]
    OBVIOUS
  <2> HIDE DEF next
  <2>5. Joins(next, s, m + 1)
    BY <2>3, <2>4 DEF Joins
  <2> QED BY <2>5
<1>3. n \in T
  <2> HIDE DEF T
  <2> QED BY <1>1, <1>2, NatSetInduction
<1> QED BY <1>3

\* Two such functions agree as long as they join the same sequences.
LEMMA JoinsAgree ==
    ASSUME NEW s, NEW t, NEW m \in Nat, NEW n \in Nat, m <= n, \A i \in 1 .. m : s[i] = t[i],
           NEW f, Joins(f, s, m), NEW g, Joins(g, t, n)
    PROVE  \A i \in 1 .. m : f[i] = g[i]
<1> DEFINE T == {k \in Nat : k \in 1 .. m => f[k] = g[k]}
<1>0. /\ \A i \in 1 .. m : f[i] = IF i = 1 THEN s[i] ELSE f[i - 1] \o s[i]
      /\ \A i \in 1 .. n : g[i] = IF i = 1 THEN t[i] ELSE g[i - 1] \o t[i]
  BY DEF Joins
<1>1. 0 \in T
  OBVIOUS
<1>2. ASSUME NEW k \in Nat, k \in T PROVE k + 1 \in T
  <2> SUFFICES ASSUME k + 1 \in 1 .. m PROVE f[k + 1] = g[k + 1]
    OBVIOUS
  <2>0. k + 1 \in 1 .. n /\ s[k + 1] = t[k + 1] /\ (k + 1) - 1 = k
    OBVIOUS
  <2>1. CASE k = 0
    BY <1>0, <2>0, <2>1
  <2>2. CASE k # 0
    <3>1. f[k] = g[k]
      BY <1>2, <2>2
    <3>2. f[k + 1] = f[k] \o s[k + 1] /\ g[k + 1] = g[k] \o t[k + 1]
      <4>1. PICK j : j = k + 1
        OBVIOUS
      <4>2. j \in 1 .. m /\ j \in 1 .. n /\ j # 1 /\ j - 1 = k
        BY <2>0, <2>2, <4>1
      <4>3. f[j] = f[j - 1] \o s[j] /\ g[j] = g[j - 1] \o t[j]
        BY ONLY <1>0, <4>2
      <4> QED BY <4>1, <4>2, <4>3
    <3> QED BY <2>0, <3>1, <3>2
  <2> QED BY <2>1, <2>2
<1>3. Nat \subseteq T
  <2> HIDE DEF T
  <2> QED BY <1>1, <1>2, NatSetInduction
<1> QED BY <1>3

\* FlattenSeq takes the value of such a function.
LEMMA FlattenIs ==
    ASSUME NEW s, Len(s) \in Nat, Len(s) # 0
    PROVE  \E f : Joins(f, s, Len(s)) /\ FlattenSeq(s) = f[Len(s)]
<1> DEFINE f == CHOOSE g : g = [i \in 1 .. Len(s) |-> IF i = 1 THEN s[i] ELSE g[i - 1] \o s[i]]
<1>1. FlattenSeq(s) = f[Len(s)]
  BY DEF FlattenSeq
<1>2. PICK g : Joins(g, s, Len(s))
  BY JoinsExist
<1>3. g = [i \in 1 .. Len(s) |-> IF i = 1 THEN s[i] ELSE g[i - 1] \o s[i]]
  BY <1>2 DEF Joins
<1>4. f = [i \in 1 .. Len(s) |-> IF i = 1 THEN s[i] ELSE f[i - 1] \o s[i]]
  BY <1>3, Zenon
<1>5. Joins(f, s, Len(s))
  BY <1>4 DEF Joins
<1> QED BY <1>1, <1>5

\* Nothing to join.
LEMMA FlattenEmpty == FlattenSeq(<<>>) = <<>>
BY DEF FlattenSeq

\* One sequence more.
LEMMA FlattenAppend ==
    ASSUME NEW S, NEW s \in Seq(Seq(S)), NEW b \in Seq(S)
    PROVE  FlattenSeq(Append(s, b)) = FlattenSeq(s) \o b
<1> DEFINE t == Append(s, b)
           n == Len(s)
<1>1. /\ n \in Nat /\ Len(t) = n + 1 /\ t[n + 1] = b /\ \A i \in 1 .. n : s[i] = t[i]
  BY AppendProperties
<1> HIDE DEF t
<1>2. PICK g : Joins(g, t, n + 1) /\ FlattenSeq(t) = g[n + 1]
  <2>1. Len(t) \in Nat /\ Len(t) # 0
    BY <1>1
  <2> QED BY <1>1, <2>1, FlattenIs
<1>3. g[n + 1] = IF n + 1 = 1 THEN b ELSE g[n] \o b
  <2>1. n + 1 \in 1 .. n + 1 /\ (n + 1) - 1 = n
    BY <1>1
  <2> HIDE DEF n
  <2> QED BY <1>1, <1>2, <2>1 DEF Joins
<1>4. CASE n = 0
  <2>1. s = <<>>
    BY <1>4
  <2>2. FlattenSeq(s) \o b = b
    BY <2>1, FlattenEmpty, ConcatEmptySeq
  <2> QED BY <1>2, <1>3, <1>4, <2>2 DEF t
<1>5. CASE n # 0
  <2>1. PICK f : Joins(f, s, n) /\ FlattenSeq(s) = f[n]
    BY <1>1, <1>5, FlattenIs
  <2>2. \A i \in 1 .. n : f[i] = g[i]
    <3>1. PICK m \in Nat, k \in Nat : m = n /\ k = n + 1
      BY <1>1
    <3>2. m <= k /\ \A i \in 1 .. m : s[i] = t[i]
      BY <1>1, <3>1
    <3>3. Joins(f, s, m) /\ Joins(g, t, k)
      BY <1>2, <2>1, <3>1
    <3>4. \A i \in 1 .. m : f[i] = g[i]
      BY ONLY m \in Nat, k \in Nat, <3>2, <3>3, JoinsAgree
    <3> QED BY <3>1, <3>4
  <2>3. n \in 1 .. n /\ n + 1 # 1
    BY <1>1, <1>5
  <2> QED BY <1>2, <1>3, <2>1, <2>2, <2>3 DEF t
<1> QED BY <1>4, <1>5

\* A sequence that is not empty has its last element appended.
LEMMA LastAppended ==
    ASSUME NEW S, NEW s \in Seq(S), NEW n \in Nat, Len(s) = n + 1
    PROVE  \E t \in Seq(S), e \in S : s = Append(t, e) /\ Len(t) = n
<1>1. s # <<>>
  OBVIOUS
<1>2. PICK t \in Seq(S), e \in S : s = Append(t, e)
  BY <1>1, SequenceEmptyOrAppend
<1>3. Len(s) = Len(t) + 1
  BY <1>2, AppendProperties
<1> QED BY <1>2, <1>3

\* Sequences joined are a sequence.
LEMMA FlattenType ==
    ASSUME NEW S, NEW s \in Seq(Seq(S))
    PROVE  FlattenSeq(s) \in Seq(S)
<1> DEFINE T == {n \in Nat : \A t \in Seq(Seq(S)) : Len(t) = n => FlattenSeq(t) \in Seq(S)}
<1>1. 0 \in T
  <2>1. \A t \in Seq(Seq(S)) : Len(t) = 0 => t = <<>>
    OBVIOUS
  <2> QED BY <2>1, FlattenEmpty
<1>2. ASSUME NEW n \in Nat, n \in T PROVE n + 1 \in T
  <2>1. ASSUME NEW t \in Seq(Seq(S)), Len(t) = n + 1 PROVE FlattenSeq(t) \in Seq(S)
    <3>1. PICK u \in Seq(Seq(S)), e \in Seq(S) : t = Append(u, e) /\ Len(u) = n
      BY <2>1, LastAppended
    <3>2. FlattenSeq(u) \in Seq(S)
      BY <1>2, <3>1
    <3>3. FlattenSeq(t) = FlattenSeq(u) \o e
      BY <3>1, FlattenAppend
    <3> QED BY <3>2, <3>3
  <2> QED BY <2>1
<1>3. Len(s) \in T
  <2>1. Len(s) \in Nat
    OBVIOUS
  <2> HIDE DEF T
  <2>2. Nat \subseteq T
    BY <1>1, <1>2, NatSetInduction
  <2> QED BY <2>1, <2>2
<1> QED BY <1>3

\* Joining is associative.
LEMMA Regroup ==
    ASSUME NEW S
    PROVE  \A x, y, z \in Seq(S) : (x \o y) \o z = x \o (y \o z)
<1> TAKE x, y, z \in Seq(S)
<1> QED OBVIOUS

\* Joining goes through concatenation.
LEMMA FlattenConcat ==
    ASSUME NEW S, NEW s \in Seq(Seq(S)), NEW t \in Seq(Seq(S))
    PROVE  FlattenSeq(s \o t) = FlattenSeq(s) \o FlattenSeq(t)
<1> DEFINE P(u) == FlattenSeq(s \o u) = FlattenSeq(s) \o FlattenSeq(u)
           T == {n \in Nat : \A u \in Seq(Seq(S)) : Len(u) = n => P(u)}
<1>r. \A x, y, z \in Seq(S) : (x \o y) \o z = x \o (y \o z)
  BY Regroup, SMTT(30)
<1>0. FlattenSeq(s) \in Seq(S)
  BY FlattenType
<1>1. 0 \in T
  <2>1. ASSUME NEW u \in Seq(Seq(S)), Len(u) = 0 PROVE P(u)
    <3>1. u = <<>>
      BY <2>1
    <3>2. s \o u = s /\ FlattenSeq(u) = <<>> /\ FlattenSeq(s) \o <<>> = FlattenSeq(s)
      BY <1>0, <3>1, FlattenEmpty, ConcatEmptySeq
    <3> QED BY <3>2
  <2> QED BY <2>1
<1>2. ASSUME NEW n \in Nat, n \in T PROVE n + 1 \in T
  <2>1. ASSUME NEW u \in Seq(Seq(S)), Len(u) = n + 1 PROVE P(u)
    <3>1. PICK v \in Seq(Seq(S)), e \in Seq(S) : u = Append(v, e) /\ Len(v) = n
      BY <2>1, LastAppended
    <3>2. FlattenSeq(s \o v) = FlattenSeq(s) \o FlattenSeq(v)
      BY <1>2, <3>1
    <3>3. FlattenSeq(u) = FlattenSeq(v) \o e /\ FlattenSeq(v) \in Seq(S)
      BY <3>1, FlattenAppend, FlattenType
    <3>4. s \o u = Append(s \o v, e) /\ s \o v \in Seq(Seq(S))
      <4>1. PICK X : X = Seq(S)
        OBVIOUS
      <4>2. s \in Seq(X) /\ v \in Seq(X) /\ e \in X
        BY <4>1
      <4>3. s \o Append(v, e) = Append(s \o v, e) /\ s \o v \in Seq(X)
        BY ONLY <4>2
      <4> QED BY <3>1, <4>1, <4>3
    <3>5. FlattenSeq(s \o u) = FlattenSeq(s \o v) \o e
      BY <3>4, FlattenAppend
    <3>6. (FlattenSeq(s) \o FlattenSeq(v)) \o e = FlattenSeq(s) \o (FlattenSeq(v) \o e)
      <4>1. PICK x \in Seq(S), y \in Seq(S) : x = FlattenSeq(s) /\ y = FlattenSeq(v)
        BY <1>0, <3>3
      <4>2. (x \o y) \o e = x \o (y \o e)
        BY <1>r, Zenon
      <4> QED BY <4>1, <4>2
    <3> QED BY <3>2, <3>3, <3>5, <3>6
  <2> QED BY <2>1
<1>3. Len(t) \in T
  <2>1. Len(t) \in Nat
    OBVIOUS
  <2> HIDE DEF T
  <2> QED BY <1>1, <2>1, <1>2, NatSetInduction
<1> QED BY <1>3

\* A sequence alone is itself, joined.
LEMMA FlattenOne ==
    ASSUME NEW S, NEW b \in Seq(S)
    PROVE  FlattenSeq(<<b>>) = b
<1>1. <<>> \in Seq(Seq(S)) /\ <<b>> = Append(<<>>, b)
  OBVIOUS
<1>2. FlattenSeq(Append(<<>>, b)) = FlattenSeq(<<>>) \o b
  BY <1>1, FlattenAppend
<1> QED BY <1>1, <1>2, FlattenEmpty, ConcatEmptySeq

-----------------------------------------------------------------------------
(***************************************************************************)
(* Lines, buffers and what is in them.                                     *)
(***************************************************************************)
Line == [id : Nat, size : Nat]

\* Joining buffers is associative.
LEMMA RegroupLines == \A x, y, z \in Seq(Line) : (x \o y) \o z = x \o (y \o z)
<1> TAKE x, y, z \in Seq(Line)
<1> QED OBVIOUS

\* Joining ids is associative.
LEMMA RegroupIds == \A x, y, z \in Seq(Nat) : (x \o y) \o z = x \o (y \o z)
<1> TAKE x, y, z \in Seq(Nat)
<1> QED OBVIOUS

\* A buffer is a sequence of its lines.
LEMMA LinesOf ==
    ASSUME NEW b \in Seq(Line)
    PROVE  /\ Len(b) \in Nat /\ DOMAIN b = 1 .. Len(b)
           /\ \A i \in 1 .. Len(b) : b[i].id \in Nat /\ b[i].size \in Nat
<1>1. Len(b) \in Nat /\ DOMAIN b = 1 .. Len(b)
  BY LenProperties
<1>2. \A i \in 1 .. Len(b) : b[i] \in Line
  BY ElementOfSeq
<1> QED BY <1>1, <1>2 DEF Line

\* The ids of lines in a row.
LEMMA IdsType ==
    ASSUME NEW b \in Seq(Line)
    PROVE  /\ Ids(b) \in Seq(Nat) /\ Len(Ids(b)) = Len(b)
           /\ \A i \in 1 .. Len(b) : Ids(b)[i] = b[i].id
<1>1. Len(b) \in Nat /\ DOMAIN b = 1 .. Len(b) /\ \A i \in 1 .. Len(b) : b[i].id \in Nat
  BY LinesOf
<1>2. Ids(b) = [i \in 1 .. Len(b) |-> b[i].id]
  BY <1>1 DEF Ids
<1>3. [i \in 1 .. Len(b) |-> b[i].id] \in Seq(Nat)
  BY <1>1
<1> QED BY <1>1, <1>2, <1>3

\* Ids go through concatenation.
LEMMA IdsConcat ==
    ASSUME NEW b \in Seq(Line), NEW c \in Seq(Line)
    PROVE  Ids(b \o c) = Ids(b) \o Ids(c)
<1>1. b \o c \in Seq(Line) /\ Len(b \o c) = Len(b) + Len(c) /\ Len(b) \in Nat /\ Len(c) \in Nat
      /\ \A i \in 1 .. Len(b) + Len(c) : (b \o c)[i] = IF i <= Len(b) THEN b[i] ELSE c[i - Len(b)]
  BY ConcatProperties
<1> DEFINE d == b \o c
<1> HIDE DEF d
<1>2. /\ Ids(d) \in Seq(Nat) /\ Len(Ids(d)) = Len(d) /\ \A i \in 1 .. Len(d) : Ids(d)[i] = d[i].id
  BY <1>1, IdsType DEF d
<1>3. /\ Ids(b) \in Seq(Nat) /\ Len(Ids(b)) = Len(b) /\ \A i \in 1 .. Len(b) : Ids(b)[i] = b[i].id
      /\ Ids(c) \in Seq(Nat) /\ Len(Ids(c)) = Len(c) /\ \A i \in 1 .. Len(c) : Ids(c)[i] = c[i].id
  BY IdsType
<1>4. /\ Ids(b) \o Ids(c) \in Seq(Nat) /\ Len(Ids(b) \o Ids(c)) = Len(b) + Len(c)
      /\ \A i \in 1 .. Len(b) + Len(c) :
           (Ids(b) \o Ids(c))[i] = IF i <= Len(b) THEN Ids(b)[i] ELSE Ids(c)[i - Len(b)]
  BY <1>3, ConcatProperties
<1>5. ASSUME NEW i \in 1 .. Len(b) + Len(c) PROVE Ids(d)[i] = (Ids(b) \o Ids(c))[i]
  <2>1. Ids(d)[i] = d[i].id
    BY <1>1, <1>2 DEF d
  <2>2. CASE i <= Len(b)
    BY <1>1, <1>3, <1>4, <2>1, <2>2 DEF d
  <2>3. CASE ~(i <= Len(b))
    <3>1. i - Len(b) \in 1 .. Len(c)
      BY <1>1, <2>3
    <3> QED BY <1>1, <1>3, <1>4, <2>1, <2>3, <3>1 DEF d
  <2> QED BY <2>2, <2>3
<1>6. Len(Ids(d)) = Len(b) + Len(c)
  BY <1>1, <1>2 DEF d
<1>7. Ids(d) = Ids(b) \o Ids(c)
  BY <1>2, <1>4, <1>5, <1>6, SeqEqual
<1> QED BY <1>7 DEF d

\* The length of a buffer is the sum of the sizes of its lines.
LEMMA LengthType ==
    ASSUME NEW b \in Seq(Line)
    PROVE  Length(b) \in Nat
<1> DEFINE D == DOMAIN b
           f == [i \in D |-> b[i].size]
           it == CHOOSE g : g = [s \in SUBSET D |-> IF s = {} THEN 0
                                                    ELSE b[Some(s)].size + g[s \ {Some(s)}]]
<1>0. D = 1 .. Len(b) /\ Len(b) \in Nat /\ IsFiniteSet(D) /\ \A i \in D : f[i] = b[i].size /\ f[i] \in Nat
  <2>1. D = 1 .. Len(b) /\ Len(b) \in Nat /\ \A i \in D : b[i].size \in Nat
    BY LinesOf
  <2>2. IsFiniteSet(D)
    BY <2>1, FS_Interval
  <2> QED BY <2>1, <2>2
<1>1. Length(b) = it[D]
  BY DEF Length, FoldFunction, FoldFunctionOnSet, MapThenFoldSet, Some
<1> HIDE DEF D, f
<1>2. \A s \in SUBSET D : s # {} => f[Some(s)] = b[Some(s)].size
  BY <1>0 DEF Some
<1>3. PICK g : Sums(g, f, SUBSET D)
  BY <1>0, SumsExist
<1>4. g = [s \in SUBSET D |-> IF s = {} THEN 0 ELSE b[Some(s)].size + g[s \ {Some(s)}]]
  BY <1>2, <1>3 DEF Sums
<1>5. it = [s \in SUBSET D |-> IF s = {} THEN 0 ELSE b[Some(s)].size + it[s \ {Some(s)}]]
  BY <1>4, Zenon
<1> HIDE DEF it
<1>6. Sums(it, f, SUBSET D)
  BY <1>2, <1>5 DEF Sums
<1>7. PICK at : Sums(at, f, SUBSET D) /\ SumOver(f, D) = at[D]
  <2>1. IsFiniteSet(D)
    BY <1>0
  <2> QED BY ONLY <2>1, SumIs
<1>8. it[D] = at[D]
  <2>1. SumsTo(it, f, D) /\ SumsTo(at, f, D)
    BY <1>6, <1>7 DEF SumsTo
  <2> QED BY <1>0, <2>1, SumsAgree
<1>9. SumOver(f, D) \in Nat
  BY <1>0, SumNat
<1> QED BY <1>1, <1>7, <1>8, <1>9

-----------------------------------------------------------------------------
(***************************************************************************)
(* Ids in order.  0 is a notice and no line.                               *)
(***************************************************************************)
Below(A, B) == \A x \in A, y \in B : (x # 0 /\ y # 0) => x < y
Rising(a) == \A i, j \in 1 .. Len(a) : (i < j /\ a[i] # 0 /\ a[j] # 0) => a[i] < a[j]
InOrder(a, n, d) == a \in Seq(Nat) /\ Rising(a) /\ ToSet(a) \ {0} = (1 .. n) \ d

\* The ids in one sequence or the other.
LEMMA SetConcat ==
    ASSUME NEW a \in Seq(Nat), NEW b \in Seq(Nat)
    PROVE  ToSet(a \o b) = ToSet(a) \cup ToSet(b)
<1>1. /\ a \o b \in Seq(Nat) /\ Len(a \o b) = Len(a) + Len(b) /\ Len(a) \in Nat /\ Len(b) \in Nat
      /\ DOMAIN a = 1 .. Len(a) /\ DOMAIN b = 1 .. Len(b) /\ DOMAIN (a \o b) = 1 .. Len(a) + Len(b)
      /\ \A i \in 1 .. Len(a) + Len(b) : (a \o b)[i] = IF i <= Len(a) THEN a[i] ELSE b[i - Len(a)]
  BY ConcatProperties
<1> DEFINE c == a \o b
<1> HIDE DEF c
<1>2. ASSUME NEW x \in ToSet(c) PROVE x \in ToSet(a) \cup ToSet(b)
  <2>1. PICK i \in 1 .. Len(a) + Len(b) : x = c[i]
    BY <1>1 DEF ToSet, c
  <2>2. CASE i <= Len(a)
    <3>1. i \in DOMAIN a /\ x = a[i]
      BY <1>1, <2>1, <2>2 DEF c
    <3> QED BY <3>1 DEF ToSet
  <2>3. CASE ~(i <= Len(a))
    <3>1. i - Len(a) \in DOMAIN b /\ x = b[i - Len(a)]
      BY <1>1, <2>1, <2>3 DEF c
    <3> QED BY <3>1 DEF ToSet
  <2> QED BY <2>2, <2>3
<1>3. ASSUME NEW x \in ToSet(a) PROVE x \in ToSet(c)
  <2>1. PICK i \in 1 .. Len(a) : x = a[i]
    BY <1>1 DEF ToSet
  <2>2. i \in DOMAIN c /\ c[i] = a[i]
    BY <1>1 DEF c
  <2> QED BY <2>1, <2>2 DEF ToSet
<1>4. ASSUME NEW x \in ToSet(b) PROVE x \in ToSet(c)
  <2>1. PICK i \in 1 .. Len(b) : x = b[i]
    BY <1>1 DEF ToSet
  <2>2. PICK j : j = Len(a) + i
    OBVIOUS
  <2>3. j \in DOMAIN c /\ j \in 1 .. Len(a) + Len(b) /\ ~(j <= Len(a)) /\ j - Len(a) = i
    BY <1>1, <2>2 DEF c
  <2>4. c[j] = b[i]
    BY <1>1, <2>3 DEF c
  <2> QED BY <2>1, <2>3, <2>4 DEF ToSet
<1> QED BY <1>2, <1>3, <1>4 DEF c

\* A sequence in two parts rises if both do and the one is below the other.
LEMMA RisingConcat ==
    ASSUME NEW a \in Seq(Nat), NEW b \in Seq(Nat)
    PROVE  Rising(a \o b) <=> Rising(a) /\ Rising(b) /\ Below(ToSet(a), ToSet(b))
<1>1. /\ a \o b \in Seq(Nat) /\ Len(a \o b) = Len(a) + Len(b) /\ Len(a) \in Nat /\ Len(b) \in Nat
      /\ DOMAIN a = 1 .. Len(a) /\ DOMAIN b = 1 .. Len(b)
      /\ \A i \in 1 .. Len(a) + Len(b) : (a \o b)[i] = IF i <= Len(a) THEN a[i] ELSE b[i - Len(a)]
  BY ConcatProperties
<1> DEFINE c == a \o b
<1>2. \A i \in 1 .. Len(a) : i \in 1 .. Len(c) /\ c[i] = a[i]
  BY <1>1
<1>3. ASSUME NEW i \in 1 .. Len(b) PROVE Len(a) + i \in 1 .. Len(c) /\ c[Len(a) + i] = b[i]
  <2>1. PICK j : j = Len(a) + i
    OBVIOUS
  <2>2. j \in 1 .. Len(a) + Len(b) /\ ~(j <= Len(a)) /\ j - Len(a) = i
    BY <1>1, <2>1
  <2>3. c[j] = b[j - Len(a)]
    BY <1>1, <2>2
  <2> QED BY <1>1, <2>1, <2>2, <2>3
<1>4. Len(c) = Len(a) + Len(b)
  BY <1>1
<1> HIDE DEF c
<1>5. ASSUME Rising(c) PROVE Rising(a) /\ Rising(b) /\ Below(ToSet(a), ToSet(b))
  <2>1. Rising(a)
    BY <1>2, <1>5 DEF Rising
  <2>2. Rising(b)
    <3>1. ASSUME NEW i \in 1 .. Len(b), NEW j \in 1 .. Len(b), i < j, b[i] # 0, b[j] # 0
          PROVE  b[i] < b[j]
      <4>1. Len(a) + i < Len(a) + j
        BY <1>1, <3>1
      <4>2. c[Len(a) + i] = b[i] /\ c[Len(a) + j] = b[j]
            /\ Len(a) + i \in 1 .. Len(c) /\ Len(a) + j \in 1 .. Len(c)
        BY <1>3
      <4> QED BY <1>5, <3>1, <4>1, <4>2 DEF Rising
    <3> QED BY <3>1 DEF Rising
  <2>3. Below(ToSet(a), ToSet(b))
    <3>1. ASSUME NEW x \in ToSet(a), NEW y \in ToSet(b), x # 0, y # 0 PROVE x < y
      <4>1. PICK i \in 1 .. Len(a) : x = a[i]
        BY <1>1 DEF ToSet
      <4>2. PICK j \in 1 .. Len(b) : y = b[j]
        BY <1>1 DEF ToSet
      <4>3. i < Len(a) + j
        BY <1>1
      <4>4. c[i] = x /\ c[Len(a) + j] = y /\ i \in 1 .. Len(c) /\ Len(a) + j \in 1 .. Len(c)
        BY <1>2, <1>3, <4>1, <4>2
      <4> QED BY <1>5, <3>1, <4>3, <4>4 DEF Rising
    <3> QED BY <3>1 DEF Below
  <2> QED BY <2>1, <2>2, <2>3
<1>6. ASSUME Rising(a), Rising(b), Below(ToSet(a), ToSet(b)) PROVE Rising(c)
  <2> SUFFICES ASSUME NEW i \in 1 .. Len(c), NEW j \in 1 .. Len(c), i < j, c[i] # 0, c[j] # 0
               PROVE  c[i] < c[j]
    BY DEF Rising
  <2>0. \A k \in 1 .. Len(c) : c[k] = IF k <= Len(a) THEN a[k] ELSE b[k - Len(a)]
    BY <1>1, <1>4 DEF c
  <2>1. CASE j <= Len(a)
    <3>1. i \in 1 .. Len(a) /\ j \in 1 .. Len(a)
      BY <1>1, <1>4, <2>1
    <3> QED BY <1>2, <1>6, <3>1 DEF Rising
  <2>2. CASE i > Len(a)
    <3>1. i - Len(a) \in 1 .. Len(b) /\ j - Len(a) \in 1 .. Len(b) /\ i - Len(a) < j - Len(a)
          /\ ~(i <= Len(a)) /\ ~(j <= Len(a))
      BY <1>1, <1>4, <2>2
    <3>2. c[i] = b[i - Len(a)] /\ c[j] = b[j - Len(a)]
      BY <2>0, <3>1
    <3> QED BY <1>6, <3>1, <3>2 DEF Rising
  <2>3. CASE i <= Len(a) /\ j > Len(a)
    <3>1. i \in 1 .. Len(a) /\ j - Len(a) \in 1 .. Len(b) /\ ~(j <= Len(a))
      BY <1>1, <1>4, <2>3
    <3>2. c[i] = a[i] /\ c[j] = b[j - Len(a)]
      BY <2>0, <2>3, <3>1
    <3>3. a[i] \in ToSet(a) /\ b[j - Len(a)] \in ToSet(b)
      BY <1>1, <3>1 DEF ToSet
    <3> QED BY <1>6, <3>2, <3>3 DEF Below
  <2>4. i \in Nat /\ j \in Nat /\ Len(a) \in Nat
    BY <1>1, <1>4
  <2> QED BY <2>1, <2>2, <2>3, <2>4
<1> QED BY <1>5, <1>6 DEF c

\* One id alone.
LEMMA OneId ==
    ASSUME NEW x \in Nat
    PROVE  <<x>> \in Seq(Nat) /\ ToSet(<<x>>) = {x} /\ Rising(<<x>>)
<1>1. <<x>> \in Seq(Nat) /\ Len(<<x>>) = 1 /\ DOMAIN <<x>> = 1 .. 1 /\ <<x>>[1] = x
  OBVIOUS
<1>2. ToSet(<<x>>) = {x}
  BY <1>1 DEF ToSet
<1>3. Rising(<<x>>)
  BY <1>1 DEF Rising
<1> QED BY <1>1, <1>2, <1>3

\* The next line goes to the end.
LEMMA InOrderNext ==
    ASSUME NEW a, NEW n \in Nat, NEW d \in SUBSET (1 .. n), InOrder(a, n, d)
    PROVE  InOrder(a \o <<n + 1>>, n + 1, d)
<1>0. a \in Seq(Nat) /\ Rising(a) /\ ToSet(a) \ {0} = (1 .. n) \ d /\ n + 1 \in Nat
  BY DEF InOrder
<1>1. PICK x \in Nat : x = n + 1
  OBVIOUS
<1>2. <<x>> \in Seq(Nat) /\ ToSet(<<x>>) = {x} /\ Rising(<<x>>)
  BY OneId
<1>3. Below(ToSet(a), {x})
  BY <1>0, <1>1 DEF Below
<1>4. Rising(a \o <<x>>) /\ ToSet(a \o <<x>>) = ToSet(a) \cup {x} /\ a \o <<x>> \in Seq(Nat)
  <2>1. PICK z \in Seq(Nat) : z = <<x>>
    BY <1>2
  <2>2. Rising(z) /\ Below(ToSet(a), ToSet(z)) /\ ToSet(z) = {x}
    BY <1>2, <1>3, <2>1
  <2>3. Rising(a \o z)
    BY <1>0, <2>2, RisingConcat
  <2>4. ToSet(a \o z) = ToSet(a) \cup ToSet(z) /\ a \o z \in Seq(Nat)
    BY <1>0, SetConcat, ConcatProperties
  <2> QED BY <2>1, <2>2, <2>3, <2>4
<1>5. (ToSet(a) \cup {x}) \ {0} = (1 .. x) \ d
  BY <1>0, <1>1
<1>6. InOrder(a \o <<x>>, x, d)
  BY <1>4, <1>5 DEF InOrder
<1> QED BY <1>1, <1>6

\* Lines in the middle are dropped and a notice is written.
LEMMA InOrderDropped ==
    ASSUME NEW h \in Seq(Nat), NEW p \in Seq(Nat), NEW q \in Seq(Nat), NEW r \in Seq(Nat), NEW n, NEW d,
           InOrder(h \o (p \o (q \o r)), n, d), 0 \notin ToSet(q)
    PROVE  InOrder((h \o <<0>>) \o (p \o r), n, d \cup ToSet(q))
<1> DEFINE H == ToSet(h)
           P == ToSet(p)
           Q == ToSet(q)
           R == ToSet(r)
<1>1. q \o r \in Seq(Nat) /\ p \o (q \o r) \in Seq(Nat) /\ p \o r \in Seq(Nat)
  BY ConcatProperties
<1>2. ToSet(q \o r) = Q \cup R /\ ToSet(p \o r) = P \cup R
  BY SetConcat
<1>3. ToSet(p \o (q \o r)) = P \cup (Q \cup R)
  <2>1. PICK w \in Seq(Nat) : w = q \o r
    BY <1>1
  <2>2. ToSet(p \o w) = P \cup ToSet(w)
    BY SetConcat
  <2> QED BY <1>2, <2>1, <2>2
<1>4. ToSet(h \o (p \o (q \o r))) = H \cup (P \cup (Q \cup R))
  <2>1. PICK w \in Seq(Nat) : w = p \o (q \o r)
    BY <1>1
  <2>2. ToSet(h \o w) = H \cup ToSet(w)
    BY SetConcat
  <2> QED BY <1>3, <2>1, <2>2
<1>5. /\ Rising(h) /\ Rising(p \o (q \o r)) /\ Below(H, P \cup (Q \cup R))
  BY <1>1, <1>3, RisingConcat DEF InOrder
<1>6. Rising(p) /\ Rising(q \o r) /\ Below(P, Q \cup R)
  BY <1>1, <1>2, <1>5, RisingConcat
<1>7. Rising(r) /\ Below(Q, R)
  BY <1>6, RisingConcat
<1>8. <<0>> \in Seq(Nat) /\ ToSet(<<0>>) = {0} /\ Rising(<<0>>)
  BY OneId
<1>9. PICK z : z = <<0>>
  OBVIOUS
<1>10. z \in Seq(Nat) /\ ToSet(z) = {0} /\ Rising(z)
  BY <1>8, <1>9
<1>11. h \o z \in Seq(Nat) /\ ToSet(h \o z) = H \cup {0} /\ Rising(h \o z)
  <2>1. Below(H, {0})
    BY DEF Below
  <2>2. h \o z \in Seq(Nat) /\ ToSet(h \o z) = H \cup {0}
    BY <1>10, SetConcat, ConcatProperties
  <2>3. Rising(h \o z)
    BY <1>5, <1>10, <2>1, RisingConcat
  <2> QED BY <2>2, <2>3
<1>12. Rising(p \o r)
  <2>1. Below(P, R)
    BY <1>6 DEF Below
  <2> QED BY <1>6, <1>7, <2>1, RisingConcat
<1>13. Below(H \cup {0}, P \cup R)
  BY <1>5 DEF Below
<1>14. /\ (h \o z) \o (p \o r) \in Seq(Nat) /\ Rising((h \o z) \o (p \o r))
       /\ ToSet((h \o z) \o (p \o r)) = (H \cup {0}) \cup (P \cup R)
  <2>1. PICK v \in Seq(Nat), w \in Seq(Nat) : v = h \o z /\ w = p \o r
    BY <1>1, <1>11
  <2>2. /\ Rising(v) /\ Rising(w) /\ ToSet(v) = H \cup {0} /\ ToSet(w) = P \cup R
        /\ Below(ToSet(v), ToSet(w))
    BY <1>2, <1>11, <1>12, <1>13, <2>1
  <2>3. v \o w \in Seq(Nat) /\ ToSet(v \o w) = ToSet(v) \cup ToSet(w)
    BY SetConcat, ConcatProperties
  <2>4. Rising(v \o w)
    BY <2>2, RisingConcat
  <2> QED BY <2>1, <2>2, <2>3, <2>4
<1>15. H \subseteq Nat /\ P \subseteq Nat /\ Q \subseteq Nat /\ R \subseteq Nat
  BY DEF ToSet
<1>16. (H \cup (P \cup (Q \cup R))) \ {0} = (1 .. n) \ d
  BY <1>4 DEF InOrder
<1> HIDE DEF H, P, Q, R
<1>17. \A x \in Q : x # 0 /\ x \notin H /\ x \notin P /\ x \notin R
  BY <1>5, <1>6, <1>7, <1>15 DEF Below, Q
<1>18. ((H \cup {0}) \cup (P \cup R)) \ {0} = (1 .. n) \ (d \cup Q)
  BY <1>16, <1>17
<1>19. InOrder((h \o z) \o (p \o r), n, d \cup Q)
  BY <1>14, <1>18 DEF InOrder
<1> QED BY <1>9, <1>19 DEF Q

-----------------------------------------------------------------------------
(***************************************************************************)
(* The log file.                                                           *)
(***************************************************************************)
FileRecord ==
    [names : Seq(Nat), disk : Seq(Nat), held : Seq(Nat), written : Nat, count : Nat,
     startOfPeriod : Int, lastRoll : Nat, lastFlush : Nat]

\* The files have the names of different seconds, up to that of the last roll.
NamesRise(f) ==
    /\ \A i \in 1 .. Len(f.names) : f.names[i] <= f.lastRoll
    /\ \A i, j \in 1 .. Len(f.names) : i < j => f.names[i] < f.names[j]
GoodFile(f) == f \in FileRecord /\ NamesRise(f)

\* What is in it, on disk or not yet.
InFile(f) == f.disk \o f.held

\* The other members after a step that adds no name.
SameNames(f, g) == g.names = f.names /\ g.lastRoll = f.lastRoll

\* A file is not the empty tuple.
LEMMA FileIsNone ==
    ASSUME NEW f \in FileRecord
    PROVE  f # <<>>
<1>1. "disk" \in DOMAIN f
  BY DEF FileRecord
<1>2. DOMAIN <<>> = {}
  OBVIOUS
<1> QED BY <1>1, <1>2

\* flush moves what stdio holds to disk.
LEMMA FlushKeeps ==
    ASSUME NEW f, GoodFile(f)
    PROVE  /\ GoodFile(flush(f)) /\ InFile(flush(f)) = InFile(f) /\ SameNames(f, flush(f))
<1>0. f \in FileRecord /\ f.disk \in Seq(Nat) /\ f.held \in Seq(Nat)
  BY DEF GoodFile, FileRecord
<1>1. PICK d \in Seq(Nat) : d = f.disk \o f.held
  BY <1>0, ConcatProperties
<1>2. PICK e \in Seq(Nat) : e = <<>>
  BY EmptySeq
<1>3. flush(f) = [f EXCEPT !.disk = d, !.held = e]
  BY <1>1, <1>2 DEF flush
<1>4. PICK g : g = flush(f)
  OBVIOUS
<1>5. g \in FileRecord /\ g.disk = d /\ g.held = e /\ g.names = f.names /\ g.lastRoll = f.lastRoll
  BY <1>0, <1>3, <1>4 DEF FileRecord
<1>6. NamesRise(g)
  BY <1>5 DEF NamesRise, GoodFile
<1>7. InFile(g) = InFile(f)
  <2>1. d \o <<>> = d
    BY ConcatEmptySeq
  <2> QED BY <1>1, <1>2, <1>5, <2>1 DEF InFile
<1> QED BY <1>4, <1>5, <1>6, <1>7 DEF GoodFile, SameNames

\* rollFile starts a file with a later name, or none.
LEMMA RollKeeps ==
    ASSUME NEW f, GoodFile(f), NEW now \in Nat
    PROVE  GoodFile(rollFile(f, now)) /\ InFile(rollFile(f, now)) = InFile(f)
<1>1. CASE now > f.lastRoll
  <2>0. PICK h : h = flush(f)
    OBVIOUS
  <2>1. /\ GoodFile(h) /\ h \in FileRecord /\ InFile(h) = InFile(f) /\ h.names = f.names
        /\ h.lastRoll = f.lastRoll
    BY <2>0, FlushKeeps DEF GoodFile, SameNames
  <2>2. h.names \in Seq(Nat) /\ h.lastRoll \in Nat /\ Len(h.names) \in Nat
    BY <2>1 DEF FileRecord
  <2>3. PICK ns \in Seq(Nat) : ns = Append(h.names, now)
    BY <2>2, AppendProperties
  <2>4. PICK sp \in Int : sp = thisPeriod(now)
    <3>1. PICK q \in Int : q = now \div kRollPerSeconds
      BY LogSizes
    <3>2. q * kRollPerSeconds \in Int
      BY LogSizes
    <3> QED BY <3>1, <3>2 DEF thisPeriod
  <2>5. rollFile(f, now) = [h EXCEPT !.lastRoll = now, !.lastFlush = now, !.startOfPeriod = sp,
                                     !.names = ns, !.written = 0]
    BY <1>1, <2>0, <2>3, <2>4 DEF rollFile
  <2>6. PICK g : g = rollFile(f, now)
    OBVIOUS
  <2>7. /\ g \in FileRecord /\ g.disk = h.disk /\ g.held = h.held /\ g.names = ns /\ g.lastRoll = now
    <3>1. h \in FileRecord
      BY <2>1
    <3>2. PICK zero \in Nat : zero = 0
      OBVIOUS
    <3>3. g = [h EXCEPT !.lastRoll = now, !.lastFlush = now, !.startOfPeriod = sp, !.names = ns, !.written = zero]
      BY <2>5, <2>6, <3>2
    <3> QED BY ONLY now \in Nat, ns \in Seq(Nat), sp \in Int, zero \in Nat, <3>1, <3>3 DEF FileRecord
  <2>8. /\ Len(ns) = Len(h.names) + 1 /\ ns[Len(h.names) + 1] = now
        /\ \A i \in 1 .. Len(h.names) : ns[i] = h.names[i]
    BY <2>2, <2>3
  <2>9. /\ \A i \in 1 .. Len(h.names) : h.names[i] <= h.lastRoll /\ h.names[i] \in Nat
        /\ \A i, j \in 1 .. Len(h.names) : i < j => h.names[i] < h.names[j]
    <3>1. NamesRise(h)
      BY <2>1 DEF GoodFile
    <3>2. \A i \in 1 .. Len(h.names) : h.names[i] \in Nat
      BY <2>2, ElementOfSeq
    <3> QED BY <3>1, <3>2 DEF NamesRise
  <2>10. NamesRise(g)
    <3>0. \A i \in 1 .. Len(ns) : i \in 1 .. Len(h.names) \/ i = Len(h.names) + 1
      BY <2>2, <2>8
    <3>1. ASSUME NEW i \in 1 .. Len(h.names) PROVE ns[i] < now
      <4>1. ns[i] = h.names[i] /\ h.names[i] <= h.lastRoll /\ h.names[i] \in Nat
        BY <2>8, <2>9
      <4>2. h.lastRoll < now
        BY <1>1, <2>1, <2>2
      <4> QED BY <2>2, <4>1, <4>2
    <3>2. \A i \in 1 .. Len(ns) : ns[i] <= now
      BY <2>2, <2>3, <2>8, <3>0, <3>1
    <3>3. ASSUME NEW i \in 1 .. Len(ns), NEW j \in 1 .. Len(ns), i < j PROVE ns[i] < ns[j]
      <4>1. i \in 1 .. Len(h.names)
        BY <2>2, <2>8, <3>3
      <4>2. CASE j = Len(h.names) + 1
        BY <2>8, <3>1, <4>1, <4>2
      <4>3. CASE j \in 1 .. Len(h.names)
        BY <2>8, <2>9, <3>3, <4>1, <4>3
      <4> QED BY <3>0, <4>2, <4>3
    <3> QED BY <2>7, <3>2, <3>3 DEF NamesRise
  <2> QED BY <2>1, <2>6, <2>7, <2>10 DEF GoodFile, InFile
<1>2. CASE ~(now > f.lastRoll)
  BY <1>2 DEF rollFile
<1> QED BY <1>1, <1>2

\* check rolls, flushes or does nothing.
LEMMA CheckKeeps ==
    ASSUME NEW f, GoodFile(f), NEW now \in Nat
    PROVE  GoodFile(check(f, now)) /\ InFile(check(f, now)) = InFile(f)
<1>1. PICK g : g = [f EXCEPT !.lastFlush = now]
  OBVIOUS
<1>2. /\ g \in FileRecord /\ g.names = f.names /\ g.lastRoll = f.lastRoll
      /\ g.disk = f.disk /\ g.held = f.held
  BY <1>1 DEF GoodFile, FileRecord
<1>3. GoodFile(g) /\ InFile(g) = InFile(f)
  BY <1>2 DEF GoodFile, InFile, NamesRise
<1>4. check(f, now) = rollFile(f, now) \/ check(f, now) = flush(g) \/ check(f, now) = f
  BY <1>1 DEF check
<1> QED BY <1>3, <1>4, RollKeeps, FlushKeeps

\* What is appended comes last.
LEMMA FileAppendKeeps ==
    ASSUME NEW f, GoodFile(f), NEW lines \in Seq(Nat), NEW len \in Nat, NEW now \in Nat
    PROVE  /\ GoodFile(append_unlocked(f, lines, len, now))
           /\ InFile(append_unlocked(f, lines, len, now)) = InFile(f) \o lines
<1>0. f \in FileRecord /\ f.disk \in Seq(Nat) /\ f.held \in Seq(Nat) /\ f.written \in Nat /\ f.count \in Nat
  BY DEF GoodFile, FileRecord
<1>1. PICK h \in Seq(Nat) : h = f.held \o lines
  BY <1>0, ConcatProperties
<1>2. PICK w \in Nat : w = f.written + len
  BY <1>0
<1>3. PICK g : g = fileAppend(f, lines, len)
  OBVIOUS
<1>4. g = [f EXCEPT !.held = h, !.written = w]
  BY <1>1, <1>2, <1>3 DEF fileAppend
<1>5. /\ g \in FileRecord /\ g.names = f.names /\ g.lastRoll = f.lastRoll
      /\ g.disk = f.disk /\ g.held = h /\ g.count = f.count
  BY <1>0, <1>4 DEF FileRecord
<1>6. InFile(g) = InFile(f) \o lines
  <2>1. PICK d \in Seq(Nat), e \in Seq(Nat) : d = f.disk /\ e = f.held
    BY <1>0
  <2>2. d \o (e \o lines) = (d \o e) \o lines
    BY RegroupIds, Zenon
  <2> QED BY <1>1, <1>5, <2>1, <2>2 DEF InFile
<1>7. GoodFile(g)
  BY <1>5 DEF GoodFile, NamesRise
<1>8. ASSUME NEW c \in Nat PROVE GoodFile([g EXCEPT !.count = c]) /\ InFile([g EXCEPT !.count = c]) = InFile(g)
  <2>1. PICK k : k = [g EXCEPT !.count = c]
    OBVIOUS
  <2>2. /\ k \in FileRecord /\ k.names = g.names /\ k.lastRoll = g.lastRoll
        /\ k.disk = g.disk /\ k.held = g.held
    BY <1>5, <2>1 DEF FileRecord
  <2>3. GoodFile(k) /\ InFile(k) = InFile(g)
    BY <1>7, <2>2 DEF GoodFile, InFile, NamesRise
  <2> QED BY <2>1, <2>3
<1>9. PICK c \in Nat : c = g.count + 1
  BY <1>0, <1>5
<1>10. PICK z : z = append_unlocked(f, lines, len, now)
  OBVIOUS
<1>11. z = rollFile(g, now) \/ z = check([g EXCEPT !.count = 0], now) \/ z = [g EXCEPT !.count = c]
  BY <1>3, <1>9, <1>10 DEF append_unlocked
<1>12. CASE z = rollFile(g, now)
  BY <1>6, <1>7, <1>10, <1>12, RollKeeps
<1>13. CASE z = check([g EXCEPT !.count = 0], now)
  <2>1. PICK k : k = [g EXCEPT !.count = 0]
    OBVIOUS
  <2>2. GoodFile(k) /\ InFile(k) = InFile(g)
    BY <1>8, <2>1
  <2>3. GoodFile(check(k, now)) /\ InFile(check(k, now)) = InFile(k)
    BY <2>2, CheckKeeps
  <2> QED BY <1>6, <1>10, <1>13, <2>1, <2>2, <2>3
<1>14. CASE z = [g EXCEPT !.count = c]
  BY <1>6, <1>8, <1>10, <1>14
<1> QED BY <1>11, <1>12, <1>13, <1>14

\* A new one is empty.
LEMMA NewFileIsGood ==
    ASSUME NEW now \in Nat
    PROVE  GoodFile(NewLogFile(now)) /\ InFile(NewLogFile(now)) = <<>>
<1> DEFINE f == [names |-> <<>>, disk |-> <<>>, held |-> <<>>, written |-> 0, count |-> 0,
                 startOfPeriod |-> 0, lastRoll |-> 0, lastFlush |-> 0]
<1>1. f \in FileRecord /\ f.names = <<>> /\ f.disk = <<>> /\ f.held = <<>>
  BY DEF FileRecord
<1>2. NewLogFile(now) = rollFile(f, now)
  BY DEF NewLogFile
<1> HIDE DEF f
<1>3. GoodFile(f)
  BY <1>1 DEF GoodFile, NamesRise
<1>4. InFile(f) = <<>>
  BY <1>1 DEF InFile
<1> QED BY <1>2, <1>3, <1>4, RollKeeps

-----------------------------------------------------------------------------
(***************************************************************************)
(* The invariant.  Texts is about the lines: those in the file, then those *)
(* of the buffers being written, of the full ones and of the current one,  *)
(* are in order.  Places is about the buffers and the place of the back    *)
(* end: what it has taken is only there while it writes, a missing next    *)
(* buffer means that there is a full one, and there are as many buffers to *)
(* write as are needed to replace those it gave away.                      *)
(***************************************************************************)
BeforeFile == {"none", "begin"}
Idle == {"while", "take", "wait", "flush", "done"}
Busy == {"drop", "write"}
Owners == {"new", "starting", "up", "joining", "joined", "aborted"}

LogRecord ==
    [current : Seq(Line), next : BOOLEAN, buffers : Seq(Seq(Line)),
     pc : BeforeFile \cup Idle \cup Busy \cup {"aborted"}, new1 : BOOLEAN, new2 : BOOLEAN,
     toWrite : Seq(Seq(Line)), written : Nat, running : BOOLEAN, owner : Owners,
     output : {<<>>} \cup FileRecord, now : Nat, lines : Nat, dropped : SUBSET Nat]

Rest(lg) == SubSeq(lg.toWrite, lg.written + 1, Len(lg.toWrite))
Unwritten(lg) == FlattenSeq(Rest(lg) \o lg.buffers) \o lg.current
InOutput(lg) == IF lg.output = <<>> THEN <<>> ELSE InFile(lg.output)
Missing(lg) == (IF lg.new1 THEN 0 ELSE 1) + (IF lg.new2 THEN 0 ELSE 1)

Texts(lg) ==
    /\ lg.written <= Len(lg.toWrite) /\ lg.dropped \subseteq 1 .. lg.lines
    /\ InOrder(InOutput(lg) \o Ids(Unwritten(lg)), lg.lines, lg.dropped)
    /\ 0 \notin ToSet(Ids(Unwritten(lg)))

Places(lg) ==
    /\ lg.pc \in BeforeFile \cup Idle =>
         lg.toWrite = <<>> /\ lg.written = 0 /\ lg.new1 /\ lg.new2
    /\ lg.pc = "drop" => lg.written = 0
    /\ lg.pc \in Busy => Len(lg.toWrite) >= Missing(lg)
    /\ lg.pc \in BeforeFile => lg.output = <<>>
    /\ lg.pc \in Idle \cup Busy => lg.output # <<>>
    /\ lg.output # <<>> => GoodFile(lg.output)
    /\ ~lg.next => Len(lg.buffers) > 0
    /\ lg.owner = "new" => lg.pc = "none"

SafeLog(lg) == lg \in LogRecord /\ Texts(lg) /\ Places(lg)

\* The fields that hold lines are as they were.
SameTexts(a, b) ==
    /\ b.current = a.current /\ b.buffers = a.buffers /\ b.toWrite = a.toWrite /\ b.written = a.written
    /\ b.lines = a.lines /\ b.dropped = a.dropped
    /\ b.next = a.next /\ b.new1 = a.new1 /\ b.new2 = a.new2

\* Lines stay in order when none moves but from stdio to disk.
LEMMA TextsKept ==
    ASSUME NEW a, NEW b, Texts(a), SameTexts(a, b), InOutput(b) = InOutput(a)
    PROVE  Texts(b)
<1>1. Unwritten(b) = Unwritten(a)
  BY DEF SameTexts, Unwritten, Rest
<1> QED BY <1>1 DEF Texts, SameTexts

\* What is not written is a sequence of lines.
LEMMA UnwrittenType ==
    ASSUME NEW lg \in LogRecord, lg.written <= Len(lg.toWrite)
    PROVE  /\ Rest(lg) \in Seq(Seq(Line)) /\ Rest(lg) \o lg.buffers \in Seq(Seq(Line))
           /\ FlattenSeq(Rest(lg) \o lg.buffers) \in Seq(Line) /\ lg.current \in Seq(Line)
           /\ Unwritten(lg) \in Seq(Line)
<1>0. /\ lg.toWrite \in Seq(Seq(Line)) /\ lg.buffers \in Seq(Seq(Line)) /\ lg.current \in Seq(Line)
      /\ lg.written \in Nat
  BY DEF LogRecord
<1>1. PICK X : X = Seq(Line)
  OBVIOUS
<1>2. Rest(lg) \in Seq(X)
  <2>1. PICK t \in Seq(X) : t = lg.toWrite
    BY <1>0, <1>1
  <2>2. Len(t) \in Nat /\ \A i \in lg.written + 1 .. Len(t) : t[i] \in X
    BY <1>0
  <2>3. SubSeq(t, lg.written + 1, Len(t)) \in Seq(X)
    <3>1. lg.written + 1 \in Int /\ Len(t) \in Int
      BY <1>0, <2>2
    <3> QED BY <2>2, <3>1, SubSeqProperties
  <2> QED BY <2>1, <2>3 DEF Rest
<1>3. Rest(lg) \o lg.buffers \in Seq(X)
  BY <1>0, <1>1, <1>2, ConcatProperties
<1>4. FlattenSeq(Rest(lg) \o lg.buffers) \in Seq(Line)
  BY <1>1, <1>3, FlattenType
<1>5. Unwritten(lg) \in Seq(Line)
  BY <1>0, <1>4, ConcatProperties DEF Unwritten
<1> QED BY <1>0, <1>1, <1>2, <1>3, <1>4, <1>5

\* What is in the file is a sequence of ids.
LEMMA OutputType ==
    ASSUME NEW lg \in LogRecord
    PROVE  InOutput(lg) \in Seq(Nat)
<1>1. CASE lg.output = <<>>
  BY <1>1, EmptySeq DEF InOutput
<1>2. CASE lg.output # <<>>
  <2>1. lg.output \in FileRecord
    BY <1>2 DEF LogRecord
  <2>2. lg.output.disk \in Seq(Nat) /\ lg.output.held \in Seq(Nat)
    BY <2>1 DEF FileRecord
  <2> QED BY <1>2, <2>2, ConcatProperties DEF InOutput, InFile
<1> QED BY <1>1, <1>2

\* The length of a line is a natural number.
LEMMA LogLineType ==
    ASSUME NEW message \in Messages
    PROVE  LogLine(message) \in Nat
<1>0. message \in Nat
  BY LogSizes
<1>1. \A n, size, k : (n \in Nat /\ k \in Nat) => fixedAppend(n, size, k) \in Nat
  BY DEF fixedAppend
<1>2. \A n, k : (n \in Nat /\ k \in Nat) => formatInteger(n, k) \in Nat
  BY DEF formatInteger
<1>3. \A n : n \in Nat => finish(n) \in Nat
  BY <1>1, <1>2 DEF finish
<1> QED BY <1>0, <1>1, <1>3 DEF LogLine

\* At the start there is no line.
LEMMA LogStarts ==
    ASSUME LogStart
    PROVE  SafeLog(log)
<1>1. log \in LogRecord
  <2>1. <<>> \in Seq(Line) /\ <<>> \in Seq(Seq(Line)) /\ {} \in SUBSET Nat
    BY EmptySeq
  <2> QED BY <2>1 DEF LogStart, LogRecord, BeforeFile, Owners
<1>2. /\ log.toWrite = <<>> /\ log.written = 0 /\ log.buffers = <<>> /\ log.current = <<>> /\ log.next
      /\ log.new1 /\ log.new2 /\ log.output = <<>> /\ log.pc = "none" /\ log.lines = 0 /\ log.dropped = {}
  BY DEF LogStart
<1>3. Unwritten(log) = <<>>
  <2>1. Rest(log) = <<>>
    BY <1>2, SubSeqEmpty DEF Rest
  <2>2. <<>> \o <<>> = <<>>
    OBVIOUS
  <2> QED BY <1>2, <2>1, <2>2, FlattenEmpty DEF Unwritten
<1>4. Ids(<<>>) = <<>>
  BY DEF Ids
<1>5. InOutput(log) \o Ids(Unwritten(log)) = <<>>
  BY <1>2, <1>3, <1>4 DEF InOutput
<1>6. Len(<<>>) = 0 /\ DOMAIN <<>> = {} /\ <<>> \in Seq(Nat)
  OBVIOUS
<1>7. ToSet(<<>>) = {} /\ Rising(<<>>)
  BY <1>6 DEF ToSet, Rising
<1>8. InOrder(<<>>, 0, {})
  BY <1>6, <1>7 DEF InOrder
<1>9. Texts(log)
  BY <1>2, <1>3, <1>4, <1>5, <1>6, <1>7, <1>8 DEF Texts
<1>10. Places(log)
  BY <1>2 DEF Places, BeforeFile, Idle, Busy
<1> QED BY <1>1, <1>9, <1>10 DEF SafeLog

-----------------------------------------------------------------------------
(***************************************************************************)
(* The steps that move no line but from stdio to disk.                     *)
(***************************************************************************)
\* The places that follow each other with the buffers as they are.
Follows(a, b) ==
    \/ b.pc = a.pc /\ b.output = a.output
    \/ a.pc \in BeforeFile /\ b.pc \in BeforeFile /\ b.output = a.output
    \/ a.pc \in BeforeFile \cup Idle /\ b.pc \in Idle /\ b.output # <<>>
    \/ a.pc = "drop" /\ b.pc = "write" /\ b.output = a.output

\* Such a step keeps the invariant.
LEMMA QuietStep ==
    ASSUME NEW a, SafeLog(a), NEW b \in LogRecord, SameTexts(a, b), InOutput(b) = InOutput(a),
           Follows(a, b), b.output # <<>> => GoodFile(b.output), b.owner = "new" => b.pc = "none"
    PROVE  SafeLog(b)
<1>1. Texts(b)
  BY TextsKept DEF SafeLog
<1>2. Places(a)
  BY DEF SafeLog
<1>3. /\ b.toWrite = a.toWrite /\ b.written = a.written /\ b.new1 = a.new1 /\ b.new2 = a.new2
      /\ b.next = a.next /\ b.buffers = a.buffers /\ Missing(b) = Missing(a)
  BY DEF SameTexts, Missing
<1>4. Places(b)
  BY <1>2, <1>3 DEF Places, Follows, BeforeFile, Idle, Busy
<1> QED BY <1>1, <1>4 DEF SafeLog

\* A file that is flushed.
LEMMA FlushedOutput ==
    ASSUME NEW a, SafeLog(a), a.pc \in Idle
    PROVE  /\ GoodFile(flush(a.output)) /\ flush(a.output) \in FileRecord /\ flush(a.output) # <<>>
           /\ InFile(flush(a.output)) = InOutput(a)
<1>1. a.output # <<>> /\ GoodFile(a.output)
  BY DEF SafeLog, Places
<1>2. GoodFile(flush(a.output)) /\ InFile(flush(a.output)) = InFile(a.output)
  BY <1>1, FlushKeeps
<1> QED BY <1>1, <1>2, FileIsNone DEF GoodFile, InOutput

\* start() makes the thread.
LEMMA StartSafe ==
    ASSUME SafeLog(log), start
    PROVE  SafeLog(log')
<1>0. log \in LogRecord /\ Places(log)
  BY DEF SafeLog
<1>1. log' = [log EXCEPT !.owner = "starting", !.running = TRUE, !.pc = "begin"]
  BY DEF start
<1>2. /\ log' \in LogRecord /\ SameTexts(log, log') /\ log'.output = log.output /\ log'.pc = "begin"
      /\ log'.owner = "starting"
  BY <1>0, <1>1 DEF LogRecord, SameTexts, BeforeFile, Idle, Busy, Owners
<1>3. InOutput(log') = InOutput(log) /\ (log'.output # <<>> => GoodFile(log'.output))
  BY <1>0, <1>2 DEF InOutput, Places
<1>4. Follows(log, log') /\ (log'.owner = "new" => log'.pc = "none")
  BY <1>0, <1>2 DEF Follows, Places, BeforeFile, start
<1> QED BY <1>2, <1>3, <1>4, QuietStep

\* start() returns.
LEMMA LatchSafe ==
    ASSUME SafeLog(log), LatchOpens
    PROVE  SafeLog(log')
<1>0. log \in LogRecord /\ Places(log)
  BY DEF SafeLog
<1>1. log' = [log EXCEPT !.owner = "up"]
  BY DEF LatchOpens
<1>2. /\ log' \in LogRecord /\ SameTexts(log, log') /\ log'.output = log.output /\ log'.pc = log.pc
      /\ log'.owner = "up"
  BY <1>0, <1>1 DEF LogRecord, SameTexts, BeforeFile, Idle, Busy, Owners
<1>3. InOutput(log') = InOutput(log) /\ (log'.output # <<>> => GoodFile(log'.output))
  BY <1>0, <1>2 DEF InOutput, Places
<1>4. Follows(log, log') /\ (log'.owner = "new" => log'.pc = "none")
  BY <1>0, <1>2 DEF Follows, Places, BeforeFile, LatchOpens
<1> QED BY <1>2, <1>3, <1>4, QuietStep

\* stop() tells the thread.
LEMMA StopSafe ==
    ASSUME SafeLog(log), stop
    PROVE  SafeLog(log')
<1>0. log \in LogRecord /\ Places(log)
  BY DEF SafeLog
<1>1. log' = [log EXCEPT !.owner = "joining", !.running = FALSE]
  BY DEF stop
<1>2. /\ log' \in LogRecord /\ SameTexts(log, log') /\ log'.output = log.output /\ log'.pc = log.pc
      /\ log'.owner = "joining"
  BY <1>0, <1>1 DEF LogRecord, SameTexts, BeforeFile, Idle, Busy, Owners
<1>3. InOutput(log') = InOutput(log) /\ (log'.output # <<>> => GoodFile(log'.output))
  BY <1>0, <1>2 DEF InOutput, Places
<1>4. Follows(log, log') /\ (log'.owner = "new" => log'.pc = "none")
  BY <1>0, <1>2 DEF Follows, Places, BeforeFile, stop
<1> QED BY <1>2, <1>3, <1>4, QuietStep

\* stop() returns.
LEMMA JoinSafe ==
    ASSUME SafeLog(log), Join
    PROVE  SafeLog(log')
<1>0. log \in LogRecord /\ Places(log)
  BY DEF SafeLog
<1>1. log' = [log EXCEPT !.owner = "joined"]
  BY DEF Join
<1>2. /\ log' \in LogRecord /\ SameTexts(log, log') /\ log'.output = log.output /\ log'.pc = log.pc
      /\ log'.owner = "joined"
  BY <1>0, <1>1 DEF LogRecord, SameTexts, BeforeFile, Idle, Busy, Owners
<1>3. InOutput(log') = InOutput(log) /\ (log'.output # <<>> => GoodFile(log'.output))
  BY <1>0, <1>2 DEF InOutput, Places
<1>4. Follows(log, log') /\ (log'.owner = "new" => log'.pc = "none")
  BY <1>0, <1>2 DEF Follows, Places, BeforeFile, Join
<1> QED BY <1>2, <1>3, <1>4, QuietStep

\* Time passes.
LEMMA TickSafe ==
    ASSUME SafeLog(log), Tick
    PROVE  SafeLog(log')
<1>0. log \in LogRecord /\ Places(log)
  BY DEF SafeLog
<1>1. PICK t \in Nat : t = log.now + 1
  BY <1>0 DEF LogRecord
<1>2. log' = [log EXCEPT !.now = t]
  BY <1>1 DEF Tick
<1>3. /\ log' \in LogRecord /\ SameTexts(log, log') /\ log'.output = log.output /\ log'.pc = log.pc
      /\ log'.owner = log.owner
  BY <1>0, <1>2 DEF LogRecord, SameTexts
<1>4. InOutput(log') = InOutput(log) /\ (log'.output # <<>> => GoodFile(log'.output))
  BY <1>0, <1>3 DEF InOutput, Places
<1>5. Follows(log, log') /\ (log'.owner = "new" => log'.pc = "none")
  BY <1>0, <1>3 DEF Follows, Places
<1> QED BY <1>3, <1>4, <1>5, QuietStep

\* The thread makes its file.
LEMMA BeginSafe ==
    ASSUME SafeLog(log), Begin
    PROVE  SafeLog(log')
<1>0. log \in LogRecord /\ Places(log) /\ log.now \in Nat /\ log.pc = "begin"
  BY DEF SafeLog, LogRecord, Begin
<1>1. PICK f : f = NewLogFile(log.now)
  OBVIOUS
<1>2. GoodFile(f) /\ InFile(f) = <<>> /\ f \in FileRecord /\ f # <<>>
  BY <1>0, <1>1, NewFileIsGood, FileIsNone DEF GoodFile
<1>3. log' = [log EXCEPT !.pc = "while", !.output = f]
  BY <1>1 DEF Begin
<1>4. /\ log' \in LogRecord /\ SameTexts(log, log') /\ log'.output = f /\ log'.pc = "while"
      /\ log'.owner = log.owner
  BY <1>0, <1>2, <1>3 DEF LogRecord, SameTexts, Idle
<1>5. InOutput(log') = InOutput(log) /\ (log'.output # <<>> => GoodFile(log'.output))
  BY <1>0, <1>2, <1>4 DEF InOutput, Places, BeforeFile
<1>6. Follows(log, log') /\ (log'.owner = "new" => log'.pc = "none")
  BY <1>0, <1>2, <1>4 DEF Follows, Places, BeforeFile, Idle
<1> QED BY <1>4, <1>5, <1>6, QuietStep

\* The thread flushes, at the end of a round and at the end.
LEMMA FlushSafe ==
    ASSUME SafeLog(log), log.pc \in Idle, NEW pc \in Idle,
           log' = [log EXCEPT !.pc = pc, !.output = flush(@)]
    PROVE  SafeLog(log')
<1>0. log \in LogRecord /\ Places(log)
  BY DEF SafeLog
<1>1. PICK f : f = flush(log.output)
  OBVIOUS
<1>2. GoodFile(f) /\ InFile(f) = InOutput(log) /\ f \in FileRecord /\ f # <<>>
  BY <1>1, FlushedOutput
<1>3. log' = [log EXCEPT !.pc = pc, !.output = f]
  BY <1>1
<1>4. /\ log' \in LogRecord /\ SameTexts(log, log') /\ log'.output = f /\ log'.pc = pc
      /\ log'.owner = log.owner
  BY <1>0, <1>2, <1>3 DEF LogRecord, SameTexts
<1>5. InOutput(log') = InOutput(log) /\ (log'.output # <<>> => GoodFile(log'.output))
  BY <1>2, <1>4 DEF InOutput
<1>6. Follows(log, log') /\ (log'.owner = "new" => log'.pc = "none")
  BY <1>0, <1>2, <1>4 DEF Follows, Places, Idle
<1> QED BY <1>4, <1>5, <1>6, QuietStep

\* The thread goes on with its buffers as they are.
LEMMA PcSafe ==
    ASSUME SafeLog(log), log.pc # "none", NEW pc, log' = [log EXCEPT !.pc = pc],
           \/ log.pc \in Idle /\ pc \in Idle
           \/ log.pc = "drop" /\ pc = "write"
    PROVE  SafeLog(log')
<1>0. log \in LogRecord /\ Places(log)
  BY DEF SafeLog
<1>1. pc \in BeforeFile \cup Idle \cup Busy \cup {"aborted"}
  BY DEF Busy
<1>2. /\ log' \in LogRecord /\ SameTexts(log, log') /\ log'.output = log.output /\ log'.pc = pc
      /\ log'.owner = log.owner
  BY <1>0, <1>1 DEF LogRecord, SameTexts
<1>3. InOutput(log') = InOutput(log) /\ (log'.output # <<>> => GoodFile(log'.output))
  BY <1>0, <1>2 DEF InOutput, Places
<1>4. Follows(log, log') /\ (log'.owner = "new" => log'.pc = "none")
  BY <1>0, <1>2 DEF Follows, Places
<1> QED BY <1>2, <1>3, <1>4, QuietStep

-----------------------------------------------------------------------------
(***************************************************************************)
(* The steps that move lines.                                              *)
(***************************************************************************)
\* One alone is a sequence.
LEMMA OneIsSeq ==
    ASSUME NEW S, NEW x \in S
    PROVE  <<x>> \in Seq(S)
OBVIOUS

\* append() puts the line after all that are not written, whichever buffer takes it.
LEMMA AppendPutsLast ==
    ASSUME NEW a, SafeLog(a), NEW line \in Line
    PROVE  /\ append(a, line) \in LogRecord
           /\ Unwritten(append(a, line)) = Unwritten(a) \o <<line>>
           /\ append(a, line).written = a.written /\ append(a, line).toWrite = a.toWrite
           /\ append(a, line).lines = a.lines /\ append(a, line).dropped = a.dropped
           /\ append(a, line).new1 = a.new1 /\ append(a, line).new2 = a.new2
           /\ append(a, line).output = a.output /\ append(a, line).pc = a.pc
           /\ append(a, line).owner = a.owner
           /\ ~append(a, line).next => Len(append(a, line).buffers) > 0
<1> DEFINE b == append(a, line)
<1>0. a \in LogRecord /\ a.written <= Len(a.toWrite) /\ (~a.next => Len(a.buffers) > 0)
  BY DEF SafeLog, Texts, Places
<1>1. /\ a.current \in Seq(Line) /\ a.buffers \in Seq(Seq(Line)) /\ Rest(a) \in Seq(Seq(Line))
      /\ Rest(a) \o a.buffers \in Seq(Seq(Line)) /\ FlattenSeq(Rest(a) \o a.buffers) \in Seq(Line)
  BY <1>0, UnwrittenType DEF LogRecord
<1>2. PICK one \in Seq(Line) : one = <<line>>
  BY OneIsSeq
<1>3. PICK full \in Seq(Line) : full = FlattenSeq(Rest(a) \o a.buffers)
  BY <1>1
<1>4. CASE kLargeBuffer - Length(a.current) > line.size
  <2>1. PICK c \in Seq(Line) : c = Append(a.current, line)
    BY <1>1, AppendProperties
  <2>2. b = [a EXCEPT !.current = c]
    BY <1>4, <2>1 DEF append
  <2> HIDE DEF b
  <2>3. /\ b \in LogRecord /\ b.current = c /\ b.buffers = a.buffers /\ b.next = a.next
        /\ b.written = a.written /\ b.toWrite = a.toWrite
        /\ b.lines = a.lines /\ b.dropped = a.dropped /\ b.new1 = a.new1 /\ b.new2 = a.new2
        /\ b.output = a.output /\ b.pc = a.pc /\ b.owner = a.owner
    BY <1>0, <2>2 DEF LogRecord
  <2>4. Unwritten(b) = full \o c
    BY <1>3, <2>3 DEF Unwritten, Rest
  <2>5. c = a.current \o one
    BY <1>1, <1>2, <2>1, AppendIsConcat
  <2>6. full \o (a.current \o one) = (full \o a.current) \o one
    <3>1. PICK c0 \in Seq(Line) : c0 = a.current
      BY <1>1
    <3>2. full \o (c0 \o one) = (full \o c0) \o one
      BY RegroupLines, Zenon
    <3> QED BY <3>1, <3>2
  <2>7. Unwritten(b) = Unwritten(a) \o <<line>>
    BY <1>2, <1>3, <2>4, <2>5, <2>6 DEF Unwritten
  <2>8. ~b.next => Len(b.buffers) > 0
    BY <1>0, <2>3
  <2> QED BY <2>3, <2>7, <2>8 DEF b
<1>5. CASE ~(kLargeBuffer - Length(a.current) > line.size)
  <2>0. PICK X : X = Seq(Line)
    OBVIOUS
  <2>1. PICK bs \in Seq(X) : bs = Append(a.buffers, a.current)
    BY <1>1, <2>0, AppendProperties
  <2>2. b = [a EXCEPT !.buffers = bs, !.current = one, !.next = FALSE]
    BY <1>2, <1>5, <2>1 DEF append
  <2> HIDE DEF b
  <2>3. /\ b \in LogRecord /\ b.current = one /\ b.buffers = bs /\ b.next = FALSE
        /\ b.written = a.written /\ b.toWrite = a.toWrite
        /\ b.lines = a.lines /\ b.dropped = a.dropped /\ b.new1 = a.new1 /\ b.new2 = a.new2
        /\ b.output = a.output /\ b.pc = a.pc /\ b.owner = a.owner
    BY <1>0, <2>0, <2>2 DEF LogRecord
  <2>4. Rest(b) = Rest(a)
    BY <2>3 DEF Rest
  <2>5. Rest(a) \o bs = Append(Rest(a) \o a.buffers, a.current)
    <3>1. Rest(a) \in Seq(X) /\ a.buffers \in Seq(X) /\ a.current \in X
      BY <1>1, <2>0
    <3> QED BY ONLY <2>1, <3>1
  <2>6. FlattenSeq(Append(Rest(a) \o a.buffers, a.current)) = full \o a.current
    BY <1>1, <1>3, FlattenAppend
  <2>7. Unwritten(b) = Unwritten(a) \o <<line>>
    BY <1>2, <1>3, <2>3, <2>4, <2>5, <2>6 DEF Unwritten
  <2>8. Len(b.buffers) > 0
    <3>1. Len(bs) = Len(a.buffers) + 1 /\ Len(a.buffers) \in Nat
      BY <1>1, <2>1, AppendProperties
    <3> QED BY <2>3, <3>1
  <2> QED BY <2>3, <2>7, <2>8 DEF b
<1> QED BY <1>4, <1>5

\* A line is logged; after a FATAL one nothing more happens.
LEMMA LogSafe ==
    ASSUME SafeLog(log), NEW message \in Messages, NEW level, Log(message, level)
    PROVE  SafeLog(log')
<1>0. log \in LogRecord /\ log.lines \in Nat /\ log.dropped \subseteq 1 .. log.lines
      /\ log.written <= Len(log.toWrite)
  BY DEF SafeLog, Texts, LogRecord
<1>1. PICK n \in Nat : n = log.lines + 1
  BY <1>0
<1>2. PICK line \in Line : line = [id |-> log.lines + 1, size |-> LogLine(message)]
  BY <1>1, LogLineType DEF Line
<1>3. line.id = n
  BY <1>1, <1>2
<1>4. PICK a : a = append(log, line)
  OBVIOUS
<1>5. /\ a \in LogRecord /\ Unwritten(a) = Unwritten(log) \o <<line>>
      /\ a.written = log.written /\ a.toWrite = log.toWrite
      /\ a.lines = log.lines /\ a.dropped = log.dropped /\ a.new1 = log.new1 /\ a.new2 = log.new2
      /\ a.output = log.output /\ a.pc = log.pc /\ a.owner = log.owner
      /\ ~a.next => Len(a.buffers) > 0
  BY <1>4, AppendPutsLast
<1>6. PICK b : b = [a EXCEPT !.lines = n]
  OBVIOUS
<1>7. /\ b \in LogRecord /\ b.current = a.current /\ b.buffers = a.buffers /\ b.next = a.next
      /\ b.written = a.written /\ b.toWrite = a.toWrite /\ b.lines = n /\ b.dropped = a.dropped
      /\ b.new1 = a.new1 /\ b.new2 = a.new2 /\ b.output = a.output /\ b.pc = a.pc /\ b.owner = a.owner
  BY <1>5, <1>6 DEF LogRecord
<1>8. Unwritten(b) = Unwritten(log) \o <<line>> /\ InOutput(b) = InOutput(log)
  BY <1>5, <1>7 DEF Unwritten, Rest, InOutput
<1>9. Texts(b)
  <2>1. PICK u \in Seq(Line) : u = Unwritten(log)
    BY <1>0, UnwrittenType
  <2>2. PICK one \in Seq(Line) : one = <<line>>
    BY OneIsSeq
  <2>3. Ids(one) = <<n>>
    BY <1>3, <2>2 DEF Ids
  <2>4. Ids(Unwritten(b)) = Ids(u) \o <<n>>
    BY <1>8, <2>1, <2>2, <2>3, IdsConcat
  <2>5. PICK i \in Seq(Nat), o \in Seq(Nat), z \in Seq(Nat) : i = Ids(u) /\ o = InOutput(log) /\ z = <<n>>
    BY <1>0, IdsType, OutputType, OneId
  <2>6. InOrder(o \o i, log.lines, log.dropped) /\ 0 \notin ToSet(i)
    BY <2>1, <2>5 DEF SafeLog, Texts
  <2>7. InOrder((o \o i) \o z, n, log.dropped)
    BY <1>0, <1>1, <2>5, <2>6, InOrderNext
  <2>8. (o \o i) \o z = o \o (i \o z)
    BY RegroupIds, Zenon
  <2>9. 0 \notin ToSet(i \o z)
    <3>1. ToSet(i \o z) = ToSet(i) \cup ToSet(z) /\ ToSet(z) = {n}
      BY <2>5, SetConcat, OneId
    <3> QED BY <1>0, <1>1, <2>6, <3>1
  <2>10. b.dropped \subseteq 1 .. b.lines
    BY <1>0, <1>1, <1>5, <1>7
  <2>11. InOrder(InOutput(b) \o Ids(Unwritten(b)), n, log.dropped) /\ 0 \notin ToSet(Ids(Unwritten(b)))
    BY <1>8, <2>4, <2>5, <2>7, <2>8, <2>9
  <2> QED BY <1>0, <1>5, <1>7, <2>10, <2>11 DEF Texts
<1>10. Places(b)
  BY <1>5, <1>7 DEF SafeLog, Places, Missing
<1>11. log' = IF level = "FATAL" THEN [b EXCEPT !.pc = "aborted", !.owner = "aborted"] ELSE b
  BY <1>1, <1>2, <1>4, <1>5, <1>6 DEF Log
<1>12. CASE level # "FATAL"
  BY <1>7, <1>9, <1>10, <1>11, <1>12 DEF SafeLog
<1>13. CASE level = "FATAL"
  <2>0. log' = [b EXCEPT !.pc = "aborted", !.owner = "aborted"]
    BY <1>11, <1>13
  <2>1. /\ log' \in LogRecord /\ SameTexts(b, log') /\ log'.output = b.output /\ log'.pc = "aborted"
        /\ log'.owner = "aborted"
    BY <1>7, <2>0 DEF LogRecord, SameTexts, Owners
  <2>2. Texts(log')
    BY <1>9, <2>1, TextsKept DEF InOutput
  <2>3. Places(log')
    BY <1>10, <2>1 DEF Places, SameTexts, BeforeFile, Idle, Busy
  <2> QED BY <2>1, <2>2, <2>3 DEF SafeLog
<1> QED BY <1>12, <1>13

\* What is not written, as the buffers taken and the rest.
Behind(lg) == FlattenSeq(lg.buffers) \o lg.current

\* The ids of both, one after the other.
LEMMA UnwrittenIds ==
    ASSUME NEW lg \in LogRecord, lg.written <= Len(lg.toWrite)
    PROVE  /\ FlattenSeq(Rest(lg)) \in Seq(Line) /\ Behind(lg) \in Seq(Line)
           /\ Ids(FlattenSeq(Rest(lg))) \in Seq(Nat) /\ Ids(Behind(lg)) \in Seq(Nat)
           /\ Ids(Unwritten(lg)) = Ids(FlattenSeq(Rest(lg))) \o Ids(Behind(lg))
<1>1. /\ Rest(lg) \in Seq(Seq(Line)) /\ lg.buffers \in Seq(Seq(Line)) /\ lg.current \in Seq(Line)
  BY UnwrittenType DEF LogRecord
<1>2. PICK r \in Seq(Line), b \in Seq(Line), c \in Seq(Line) :
        r = FlattenSeq(Rest(lg)) /\ b = FlattenSeq(lg.buffers) /\ c = lg.current
  BY <1>1, FlattenType
<1>3. FlattenSeq(Rest(lg) \o lg.buffers) = r \o b
  BY <1>1, <1>2, FlattenConcat
<1>4. PICK l \in Seq(Line) : l = b \o c
  BY ConcatProperties
<1>5. Behind(lg) = l
  BY <1>2, <1>4 DEF Behind
<1>6. (r \o b) \o c = r \o (b \o c)
  BY RegroupLines, Zenon
<1>7. Unwritten(lg) = r \o l
  BY <1>2, <1>3, <1>4, <1>6 DEF Unwritten
<1>8. Ids(r \o l) = Ids(r) \o Ids(l) /\ Ids(r) \in Seq(Nat) /\ Ids(l) \in Seq(Nat)
  BY IdsConcat, IdsType
<1> QED BY <1>2, <1>5, <1>7, <1>8

\* The thread takes all buffers and gives empty ones.
LEMMA TakeSafe ==
    ASSUME SafeLog(log), log.pc \in {"take", "wait"}, log' = TakeBuffers(log)
    PROVE  SafeLog(log')
<1>0. /\ log \in LogRecord /\ Places(log) /\ Texts(log) /\ log.toWrite = <<>> /\ log.written = 0
      /\ log.new1 = TRUE /\ log.new2 = TRUE /\ log.output # <<>> /\ GoodFile(log.output)
      /\ log.owner # "new"
  BY DEF SafeLog, Places, Idle, LogRecord
<1>1. PICK X : X = Seq(Line)
  OBVIOUS
<1>2. PICK bs \in Seq(X), c \in X : bs = log.buffers /\ c = log.current
  BY <1>0, <1>1 DEF LogRecord
<1>3. PICK ts \in Seq(X) : ts = Append(bs, c)
  BY AppendProperties
<1>4. Len(ts) = Len(bs) + 1 /\ Len(bs) \in Nat
  BY <1>3, AppendProperties
<1>5. PICK e \in Seq(X), e0 \in X : e = <<>> /\ e0 = <<>>
  BY <1>1, EmptySeq
<1>6. PICK n2 \in BOOLEAN : n2 = log.next
  BY <1>0 DEF LogRecord
<1>7. log' = [log EXCEPT !.pc = "drop", !.toWrite = ts, !.buffers = e, !.current = e0, !.new1 = FALSE,
                         !.next = TRUE, !.new2 = n2]
  <2>1. (log.new2 /\ log.next) = n2
    BY <1>0, <1>6
  <2> QED BY <1>2, <1>3, <1>5, <2>1 DEF TakeBuffers
<1>8. /\ log' \in LogRecord /\ log'.pc = "drop" /\ log'.toWrite = ts /\ log'.buffers = e /\ log'.current = e0
      /\ log'.new1 = FALSE /\ log'.next = TRUE /\ log'.new2 = n2 /\ log'.written = log.written
      /\ log'.lines = log.lines /\ log'.dropped = log.dropped /\ log'.output = log.output
      /\ log'.owner = log.owner
  <2>1. log \in LogRecord
    BY <1>0
  <2>2. ts \in Seq(Seq(Line)) /\ e \in Seq(Seq(Line)) /\ e0 \in Seq(Line)
    BY <1>1
  <2>3. PICK pc \in Busy, yes \in BOOLEAN, no \in BOOLEAN : pc = "drop" /\ yes = TRUE /\ no = FALSE
    BY DEF Busy
  <2>4. log' = [log EXCEPT !.pc = pc, !.toWrite = ts, !.buffers = e, !.current = e0, !.new1 = no,
                           !.next = yes, !.new2 = n2]
    BY <1>7, <2>3
  <2>5. log' \in LogRecord
    <3>1. PICK a : a = [log EXCEPT !.pc = pc, !.toWrite = ts, !.buffers = e, !.current = e0]
      OBVIOUS
    <3>2. a \in LogRecord
      BY ONLY <2>1, <2>2, <3>1, pc \in Busy DEF LogRecord
    <3>3. log' = [a EXCEPT !.new1 = no, !.next = yes, !.new2 = n2]
      BY ONLY <2>1, <2>4, <3>1 DEF LogRecord
    <3> QED BY ONLY <3>2, <3>3, n2 \in BOOLEAN, yes \in BOOLEAN, no \in BOOLEAN DEF LogRecord
  <2>6. /\ log'.pc = pc /\ log'.toWrite = ts /\ log'.buffers = e /\ log'.current = e0
        /\ log'.new1 = no /\ log'.next = yes /\ log'.new2 = n2
    BY ONLY <2>1, <2>4 DEF LogRecord
  <2>7. /\ log'.written = log.written
        /\ log'.lines = log.lines /\ log'.dropped = log.dropped /\ log'.output = log.output
        /\ log'.owner = log.owner
    BY ONLY <2>1, <2>4 DEF LogRecord
  <2> QED BY <2>3, <2>5, <2>6, <2>7
<1>9. Unwritten(log') = Unwritten(log)
  <2>1. Rest(log) = <<>>
    <3>1. Len(<<>>) = 0
      OBVIOUS
    <3> QED BY <1>0, <3>1, SubSeqEmpty DEF Rest
  <2>2. Rest(log) \o log.buffers = bs
    BY <1>2, <2>1, ConcatEmptySeq
  <2>3. Rest(log') = ts
    BY <1>0, <1>8, SubSeqFull DEF Rest
  <2>4. Rest(log') \o log'.buffers = ts
    BY <1>5, <1>8, <2>3, ConcatEmptySeq
  <2>5. FlattenSeq(ts) = FlattenSeq(bs) \o c /\ FlattenSeq(ts) \in Seq(Line)
    BY <1>1, <1>3, FlattenAppend, FlattenType
  <2>6. FlattenSeq(ts) \o <<>> = FlattenSeq(ts)
    BY <2>5, ConcatEmptySeq
  <2> QED BY <1>2, <1>5, <1>8, <2>2, <2>4, <2>5, <2>6 DEF Unwritten
<1>10. Texts(log')
  <2>1. log'.written <= Len(log'.toWrite)
    BY <1>0, <1>4, <1>8
  <2>2. InOutput(log') = InOutput(log)
    BY <1>8 DEF InOutput
  <2> QED BY <1>0, <1>8, <1>9, <2>1, <2>2 DEF Texts
<1>11. Places(log')
  <2>1. Len(ts) >= Missing(log')
    <3>1. CASE n2
      BY <1>4, <1>8, <3>1 DEF Missing
    <3>2. CASE ~n2
      <4>1. Len(bs) > 0
        BY <1>0, <1>2, <1>6, <3>2 DEF Places
      <4> QED BY <1>4, <1>8, <3>2, <4>1 DEF Missing
    <3> QED BY <3>1, <3>2
  <2> QED BY <1>0, <1>8, <2>1 DEF Places, BeforeFile, Idle, Busy
<1> QED BY <1>8, <1>10, <1>11 DEF SafeLog

\* Too much to write: what is dropped is known, and two buffers stay.
LEMMA DropSafe ==
    ASSUME SafeLog(log), Drop
    PROVE  SafeLog(log')
<1>0. /\ log \in LogRecord /\ Places(log) /\ Texts(log) /\ log.written = 0 /\ log.pc = "drop"
      /\ log.output # <<>> /\ GoodFile(log.output) /\ log.owner # "new" /\ log.now \in Nat
      /\ log.lines \in Nat /\ log.dropped \subseteq 1 .. log.lines
  BY DEF SafeLog, Places, Texts, Busy, Drop, LogRecord
<1>1. CASE ~(Len(log.toWrite) > MaxBuffers)
  <2>1. log' = [log EXCEPT !.pc = "write"]
    BY <1>1 DEF Drop
  <2>2. PICK pc : pc = "write"
    OBVIOUS
  <2>3. log' = [log EXCEPT !.pc = pc]
    BY <2>1, <2>2
  <2> QED BY <1>0, <2>2, <2>3, PcSafe
<1>2. CASE Len(log.toWrite) > MaxBuffers
  <2>1. PICK X : X = Seq(Line)
    OBVIOUS
  <2>2. PICK tw \in Seq(X) : tw = log.toWrite
    BY <1>0, <2>1 DEF LogRecord
  <2>3. Len(tw) \in Nat /\ Len(tw) >= 3
    <3>1. Len(tw) \in Nat /\ Len(tw) > MaxBuffers
      BY <1>2, <2>2
    <3> QED BY <3>1, LogSizes
  <2>4. PICK two \in Seq(X), more \in Seq(X) : two = SubSeq(tw, 1, 2) /\ more = SubSeq(tw, 3, Len(tw))
    <3>1. \A i \in 1 .. Len(tw) : tw[i] \in X
      BY ElementOfSeq
    <3>2. \A i \in 1 .. 2 : tw[i] \in X
      BY <2>3, <3>1
    <3>3. \A i \in 3 .. Len(tw) : tw[i] \in X
      BY <2>3, <3>1
    <3>4. SubSeq(tw, 1, 2) \in Seq(X)
      BY <3>2, SubSeqProperties
    <3>5. SubSeq(tw, 3, Len(tw)) \in Seq(X)
      BY <2>3, <3>3, SubSeqProperties
    <3> QED BY <3>4, <3>5
  <2>5. Len(two) = 2
    <3>1. \A i \in 1 .. 2 : tw[i] \in X
      BY <2>3, ElementOfSeq
    <3> QED BY <2>4, <3>1, SubSeqProperties
  <2>6. tw = two \o more
    <3>1. SubSeq(tw, 1, 2) \o SubSeq(tw, 2 + 1, Len(tw)) = SubSeq(tw, 1, Len(tw))
      <4>1. 1 \in 1 .. Len(tw) + 1 /\ 2 \in 1 - 1 .. Len(tw) /\ Len(tw) \in 2 .. Len(tw)
        BY <2>3
      <4> QED BY <4>1, ConcatAdjacentSubSeq
    <3> QED BY <2>4, <3>1, SubSeqFull
  <2>7. PICK f : f = append_unlocked(log.output, <<0>>, 1, log.now)
    OBVIOUS
  <2>8. GoodFile(f) /\ InFile(f) = InFile(log.output) \o <<0>> /\ f \in FileRecord /\ f # <<>>
    <3>1. PICK z \in Seq(Nat) : z = <<0>>
      BY OneId
    <3>2. f = append_unlocked(log.output, z, 1, log.now)
      BY <2>7, <3>1
    <3>3. GoodFile(f) /\ InFile(f) = InFile(log.output) \o z
      BY <1>0, <3>2, FileAppendKeeps
    <3> QED BY <3>1, <3>3, FileIsNone DEF GoodFile
  <2>9. PICK h \in Seq(Nat) : h = InOutput(log)
    BY <1>0, OutputType
  <2>10. PICK p \in Seq(Nat), q \in Seq(Nat), r \in Seq(Nat) :
           p = Ids(FlattenSeq(two)) /\ q = Ids(FlattenSeq(more)) /\ r = Ids(Behind(log))
    <3>1. FlattenSeq(two) \in Seq(Line) /\ FlattenSeq(more) \in Seq(Line) /\ Ids(Behind(log)) \in Seq(Nat)
      BY <1>0, <2>1, FlattenType, UnwrittenIds DEF Texts
    <3> QED BY <3>1, IdsType
  <2>11. Ids(Unwritten(log)) = p \o (q \o r)
    <3>1. Rest(log) = tw
      BY <1>0, <2>2, SubSeqFull DEF Rest
    <3>2. FlattenSeq(tw) = FlattenSeq(two) \o FlattenSeq(more)
      BY <2>1, <2>6, FlattenConcat
    <3>3. Ids(FlattenSeq(tw)) = p \o q
      BY <2>1, <2>10, <3>2, FlattenType, IdsConcat
    <3>4. Ids(Unwritten(log)) = (p \o q) \o r
      BY <1>0, <2>10, <3>1, <3>3, UnwrittenIds DEF Texts
    <3>5. (p \o q) \o r = p \o (q \o r)
      BY RegroupIds, Zenon
    <3> QED BY <3>4, <3>5
  <2>12. InOrder(h \o (p \o (q \o r)), log.lines, log.dropped) /\ 0 \notin ToSet(p \o (q \o r))
    BY <1>0, <2>9, <2>11 DEF Texts
  <2>13. ToSet(p \o (q \o r)) = ToSet(p) \cup (ToSet(q) \cup ToSet(r)) /\ ToSet(p \o r) = ToSet(p) \cup ToSet(r)
    <3>1. PICK v \in Seq(Nat) : v = q \o r
      BY ConcatProperties
    <3>2. ToSet(v) = ToSet(q) \cup ToSet(r) /\ ToSet(p \o v) = ToSet(p) \cup ToSet(v)
      BY <3>1, SetConcat
    <3>3. ToSet(p \o r) = ToSet(p) \cup ToSet(r)
      BY SetConcat
    <3> QED BY <3>1, <3>2, <3>3
  <2>14. 0 \notin ToSet(q) /\ 0 \notin ToSet(p \o r)
    BY <2>12, <2>13
  <2>15. InOrder((h \o <<0>>) \o (p \o r), log.lines, log.dropped \cup ToSet(q))
    BY <2>12, <2>14, InOrderDropped
  <2>16. ToSet(q) \subseteq 1 .. log.lines
    <3>1. PICK w \in Seq(Nat) : w = p \o (q \o r)
      BY ConcatProperties
    <3>2. ToSet(h \o w) = ToSet(h) \cup ToSet(w)
      BY SetConcat
    <3>3. ToSet(h \o w) \ {0} = (1 .. log.lines) \ log.dropped
      BY <2>12, <3>1 DEF InOrder
    <3> QED BY <2>13, <2>14, <3>1, <3>2, <3>3
  <2>17. PICK d : d = log.dropped \cup ToSet(q)
    OBVIOUS
  <2>18. d \subseteq 1 .. log.lines /\ d \in SUBSET Nat
    BY <1>0, <2>16, <2>17
  <2>19. log' = [log EXCEPT !.pc = "write", !.output = f, !.toWrite = two, !.dropped = d]
    BY <1>2, <2>2, <2>4, <2>7, <2>10, <2>17 DEF Drop
  <2>20. /\ log' \in LogRecord /\ log'.pc = "write" /\ log'.output = f /\ log'.toWrite = two /\ log'.dropped = d
         /\ log'.lines = log.lines /\ log'.written = 0 /\ log'.buffers = log.buffers
         /\ log'.current = log.current /\ log'.next = log.next /\ log'.new1 = log.new1
         /\ log'.new2 = log.new2 /\ log'.owner = log.owner
    BY <1>0, <2>1, <2>8, <2>18, <2>19 DEF LogRecord, Busy
  <2>21. Texts(log')
    <3>1. log'.written <= Len(log'.toWrite)
      BY <2>5, <2>20
    <3>2. Rest(log') = two
      BY <2>20, SubSeqFull DEF Rest
    <3>3. Behind(log') = Behind(log)
      BY <2>20 DEF Behind
    <3>4. Ids(Unwritten(log')) = p \o r
      BY <2>10, <2>20, <3>1, <3>2, <3>3, UnwrittenIds
    <3>5. InOutput(log') = h \o <<0>>
      BY <1>0, <2>8, <2>9, <2>20 DEF InOutput
    <3> QED BY <2>14, <2>15, <2>17, <2>18, <2>20, <3>1, <3>4, <3>5 DEF Texts
  <2>22. Places(log')
    <3>1. Missing(log') <= 2
      BY DEF Missing
    <3>2. Len(two) >= Missing(log')
      BY <2>5, <3>1 DEF Missing
    <3> QED BY <1>0, <2>8, <2>20, <3>2 DEF Places, BeforeFile, Idle, Busy
  <2> QED BY <2>20, <2>21, <2>22 DEF SafeLog
<1> QED BY <1>1, <1>2

\* The first ids of those that wait move to the end of those in the file, under names that the
\* provers need not look behind.
Associates(x, y, z) == (x \o y) \o z = x \o (y \o z)
MovesOver(h, ids, x, r) ==
    /\ h \o ((ids \o x) \o r) = (h \o ids) \o (x \o r)
    /\ ToSet((ids \o x) \o r) = ToSet(ids) \cup ToSet(x \o r)

\* Ids may be joined in any order of the joins.
LEMMA AllAssociate ==
    ASSUME NEW x \in Seq(Nat), NEW y \in Seq(Nat), NEW z \in Seq(Nat)
    PROVE  Associates(x, y, z)
BY DEF Associates

\* Ids may move over.
LEMMA MoveOver ==
    ASSUME NEW h \in Seq(Nat), NEW ids \in Seq(Nat), NEW x \in Seq(Nat), NEW r \in Seq(Nat)
    PROVE  MovesOver(h, ids, x, r)
<1>1. Associates(ids, x, r)
  BY AllAssociate
<1>2. PICK y \in Seq(Nat) : y = x \o r
  BY ConcatProperties
<1>3. Associates(h, ids, y)
  BY AllAssociate
<1>4. ToSet(ids \o y) = ToSet(ids) \cup ToSet(y)
  BY SetConcat
<1>5. h \o ((ids \o x) \o r) = (h \o ids) \o (x \o r)
  BY <1>1, <1>2, <1>3, Zenon DEF Associates
<1>6. ToSet((ids \o x) \o r) = ToSet(ids) \cup ToSet(x \o r)
  BY <1>1, <1>2, <1>4, Zenon DEF Associates
<1> QED BY <1>5, <1>6 DEF MovesOver

\* A buffer is written: its lines come after all that are in the file.
LEMMA WriteSafe ==
    ASSUME SafeLog(log), Write
    PROVE  SafeLog(log')
<1>0. /\ log \in LogRecord /\ Places(log) /\ Texts(log) /\ log.pc = "write" /\ log.written < Len(log.toWrite)
      /\ log.output # <<>> /\ GoodFile(log.output) /\ log.owner # "new" /\ log.now \in Nat
      /\ log.written \in Nat
  BY DEF SafeLog, Places, Texts, Busy, Write, LogRecord
<1>1. PICK X : X = Seq(Line)
  OBVIOUS
<1>2. PICK tw \in Seq(X) : tw = log.toWrite
  BY <1>0, <1>1 DEF LogRecord
<1>3. PICK w \in Nat : w = log.written + 1
  BY <1>0
<1>4. w \in 1 .. Len(tw) /\ Len(tw) \in Nat
  BY <1>0, <1>2, <1>3
<1>5. PICK b \in X : b = tw[w]
  BY <1>4, ElementOfSeq
<1>6. b \in Seq(Line) /\ <<b>> \in Seq(X)
  BY <1>1, OneIsSeq
<1>7. PICK ids \in Seq(Nat), len \in Nat : ids = Ids(b) /\ len = Length(b)
  BY <1>6, IdsType, LengthType
<1>8. PICK f : f = append_unlocked(log.output, ids, len, log.now)
  OBVIOUS
<1>9. GoodFile(f) /\ InFile(f) = InFile(log.output) \o ids /\ f \in FileRecord /\ f # <<>>
  BY <1>0, <1>8, FileAppendKeeps, FileIsNone DEF GoodFile
<1>10. log' = [log EXCEPT !.written = w, !.output = f]
  BY <1>2, <1>3, <1>5, <1>7, <1>8 DEF Write
<1>11. /\ log' \in LogRecord /\ log'.pc = "write" /\ log'.output = f /\ log'.toWrite = tw /\ log'.written = w
       /\ log'.lines = log.lines /\ log'.dropped = log.dropped /\ log'.buffers = log.buffers
       /\ log'.current = log.current /\ log'.next = log.next /\ log'.new1 = log.new1
       /\ log'.new2 = log.new2 /\ log'.owner = log.owner
  BY <1>0, <1>2, <1>9, <1>10 DEF LogRecord
<1>12. log'.written <= Len(log'.toWrite) /\ log.written <= Len(log.toWrite)
  BY <1>0, <1>2, <1>4, <1>11
<1>13. Rest(log) = <<b>> \o Rest(log')
  <2>1. Len(tw) \in w .. Len(tw)
    BY <1>4
  <2>2. SubSeq(tw, w, Len(tw)) = <<tw[w]>> \o SubSeq(tw, w + 1, Len(tw))
    BY <1>4, <2>1, SubSeqRecursiveFirst
  <2> QED BY <1>2, <1>3, <1>5, <1>11, <2>2 DEF Rest
<1>14. PICK x \in Seq(Nat), r \in Seq(Nat), h \in Seq(Nat) :
         x = Ids(FlattenSeq(Rest(log'))) /\ r = Ids(Behind(log)) /\ h = InOutput(log)
  BY <1>0, <1>11, <1>12, UnwrittenIds, OutputType
<1>15. Ids(FlattenSeq(Rest(log))) = ids \o x
  <2>1. Rest(log') \in Seq(X) /\ FlattenSeq(Rest(log')) \in Seq(Line)
    BY <1>1, <1>11, <1>12, UnwrittenType, UnwrittenIds
  <2>2. FlattenSeq(<<b>> \o Rest(log')) = FlattenSeq(<<b>>) \o FlattenSeq(Rest(log'))
    BY <1>1, <1>6, <2>1, FlattenConcat
  <2>3. FlattenSeq(<<b>>) = b
    BY <1>6, FlattenOne
  <2>4. Ids(b \o FlattenSeq(Rest(log'))) = Ids(b) \o Ids(FlattenSeq(Rest(log')))
    BY <1>6, <2>1, IdsConcat
  <2> QED BY <1>7, <1>13, <1>14, <2>2, <2>3, <2>4
<1>16. Ids(Unwritten(log)) = (ids \o x) \o r
  BY <1>0, <1>12, <1>14, <1>15, UnwrittenIds
<1>17. Ids(Unwritten(log')) = x \o r
  <2>1. Behind(log') = Behind(log)
    BY <1>11 DEF Behind
  <2> QED BY <1>11, <1>12, <1>14, <2>1, UnwrittenIds
<1>18. InOutput(log') = h \o ids
  BY <1>0, <1>9, <1>11, <1>14 DEF InOutput
<1>19. /\ h \o ((ids \o x) \o r) = (h \o ids) \o (x \o r)
       /\ ToSet((ids \o x) \o r) = ToSet(ids) \cup ToSet(x \o r)
  <2>1. MovesOver(h, ids, x, r)
    BY MoveOver
  <2> QED BY <2>1, Zenon DEF MovesOver
<1>20. Texts(log')
  BY <1>0, <1>11, <1>12, <1>14, <1>16, <1>17, <1>18, <1>19 DEF Texts
<1>21. Places(log')
  <2>1. Missing(log') = Missing(log)
    BY <1>11 DEF Missing
  <2> QED BY <1>0, <1>2, <1>9, <1>11, <2>1 DEF Places, BeforeFile, Idle, Busy
<1> QED BY <1>11, <1>20, <1>21 DEF SafeLog

\* All are written: the thread has its two buffers again.
LEMMA RefillSafe ==
    ASSUME SafeLog(log), Refill
    PROVE  SafeLog(log')
<1>0. /\ log \in LogRecord /\ Places(log) /\ Texts(log) /\ log.pc = "write" /\ log.written = Len(log.toWrite)
      /\ log.output # <<>> /\ GoodFile(log.output) /\ log.owner # "new" /\ log.written \in Nat
  BY DEF SafeLog, Places, Texts, Busy, Refill, LogRecord
<1>1. PICK X : X = Seq(Line)
  OBVIOUS
<1>2. PICK e \in Seq(X) : e = <<>>
  BY EmptySeq
<1>3. log' = [log EXCEPT !.pc = "flush", !.new1 = TRUE, !.new2 = TRUE, !.toWrite = e, !.written = 0]
  BY <1>2 DEF Refill
<1>4. /\ log' \in LogRecord /\ log'.pc = "flush" /\ log'.toWrite = e /\ log'.written = 0
      /\ log'.new1 = TRUE /\ log'.new2 = TRUE /\ log'.output = log.output
      /\ log'.lines = log.lines /\ log'.dropped = log.dropped /\ log'.buffers = log.buffers
      /\ log'.current = log.current /\ log'.next = log.next /\ log'.owner = log.owner
  BY <1>0, <1>1, <1>3 DEF LogRecord, Idle
<1>5. Rest(log) = <<>> /\ Rest(log') = <<>>
  <2>1. Len(e) = 0
    BY <1>2
  <2>2. log.written + 1 \in Int /\ log.written \in Int /\ log.written < log.written + 1
    BY <1>0
  <2> QED BY <1>0, <1>4, <2>1, <2>2, SubSeqEmpty DEF Rest
<1>6. Unwritten(log') = Unwritten(log) /\ InOutput(log') = InOutput(log)
  BY <1>4, <1>5 DEF Unwritten, InOutput
<1>7. log'.written <= Len(log'.toWrite)
  BY <1>2, <1>4
<1>8. Texts(log')
  BY <1>0, <1>4, <1>6, <1>7 DEF Texts
<1>9. Places(log')
  BY <1>0, <1>2, <1>4 DEF Places, BeforeFile, Idle, Busy
<1> QED BY <1>4, <1>8, <1>9 DEF SafeLog

-----------------------------------------------------------------------------
\* Every step keeps the invariant.
LEMMA LogStep ==
    ASSUME SafeLog(log), [LogNext]_log
    PROVE  SafeLog(log')
<1>1. CASE \E message \in Messages, level \in {"INFO", "FATAL"} : Log(message, level)
  BY <1>1, LogSafe
<1>2. CASE start
  BY <1>2, StartSafe
<1>3. CASE LatchOpens
  BY <1>3, LatchSafe
<1>4. CASE stop
  BY <1>4, StopSafe
<1>5. CASE Join
  BY <1>5, JoinSafe
<1>6. CASE Tick
  BY <1>6, TickSafe
<1>7. CASE Begin
  BY <1>7, BeginSafe
<1>8. CASE While
  <2>0. log.pc \in Idle /\ log.pc # "none"
    BY <1>8 DEF While, Idle
  <2>1. CASE log.running
    <3>1. PICK pc : pc = "take"
      OBVIOUS
    <3>2. log' = [log EXCEPT !.pc = pc] /\ pc \in Idle
      BY <1>8, <2>1, <3>1 DEF While, Idle
    <3> QED BY <2>0, <3>2, PcSafe
  <2>2. CASE ~log.running
    <3>1. PICK pc \in Idle : pc = "done"
      BY DEF Idle
    <3>2. log' = [log EXCEPT !.pc = pc, !.output = flush(@)]
      BY <1>8, <2>2, <3>1 DEF While
    <3> QED BY <2>0, <3>2, FlushSafe
  <2> QED BY <2>1, <2>2
<1>9. CASE Take
  <2>1. CASE log.buffers = <<>>
    <3>1. PICK pc : pc = "wait"
      OBVIOUS
    <3>2. log' = [log EXCEPT !.pc = pc] /\ pc \in Idle /\ log.pc \in Idle /\ log.pc # "none"
      BY <1>9, <2>1, <3>1 DEF Take, Idle
    <3> QED BY <3>2, PcSafe
  <2>2. CASE log.buffers # <<>>
    BY <1>9, <2>2, TakeSafe DEF Take
  <2> QED BY <2>1, <2>2
<1>10. CASE WaitEnds
  BY <1>10, TakeSafe DEF WaitEnds
<1>11. CASE Drop
  BY <1>11, DropSafe
<1>12. CASE Write
  BY <1>12, WriteSafe
<1>13. CASE Refill
  BY <1>13, RefillSafe
<1>14. CASE Flush
  <2>1. PICK pc \in Idle : pc = "while"
    BY DEF Idle
  <2>2. log' = [log EXCEPT !.pc = pc, !.output = flush(@)] /\ log.pc \in Idle
    BY <1>14, <2>1 DEF Flush, Idle
  <2> QED BY <2>2, FlushSafe
<1>15. CASE UNCHANGED log
  BY <1>15
<1> QED BY <1>1, <1>2, <1>3, <1>4, <1>5, <1>6, <1>7, <1>8, <1>9, <1>10, <1>11, <1>12, <1>13, <1>14,
           <1>15 DEF LogNext, BackEnd

\* The invariant implies what is wanted.
LEMMA SafeLogShows ==
    ASSUME SafeLog(log)
    PROVE  LinesInOrder
<1>0. log \in LogRecord /\ Places(log) /\ Texts(log)
  BY DEF SafeLog
<1>1. PICK o \in Seq(Nat), w \in Seq(Nat) : o = InOutput(log) /\ w = Ids(Unwritten(log))
  BY <1>0, OutputType, UnwrittenType, IdsType DEF Texts
<1>2. OnDisk \o Held = o
  <2>1. CASE log.output = <<>>
    <3>1. <<>> \o <<>> = <<>>
      OBVIOUS
    <3> QED BY <1>1, <2>1, <3>1 DEF OnDisk, Held, InOutput
  <2>2. CASE log.output # <<>>
    BY <1>1, <2>2 DEF OnDisk, Held, InOutput, InFile
  <2> QED BY <2>1, <2>2
<1>3. Waiting = w
  BY <1>1 DEF Waiting, Unwritten, Rest
<1>4. PICK all : all = OnDisk \o Held \o Waiting
  OBVIOUS
<1>5. all = o \o w
  BY <1>2, <1>3, <1>4
<1>6. InOrder(all, log.lines, log.dropped)
  BY <1>0, <1>1, <1>5 DEF Texts
<1>7. DOMAIN all = 1 .. Len(all)
  BY <1>6, LenProperties DEF InOrder
<1>8. \A i, j \in DOMAIN all : (i < j /\ all[i] # 0 /\ all[j] # 0) => all[i] < all[j]
  BY <1>6, <1>7 DEF InOrder, Rising
<1>9. ToSet(all) \ {0} = (1 .. log.lines) \ log.dropped
  BY <1>6 DEF InOrder
<1>10. log.pc = "write" =>
         Len(log.toWrite) >= (IF log.new1 THEN 0 ELSE 1) + (IF log.new2 THEN 0 ELSE 1)
  BY <1>0 DEF Places, Missing, Busy
<1>11. log.output # <<>> =>
         \A i, j \in DOMAIN log.output.names : i < j => log.output.names[i] < log.output.names[j]
  <2> SUFFICES ASSUME log.output # <<>>
               PROVE  \A i, j \in DOMAIN log.output.names : i < j => log.output.names[i] < log.output.names[j]
    OBVIOUS
  <2>1. PICK f : f = log.output
    OBVIOUS
  <2>2. GoodFile(f)
    BY <1>0, <2>1 DEF Places
  <2>3. f.names \in Seq(Nat)
    BY <2>2 DEF GoodFile, FileRecord
  <2>4. DOMAIN f.names = 1 .. Len(f.names)
    BY <2>3, LenProperties
  <2> QED BY <2>1, <2>2, <2>4 DEF GoodFile, NamesRise
<1> QED BY <1>4, <1>8, <1>9, <1>10, <1>11 DEF LinesInOrder

\* AsyncLogging.cc 27-123, LogFile.cc 30-104: however many lines are logged, of whatever lengths,
\* by however many threads, and whatever the sizes of the buffers and the files and the number of
\* buffers that may wait: no line is lost, doubled or moved by a swap, a reuse, a roll or a flush
\* (only those of dropped buffers go), the buffers written suffice to replace those taken, and no
\* two files have one name.
THEOREM LogLinesInOrder == LogStart /\ [][LogNext]_log => []LinesInOrder
<1>1. LogStart => SafeLog(log)
  BY LogStarts
<1>2. SafeLog(log) /\ [LogNext]_log => SafeLog(log)'
  BY LogStep
<1>3. SafeLog(log) => LinesInOrder
  BY SafeLogShows
<1> QED BY <1>1, <1>2, <1>3, PTL

-----------------------------------------------------------------------------
(***************************************************************************)
(* The calendar.  getJulianDayNumber counts years from March: the year     *)
(* 400 q + 100 s + 4 u + v ends with the 29th of February when it is long, *)
(* and its months and days are counted from 0.                             *)
(***************************************************************************)
Days(y) == y * 365 + y \div 4 - y \div 100 + y \div 400
MonthStart(m) == (153 * m + 2) \div 5
Extra(y) == IF IsLeap(y) THEN 1 ELSE 0
Numbered(day, month, year) == day + month + year - 32045
Early(m) == m <= 2
Late(m) == m > 2
ValidDate(date) ==
    /\ date = [year |-> date.year, month |-> date.month, day |-> date.day]
    /\ date.year \in Nat /\ date.month \in 1 .. 12 /\ date.day \in 1 .. DaysOf(date.year, date.month)
Jdn(date) == getJulianDayNumber(date.year, date.month, date.day)

Parts(q, s, u, v) == q \in Nat /\ s \in 0 .. 3 /\ u \in 0 .. 24 /\ v \in 0 .. 3
YearOf(q, s, u, v) == 400 * q + 100 * s + 4 * u + v
LongYear(s, u, v) == v = 3 /\ (u # 24 \/ s = 3)

\* Every year has its parts.
LEMMA YearParts ==
    ASSUME NEW y \in Nat
    PROVE  \E q, s, u, v : Parts(q, s, u, v) /\ y = YearOf(q, s, u, v)
<1>1. PICK q : q = y \div 400
  OBVIOUS
<1>2. PICK r : r = y - 400 * q
  OBVIOUS
<1>3. q \in Nat /\ r \in Nat /\ r < 400
  BY <1>1, <1>2, SMT
<1>4. PICK s : s = r \div 100
  OBVIOUS
<1>5. PICK t : t = r - 100 * s
  OBVIOUS
<1>6. s \in Nat /\ s < 4 /\ t \in Nat /\ t < 100
  BY <1>3, <1>4, <1>5, SMT
<1>7. PICK u : u = t \div 4
  OBVIOUS
<1>8. PICK v : v = t - 4 * u
  OBVIOUS
<1>9. u \in Nat /\ u < 25 /\ v \in Nat /\ v < 4
  BY <1>6, <1>7, <1>8, SMT
<1>10. y = YearOf(q, s, u, v)
  BY <1>2, <1>3, <1>5, <1>6, <1>8, <1>9, SMT DEF YearOf
<1>11. Parts(q, s, u, v)
  BY <1>3, <1>6, <1>9, SMT DEF Parts
<1> QED BY <1>10, <1>11

\* The quotients that getJulianDayNumber takes of a year.
LEMMA YearQuotients ==
    ASSUME NEW q, NEW s, NEW u, NEW v, Parts(q, s, u, v), NEW y, y = YearOf(q, s, u, v)
    PROVE  /\ y \in Nat
           /\ y \div 4 = 100 * q + 25 * s + u
           /\ y \div 100 = 4 * q + s
           /\ y \div 400 = q
<1>1. /\ q \in Nat /\ s \in Nat /\ s < 4 /\ u \in Nat /\ u < 25 /\ v \in Nat /\ v < 4
      /\ y = 400 * q + 100 * s + 4 * u + v
  BY SMT DEF Parts, YearOf
<1>2. y \div 4 = 100 * q + 25 * s + u
  BY <1>1, SMT
<1>3. y \div 100 = 4 * q + s
  BY <1>1, SMT
<1>4. y \div 400 = q
  BY <1>1, SMT
<1> QED BY <1>1, <1>2, <1>3, <1>4, SMT

\* The days before a year.
LEMMA DaysIs ==
    ASSUME NEW q, NEW s, NEW u, NEW v, Parts(q, s, u, v), NEW y, y = YearOf(q, s, u, v)
    PROVE  Days(y) = 146097 * q + 36524 * s + 1461 * u + 365 * v
<1>1. y \in Nat /\ y \div 4 = 100 * q + 25 * s + u /\ y \div 100 = 4 * q + s /\ y \div 400 = q
  BY YearQuotients
<1>2. q \in Nat /\ s \in Nat /\ u \in Nat /\ v \in Nat /\ y = 400 * q + 100 * s + 4 * u + v
  BY SMT DEF Parts, YearOf
<1> QED BY <1>1, <1>2, SMT DEF Days

\* A leap year, told from the parts of the year that begins in the March before it.
LEMMA LeapParts ==
    ASSUME NEW q, NEW s, NEW u, NEW v, Parts(q, s, u, v), NEW y \in Nat, y + 4799 = YearOf(q, s, u, v)
    PROVE  IsLeap(y) <=> LongYear(s, u, v)
<1>1. /\ q \in Nat /\ s \in Nat /\ s < 4 /\ u \in Nat /\ u < 25 /\ v \in Nat /\ v < 4
      /\ y + 4799 = 400 * q + 100 * s + 4 * u + v
  BY SMT DEF Parts, YearOf
<1>2. y = 400 * q + 100 * s + 4 * u + v - 4799
  BY <1>1, SMT
<1>3. y % 4 = 0 <=> v = 3
  BY <1>1, <1>2, SMT
<1>4. v = 3 => (y % 100 = 0 <=> u = 24)
  BY <1>1, <1>2, SMT
<1>5. v = 3 /\ u = 24 => (y % 400 = 0 <=> s = 3)
  BY <1>1, <1>2, SMT
<1> QED BY <1>3, <1>4, <1>5, SMT DEF IsLeap, LongYear

\* A year has 365 days, a leap year one more.
LEMMA YearStep ==
    ASSUME NEW y \in Nat
    PROVE  Days(y + 4799) \in Int /\ Days(y + 4800) = Days(y + 4799) + 365 + Extra(y)
<1>1. PICK q, s, u, v : Parts(q, s, u, v) /\ y + 4799 = YearOf(q, s, u, v)
  <2>1. y + 4799 \in Nat
    BY SMT
  <2> QED BY <2>1, YearParts
<1>2. Days(y + 4799) = 146097 * q + 36524 * s + 1461 * u + 365 * v
  BY <1>1, DaysIs
<1>3. IsLeap(y) <=> LongYear(s, u, v)
  BY <1>1, LeapParts
<1>4. /\ q \in Nat /\ s \in Nat /\ s < 4 /\ u \in Nat /\ u < 25 /\ v \in Nat /\ v < 4
      /\ y + 4799 = 400 * q + 100 * s + 4 * u + v
  BY <1>1, SMT DEF Parts, YearOf
<1>5. y + 4800 = 400 * q + 100 * s + 4 * u + v + 1
  BY <1>4, SMT
<1>6. CASE v < 3
  <2>1. Parts(q, s, u, v + 1) /\ y + 4800 = YearOf(q, s, u, v + 1)
    BY <1>4, <1>5, <1>6, SMT DEF Parts, YearOf
  <2>2. Days(y + 4800) = 146097 * q + 36524 * s + 1461 * u + 365 * (v + 1)
    BY <2>1, DaysIs
  <2>3. Extra(y) = 0
    BY <1>3, <1>4, <1>6, SMT DEF Extra, LongYear
  <2> QED BY <1>2, <1>4, <2>2, <2>3, SMT
<1>7. CASE v = 3 /\ u < 24
  <2>1. Parts(q, s, u + 1, 0) /\ y + 4800 = YearOf(q, s, u + 1, 0)
    BY <1>4, <1>5, <1>7, SMT DEF Parts, YearOf
  <2>2. Days(y + 4800) = 146097 * q + 36524 * s + 1461 * (u + 1) + 365 * 0
    BY <2>1, DaysIs
  <2>3. Extra(y) = 1
    BY <1>3, <1>4, <1>7, SMT DEF Extra, LongYear
  <2> QED BY <1>2, <1>4, <1>7, <2>2, <2>3, SMT
<1>8. CASE v = 3 /\ u = 24 /\ s < 3
  <2>1. Parts(q, s + 1, 0, 0) /\ y + 4800 = YearOf(q, s + 1, 0, 0)
    BY <1>4, <1>5, <1>8, SMT DEF Parts, YearOf
  <2>2. Days(y + 4800) = 146097 * q + 36524 * (s + 1) + 1461 * 0 + 365 * 0
    BY <2>1, DaysIs
  <2>3. Extra(y) = 0
    BY <1>3, <1>4, <1>8, SMT DEF Extra, LongYear
  <2> QED BY <1>2, <1>4, <1>8, <2>2, <2>3, SMT
<1>9. CASE v = 3 /\ u = 24 /\ s = 3
  <2>1. Parts(q + 1, 0, 0, 0) /\ y + 4800 = YearOf(q + 1, 0, 0, 0)
    BY <1>4, <1>5, <1>9, SMT DEF Parts, YearOf
  <2>2. Days(y + 4800) = 146097 * (q + 1) + 36524 * 0 + 1461 * 0 + 365 * 0
    BY <2>1, DaysIs
  <2>3. Extra(y) = 1
    BY <1>3, <1>4, <1>9, SMT DEF Extra, LongYear
  <2> QED BY <1>2, <1>4, <1>9, <2>2, <2>3, SMT
<1> QED BY <1>4, <1>6, <1>7, <1>8, <1>9, SMT

\* getJulianDayNumber, with the month counted from March.
LEMMA JulianIs ==
    ASSUME NEW y \in Nat, NEW m \in 1 .. 12, NEW d \in Int
    PROVE  /\ Early(m) => getJulianDayNumber(y, m, d) = Numbered(d, MonthStart(m + 9), Days(y + 4799))
           /\ Late(m) => getJulianDayNumber(y, m, d) = Numbered(d, MonthStart(m - 3), Days(y + 4800))
<1>1. CASE m <= 2
  <2>1. (14 - m) \div 12 = 1
    BY <1>1, SMT
  <2>2. y + 4800 - 1 = y + 4799 /\ m + 12 * 1 - 3 = m + 9
    BY SMT
  <2>3. getJulianDayNumber(y, m, d) = d + MonthStart(m + 12 * 1 - 3) + (y + 4800 - 1) * 365 + (y + 4800 - 1) \div 4 - (y + 4800 - 1) \div 100 + (y + 4800 - 1) \div 400 - 32045
    BY <2>1 DEF getJulianDayNumber, MonthStart
  <2>4. getJulianDayNumber(y, m, d) = d + MonthStart(m + 9) + (y + 4799) * 365 + (y + 4799) \div 4 - (y + 4799) \div 100 + (y + 4799) \div 400 - 32045
    BY <2>2, <2>3
  <2>5. MonthStart(m + 9) \in Int
    BY SMT DEF MonthStart
  <2>6. getJulianDayNumber(y, m, d) = Numbered(d, MonthStart(m + 9), Days(y + 4799))
    BY <2>4, <2>5, SMT DEF Days, Numbered
  <2> QED BY <1>1, <2>6, SMT DEF Early, Late
<1>2. CASE m > 2
  <2>1. (14 - m) \div 12 = 0
    BY <1>2, SMT
  <2>2. y + 4800 - 0 = y + 4800 /\ m + 12 * 0 - 3 = m - 3
    BY SMT
  <2>3. getJulianDayNumber(y, m, d) = d + MonthStart(m + 12 * 0 - 3) + (y + 4800 - 0) * 365 + (y + 4800 - 0) \div 4 - (y + 4800 - 0) \div 100 + (y + 4800 - 0) \div 400 - 32045
    BY <2>1 DEF getJulianDayNumber, MonthStart
  <2>4. getJulianDayNumber(y, m, d) = d + MonthStart(m - 3) + (y + 4800) * 365 + (y + 4800) \div 4 - (y + 4800) \div 100 + (y + 4800) \div 400 - 32045
    BY <2>2, <2>3
  <2>5. MonthStart(m - 3) \in Int
    BY SMT DEF MonthStart
  <2>6. getJulianDayNumber(y, m, d) = Numbered(d, MonthStart(m - 3), Days(y + 4800))
    BY <2>4, <2>5, SMT DEF Days, Numbered
  <2> QED BY <1>2, <2>6, SMT DEF Early, Late
<1> QED BY <1>1, <1>2, SMT

\* The days of the months from March on.
LEMMA MonthStarts ==
    /\ MonthStart(0) = 0 /\ MonthStart(1) = 31 /\ MonthStart(2) = 61 /\ MonthStart(3) = 92
    /\ MonthStart(4) = 122 /\ MonthStart(5) = 153 /\ MonthStart(6) = 184 /\ MonthStart(7) = 214
    /\ MonthStart(8) = 245 /\ MonthStart(9) = 275 /\ MonthStart(10) = 306 /\ MonthStart(11) = 337
BY SMT DEF MonthStart

\* The day after a date.
LEMMA TomorrowCases ==
    ASSUME NEW date, ValidDate(date), NEW next, next = Tomorrow(date)
    PROVE  /\ date.day < DaysOf(date.year, date.month) =>
                next = [year |-> date.year, month |-> date.month, day |-> date.day + 1]
           /\ date.day >= DaysOf(date.year, date.month) /\ date.month < 12 =>
                next = [year |-> date.year, month |-> date.month + 1, day |-> 1]
           /\ date.day >= DaysOf(date.year, date.month) /\ date.month >= 12 =>
                next = [year |-> date.year + 1, month |-> 1, day |-> 1]
<1>1. PICK y, m, d : date = [year |-> y, month |-> m, day |-> d]
  BY DEF ValidDate
<1>2. date.year = y /\ date.month = m /\ date.day = d
  BY <1>1
<1>3. y \in Nat /\ m \in 1 .. 12 /\ d \in Nat /\ DaysOf(y, m) \in Nat
  BY <1>2, SMT DEF ValidDate, DaysOf
<1>4. d >= DaysOf(y, m) <=> ~ (d < DaysOf(y, m))
  BY <1>3, SMT
<1>5. m >= 12 <=> ~ (m < 12)
  BY <1>3, SMT
<1>6. [date EXCEPT !.day = @ + 1] = [year |-> y, month |-> m, day |-> d + 1]
  BY <1>1
<1>7. [date EXCEPT !.month = @ + 1, !.day = 1] = [year |-> y, month |-> m + 1, day |-> 1]
  <2>1. PICK e : e = [date EXCEPT !.month = @ + 1]
    OBVIOUS
  <2>2. e = [year |-> y, month |-> m + 1, day |-> d]
    BY <1>1, <2>1
  <2>3. [e EXCEPT !.day = 1] = [year |-> y, month |-> m + 1, day |-> 1]
    BY <2>2
  <2> QED BY <2>1, <2>3
<1> HIDE <1>1
<1> QED BY <1>2, <1>4, <1>5, <1>6, <1>7 DEF Tomorrow

\* The numbers of months' days.
LEMMA DaysOfIs ==
    ASSUME NEW y \in Nat, NEW m \in 1 .. 12
    PROVE  /\ DaysOf(y, m) \in 28 .. 31
           /\ m = 2 => DaysOf(y, m) = 28 + Extra(y)
           /\ m \in {4, 6, 9, 11} => DaysOf(y, m) = 30
           /\ m \in {1, 3, 5, 7, 8, 10, 12} => DaysOf(y, m) = 31
BY SMT DEF DaysOf, Extra

\* The first of a month follows the last day of the month before it.
LEMMA MonthStep ==
    ASSUME NEW y \in Nat, NEW m \in 1 .. 11
    PROVE  getJulianDayNumber(y, m + 1, 1) = getJulianDayNumber(y, m, DaysOf(y, m)) + 1
<1>1. m \in 1 .. 12 /\ m + 1 \in 1 .. 12
  BY SMT
<1>2. DaysOf(y, m) \in Int
  BY <1>1, DaysOfIs, SMT
<1>3. PICK a : a = Days(y + 4799)
  OBVIOUS
<1>4. PICK b : b = Days(y + 4800)
  OBVIOUS
<1>5. Extra(y) \in {0, 1} /\ a \in Int /\ b = a + 365 + Extra(y)
  BY <1>3, <1>4, YearStep DEF Extra
<1>6. /\ Early(m) => getJulianDayNumber(y, m, DaysOf(y, m)) = Numbered(DaysOf(y, m), MonthStart(m + 9), a)
      /\ Late(m) => getJulianDayNumber(y, m, DaysOf(y, m)) = Numbered(DaysOf(y, m), MonthStart(m - 3), b)
  <2>1. PICK n \in Int : n = DaysOf(y, m)
    BY <1>2
  <2>2. ASSUME Early(m) PROVE getJulianDayNumber(y, m, n) = Numbered(n, MonthStart(m + 9), Days(y + 4799))
    BY <1>1, <2>2, JulianIs
  <2>3. ASSUME Late(m) PROVE getJulianDayNumber(y, m, n) = Numbered(n, MonthStart(m - 3), Days(y + 4800))
    BY <1>1, <2>3, JulianIs
  <2> QED BY <1>3, <1>4, <2>1, <2>2, <2>3
<1>7. /\ Early(m + 1) => getJulianDayNumber(y, m + 1, 1) = Numbered(1, MonthStart((m + 1) + 9), a)
      /\ Late(m + 1) => getJulianDayNumber(y, m + 1, 1) = Numbered(1, MonthStart((m + 1) - 3), b)
  <2>1. PICK k : k = m + 1
    OBVIOUS
  <2>2. k \in 1 .. 12 /\ 1 \in Int
    BY <1>1, <2>1
  <2>3. /\ Early(k) => getJulianDayNumber(y, k, 1) = Numbered(1, MonthStart(k + 9), a)
        /\ Late(k) => getJulianDayNumber(y, k, 1) = Numbered(1, MonthStart(k - 3), b)
    <3>1. /\ Early(k) => getJulianDayNumber(y, k, 1) = Numbered(1, MonthStart(k + 9), Days(y + 4799))
          /\ Late(k) => getJulianDayNumber(y, k, 1) = Numbered(1, MonthStart(k - 3), Days(y + 4800))
      BY <2>2, JulianIs
    <3> QED BY <1>3, <1>4, <3>1
  <2> QED BY <2>1, <2>3
<1>8. CASE m = 1
  <2>1. DaysOf(y, m) = 31 /\ m + 9 = 10 /\ (m + 1) + 9 = 11 /\ Early(m) /\ Early(m + 1)
    BY <1>1, <1>8, DaysOfIs DEF Early
  <2> QED BY <1>5, <1>6, <1>7, <2>1, MonthStarts, SMT DEF Numbered
<1>9. CASE m = 2
  <2>1. DaysOf(y, m) = 28 + Extra(y) /\ m + 9 = 11 /\ (m + 1) - 3 = 0 /\ Early(m) /\ Late(m + 1)
    BY <1>1, <1>9, DaysOfIs DEF Early, Late
  <2>2. getJulianDayNumber(y, m, DaysOf(y, m)) = (28 + Extra(y)) + 337 + a - 32045
    BY <1>6, <2>1, MonthStarts DEF Numbered
  <2>3. getJulianDayNumber(y, m + 1, 1) = 1 + 0 + b - 32045
    BY <1>7, <2>1, MonthStarts DEF Numbered
  <2> QED BY <1>5, <2>2, <2>3, SMT
<1>10. CASE m > 2
  <2>1. Late(m) /\ Late(m + 1) /\ m - 3 \in Int /\ (m + 1) - 3 = (m - 3) + 1
    BY <1>10, SMT DEF Late
  <2>2. MonthStart((m - 3) + 1) = MonthStart(m - 3) + DaysOf(y, m) /\ MonthStart(m - 3) \in Int
    <3>1. m \in {3, 5, 7, 8, 10} \/ m \in {4, 6, 9, 11}
      BY <1>10, SMT
    <3>2. CASE m \in {3, 5, 7, 8, 10}
      <4>1. DaysOf(y, m) = 31
        BY <1>1, <3>2, DaysOfIs
      <4> QED BY <3>2, <4>1, MonthStarts
    <3>3. CASE m \in {4, 6, 9, 11}
      <4>1. DaysOf(y, m) = 30
        BY <1>1, <3>3, DaysOfIs
      <4> QED BY <3>3, <4>1, MonthStarts
    <3> QED BY <3>1, <3>2, <3>3
  <2>3. getJulianDayNumber(y, m, DaysOf(y, m)) = Numbered(DaysOf(y, m), MonthStart(m - 3), b)
    BY <1>6, <2>1
  <2>4. getJulianDayNumber(y, m + 1, 1) = Numbered(1, MonthStart((m - 3) + 1), b)
    BY <1>7, <2>1
  <2> QED BY <1>2, <1>5, <2>2, <2>3, <2>4, SMT DEF Numbered
<1> QED BY <1>8, <1>9, <1>10, SMT

\* The first of January follows the last of December.
LEMMA NewYearStep ==
    ASSUME NEW y \in Nat
    PROVE  /\ getJulianDayNumber(y + 1, 1, 1) = getJulianDayNumber(y, 12, 31) + 1
           /\ getJulianDayNumber(y + 1, 1, 1) = getJulianDayNumber(y, 1, 1) + 365 + Extra(y)
           /\ getJulianDayNumber(y, 1, 1) = Days(y + 4799) - 31738
<1>1. y + 1 \in Nat /\ (y + 1) + 4799 = y + 4800 /\ 1 \in 1 .. 12 /\ 12 \in 1 .. 12 /\ 1 \in Int /\ 31 \in Int
  BY SMT
<1>2. PICK a : a = Days(y + 4799)
  OBVIOUS
<1>3. PICK b : b = Days(y + 4800)
  OBVIOUS
<1>4. Extra(y) \in {0, 1} /\ a \in Int /\ b = a + 365 + Extra(y)
  BY <1>2, <1>3, YearStep DEF Extra
<1>5. getJulianDayNumber(y, 1, 1) = Numbered(1, MonthStart(10), a)
  <2>1. Early(1) /\ 1 + 9 = 10
    BY SMT DEF Early
  <2>2. getJulianDayNumber(y, 1, 1) = Numbered(1, MonthStart(1 + 9), Days(y + 4799))
    BY <1>1, <2>1, JulianIs
  <2> QED BY <1>2, <2>1, <2>2
<1>6. getJulianDayNumber(y + 1, 1, 1) = Numbered(1, MonthStart(10), b)
  <2>1. Early(1) /\ 1 + 9 = 10
    BY SMT DEF Early
  <2>2. getJulianDayNumber(y + 1, 1, 1) = Numbered(1, MonthStart(1 + 9), Days((y + 1) + 4799))
    BY <1>1, <2>1, JulianIs
  <2> QED BY <1>1, <1>3, <2>1, <2>2
<1>7. getJulianDayNumber(y, 12, 31) = Numbered(31, MonthStart(9), b)
  <2>1. Late(12) /\ 12 - 3 = 9
    BY SMT DEF Late
  <2>2. getJulianDayNumber(y, 12, 31) = Numbered(31, MonthStart(12 - 3), Days(y + 4800))
    BY <1>1, <2>1, JulianIs
  <2> QED BY <1>3, <2>1, <2>2
<1>8. MonthStart(9) = 275 /\ MonthStart(10) = 306
  BY MonthStarts
<1>9. getJulianDayNumber(y, 1, 1) = a - 31738
  BY <1>4, <1>5, <1>8, SMT DEF Numbered
<1>10. getJulianDayNumber(y + 1, 1, 1) = getJulianDayNumber(y, 12, 31) + 1
  BY <1>4, <1>6, <1>7, <1>8, SMT DEF Numbered
<1>11. getJulianDayNumber(y + 1, 1, 1) = getJulianDayNumber(y, 1, 1) + 365 + Extra(y)
  BY <1>4, <1>5, <1>6, <1>8, SMT DEF Numbered
<1> QED BY <1>2, <1>9, <1>10, <1>11

\* A day number is a number, and the next day of the month has the next one.
LEMMA DayStep ==
    ASSUME NEW y \in Nat, NEW m \in 1 .. 12, NEW d \in Nat
    PROVE  /\ getJulianDayNumber(y, m, d) \in Int
           /\ getJulianDayNumber(y, m, d + 1) = getJulianDayNumber(y, m, d) + 1
<1>1. PICK a : a = Days(y + 4799)
  OBVIOUS
<1>2. PICK b : b = Days(y + 4800)
  OBVIOUS
<1>3. a \in Int /\ b \in Int
  <2>1. Extra(y) \in {0, 1} /\ a \in Int /\ b = a + 365 + Extra(y)
    BY <1>1, <1>2, YearStep DEF Extra
  <2> QED BY <2>1, SMT
<1>4. MonthStart(m + 9) \in Int /\ MonthStart(m - 3) \in Int /\ d \in Int /\ d + 1 \in Int
  BY SMT DEF MonthStart
<1>5. /\ Early(m) => getJulianDayNumber(y, m, d) = Numbered(d, MonthStart(m + 9), a)
      /\ Late(m) => getJulianDayNumber(y, m, d) = Numbered(d, MonthStart(m - 3), b)
  BY <1>1, <1>2, <1>4, JulianIs
<1>6. /\ Early(m) => getJulianDayNumber(y, m, d + 1) = Numbered(d + 1, MonthStart(m + 9), a)
      /\ Late(m) => getJulianDayNumber(y, m, d + 1) = Numbered(d + 1, MonthStart(m - 3), b)
  BY <1>1, <1>2, <1>4, JulianIs
<1>7. CASE m <= 2
  BY <1>3, <1>4, <1>5, <1>6, <1>7, SMT DEF Numbered, Early
<1>8. CASE m > 2
  BY <1>3, <1>4, <1>5, <1>6, <1>8, SMT DEF Numbered, Late
<1> QED BY <1>7, <1>8, SMT

\* The day after a valid date is a valid date, and its number is the next one.
LEMMA NextDate ==
    ASSUME NEW date, ValidDate(date), NEW next, next = Tomorrow(date)
    PROVE  ValidDate(next) /\ Jdn(date) \in Int /\ Jdn(next) = Jdn(date) + 1
<1>1. PICK y, m, d : y = date.year /\ m = date.month /\ d = date.day
  OBVIOUS
<1>2. y \in Nat /\ m \in 1 .. 12 /\ d \in 1 .. DaysOf(y, m)
  BY <1>1 DEF ValidDate
<1>3. PICK n : n = DaysOf(y, m)
  OBVIOUS
<1>4. n \in 28 .. 31 /\ (m = 12 => n = 31)
  BY <1>2, <1>3, DaysOfIs
<1>5. d \in Nat /\ 1 <= d /\ d <= n
  BY <1>2, <1>3, <1>4
<1>6. /\ d < n => next = [year |-> y, month |-> m, day |-> d + 1]
      /\ d >= n /\ m < 12 => next = [year |-> y, month |-> m + 1, day |-> 1]
      /\ d >= n /\ m >= 12 => next = [year |-> y + 1, month |-> 1, day |-> 1]
  BY <1>1, <1>3, TomorrowCases
<1>7. Jdn(date) = getJulianDayNumber(y, m, d) /\ Jdn(date) \in Int
  BY <1>1, <1>2, <1>5, DayStep DEF Jdn
<1>8. CASE d < n
  <2>1. next.year = y /\ next.month = m /\ next.day = d + 1 /\ next = [year |-> next.year, month |-> next.month, day |-> next.day]
    BY <1>6, <1>8
  <2>2. d + 1 \in 1 .. n
    BY <1>4, <1>5, <1>8
  <2>3. ValidDate(next)
    BY <1>2, <1>3, <2>1, <2>2 DEF ValidDate
  <2>4. Jdn(next) = Jdn(date) + 1
    BY <1>2, <1>5, <1>7, <2>1, DayStep DEF Jdn
  <2> QED BY <1>7, <2>3, <2>4
<1>9. CASE d >= n /\ m < 12
  <2>1. next.year = y /\ next.month = m + 1 /\ next.day = 1 /\ next = [year |-> next.year, month |-> next.month, day |-> next.day]
    BY <1>6, <1>9
  <2>2. m \in 1 .. 11 /\ m + 1 \in 1 .. 12 /\ d = n
    BY <1>2, <1>4, <1>5, <1>9
  <2>3. DaysOf(y, m + 1) \in 28 .. 31
    BY <1>2, <2>2, DaysOfIs
  <2>4. ValidDate(next)
    BY <1>2, <2>1, <2>2, <2>3 DEF ValidDate
  <2>5. getJulianDayNumber(y, m + 1, 1) = getJulianDayNumber(y, m, n) + 1
    BY <1>2, <1>3, <2>2, MonthStep
  <2>6. Jdn(next) = Jdn(date) + 1
    BY <1>7, <2>1, <2>2, <2>5 DEF Jdn
  <2> QED BY <1>7, <2>4, <2>6
<1>10. CASE d >= n /\ m >= 12
  <2>1. next.year = y + 1 /\ next.month = 1 /\ next.day = 1 /\ next = [year |-> next.year, month |-> next.month, day |-> next.day]
    BY <1>6, <1>10
  <2>2. m = 12 /\ d = 31 /\ y + 1 \in Nat /\ 1 \in 1 .. 12
    BY <1>2, <1>4, <1>5, <1>10
  <2>3. DaysOf(y + 1, 1) \in 28 .. 31
    BY <2>2, DaysOfIs
  <2>4. ValidDate(next)
    BY <2>1, <2>2, <2>3 DEF ValidDate
  <2>5. getJulianDayNumber(y + 1, 1, 1) = getJulianDayNumber(y, 12, 31) + 1
    BY <1>2, NewYearStep
  <2>6. Jdn(next) = Jdn(date) + 1
    BY <1>7, <2>1, <2>2, <2>5 DEF Jdn
  <2> QED BY <1>7, <2>4, <2>6
<1> QED BY <1>2, <1>4, <1>5, <1>8, <1>9, <1>10

\* A quotient from quotient and remainder.
LEMMA QuotientIs ==
    ASSUME NEW f \in Nat, NEW g \in Nat, g < 146097, NEW x \in Int, x = 146097 * f + g
    PROVE  x \div 146097 = f
BY SMT

\* getYearMonthDay finds the year, and the day in it.
LEMMA YearFound ==
    ASSUME NEW q, NEW s, NEW u, NEW v, Parts(q, s, u, v),
           NEW e \in Nat, e <= 365, e = 365 => LongYear(s, u, v),
           NEW a \in Int, a = 146097 * q + 36524 * s + 1461 * u + 365 * v + e,
           NEW b \in Int, b = (4 * a + 3) \div 146097,
           NEW c \in Int, c = a - (b * 146097) \div 4, NEW d \in Int, d = (4 * c + 3) \div 1461
    PROVE  b = 4 * q + s /\ d = 4 * u + v /\ c - (1461 * d) \div 4 = e
<1>0. q \in Nat /\ s \in Nat /\ s < 4 /\ u \in Nat /\ u < 25 /\ v \in Nat /\ v < 4
  BY SMT DEF Parts
<1>1. e = 365 => v = 3 /\ (u # 24 \/ s = 3)
  BY DEF LongYear
<1>2. PICK f : f = 4 * q + s
  OBVIOUS
<1>3. PICK g : g = 5844 * u + 1460 * v + 4 * e + 3 - s
  OBVIOUS
<1>4. f \in Nat /\ g \in Nat /\ g < 146097
  BY <1>0, <1>1, <1>2, <1>3, SMT
<1>5. 4 * a + 3 = 146097 * f + g
  BY <1>0, <1>2, <1>3, SMT
<1>6. b = f
  <2>1. PICK x \in Int : x = 4 * a + 3
    BY SMT
  <2>2. x = 146097 * f + g
    BY <1>5, <2>1
  <2>3. x \div 146097 = f
    BY <1>4, <2>2, QuotientIs, SMT
  <2> QED BY <2>1, <2>3
<1>7. (b * 146097) \div 4 = 146097 * q + 36524 * s
  <2>1. PICK x : x = b * 146097
    OBVIOUS
  <2>2. x = 4 * (146097 * q + 36524 * s) + s
    BY <1>0, <1>2, <1>6, <2>1, SMT
  <2>3. x \div 4 = 146097 * q + 36524 * s
    BY <1>0, <2>2, SMT
  <2> QED BY <2>1, <2>3
<1>8. c = 1461 * u + 365 * v + e
  BY <1>0, <1>7, SMT
<1>9. d = 4 * u + v
  <2>1. PICK x : x = 4 * c + 3
    OBVIOUS
  <2>2. PICK h : h = 4 * e + 3 - v
    OBVIOUS
  <2>3. h \in Nat /\ h < 1461
    BY <1>0, <1>1, <2>2, SMT
  <2>4. x = 1461 * (4 * u + v) + h
    BY <1>0, <1>8, <2>1, <2>2, SMT
  <2>5. x \div 1461 = 4 * u + v
    BY <1>0, <2>3, <2>4, SMT
  <2> QED BY <2>1, <2>5
<1>10. (1461 * d) \div 4 = 1461 * u + 365 * v
  <2>1. PICK x : x = 1461 * d
    OBVIOUS
  <2>2. x = 4 * (1461 * u + 365 * v) + v
    BY <1>0, <1>9, <2>1, SMT
  <2>3. x \div 4 = 1461 * u + 365 * v
    BY <1>0, <2>2, SMT
  <2> QED BY <2>1, <2>3
<1>11. c - (1461 * d) \div 4 = e
  BY <1>0, <1>8, <1>10, SMT
<1> QED BY <1>2, <1>6, <1>9, <1>11

\* And the month, and the day in it.
LEMMA MonthFound ==
    ASSUME NEW m \in 0 .. 11, NEW day \in 1 .. 31, m \in {1, 3, 6, 8} => day <= 30, m = 11 => day <= 29,
           NEW e \in Int, e = MonthStart(m) + day - 1
    PROVE  (5 * e + 2) \div 153 = m /\ e \in Nat /\ e <= 365 /\ (e = 365 => m = 11 /\ day = 29)
<1>1. \/ m = 0 \/ m = 1 \/ m = 2 \/ m = 3 \/ m = 4 \/ m = 5
      \/ m = 6 \/ m = 7 \/ m = 8 \/ m = 9 \/ m = 10 \/ m = 11
  BY SMT
<1>2. day \in Nat /\ 1 <= day /\ day <= 31
  BY SMT
<1> QED BY <1>1, <1>2, MonthStarts, SMT

\* getYearMonthDay gives the date of a day number back.
LEMMA DateFound ==
    ASSUME NEW date, ValidDate(date)
    PROVE  getYearMonthDay(Jdn(date)) = date
<1>1. PICK y, m, n : y = date.year /\ m = date.month /\ n = date.day
  OBVIOUS
<1>2. y \in Nat /\ m \in 1 .. 12 /\ n \in 1 .. DaysOf(y, m) /\ date = [year |-> y, month |-> m, day |-> n]
  BY <1>1 DEF ValidDate
<1>3. PICK j : j = Jdn(date)
  OBVIOUS
<1>4. PICK Y, M, x : \/ m <= 2 /\ Y = y + 4799 /\ M = m + 9 /\ x = 1
                     \/ m > 2 /\ Y = y + 4800 /\ M = m - 3 /\ x = 0
  <2>1. CASE m <= 2
    BY <2>1
  <2>2. CASE m > 2
    BY <2>2
  <2> QED BY <1>2, <2>1, <2>2, SMT
<1>5. n \in 1 .. 31 /\ n \in Int /\ (m = 2 => n <= 28 + Extra(y)) /\ (m \in {4, 6, 9, 11} => n <= 30)
  <2>1. PICK k : k = DaysOf(y, m)
    OBVIOUS
  <2>2. k \in 28 .. 31 /\ (m = 2 => k = 28 + Extra(y)) /\ (m \in {4, 6, 9, 11} => k = 30)
    BY <1>2, <2>1, DaysOfIs
  <2>3. k \in Nat /\ k <= 31 /\ n \in Nat /\ 1 <= n /\ n <= k
    BY <1>2, <2>1, <2>2, SMT
  <2>4. n \in 1 .. 31 /\ n \in Int
    BY <2>3, SMT
  <2> QED BY <2>2, <2>3, <2>4
<1>6. M \in 0 .. 11 /\ Y \in Nat
  BY <1>2, <1>4, SMT
<1>7. j = Numbered(n, MonthStart(M), Days(Y))
  <2>1. j = getJulianDayNumber(y, m, n)
    BY <1>1, <1>3 DEF Jdn
  <2>0. y \in Nat /\ m \in 1 .. 12 /\ n \in Int
    BY <1>2, <1>5
  <2>2. CASE m <= 2
    <3>1. Y = y + 4799 /\ M = m + 9
      BY <1>2, <1>4, <2>2, SMT
    <3>2. getJulianDayNumber(y, m, n) = Numbered(n, MonthStart(m + 9), Days(y + 4799))
      <4>1. Early(m)
        BY <2>2 DEF Early
      <4> QED BY <2>0, <4>1, JulianIs
    <3> QED BY <2>1, <3>1, <3>2
  <2>3. CASE m > 2
    <3>1. Y = y + 4800 /\ M = m - 3
      BY <1>2, <1>4, <2>3, SMT
    <3>2. getJulianDayNumber(y, m, n) = Numbered(n, MonthStart(m - 3), Days(y + 4800))
      <4>1. Late(m)
        BY <2>3 DEF Late
      <4> QED BY <2>0, <4>1, JulianIs
    <3> QED BY <2>1, <3>1, <3>2
  <2> QED BY <1>2, <2>2, <2>3, SMT
<1>8. PICK e \in Int : e = MonthStart(M) + n - 1
  <2>1. MonthStart(M) + n - 1 \in Int
    BY <1>5, <1>6, SMT DEF MonthStart
  <2> QED BY <2>1
<1>9. (5 * e + 2) \div 153 = M /\ e \in Nat /\ e <= 365 /\ (e = 365 => M = 11 /\ n = 29)
  <2>1. M \in {1, 3, 6, 8} => n <= 30
    BY <1>2, <1>4, <1>5, SMT
  <2>2. M = 11 => n <= 29
    <3>1. Extra(y) \in {0, 1}
      BY DEF Extra
    <3>2. M = 11 => m = 2
      BY <1>2, <1>4, SMT
    <3> QED BY <1>5, <3>1, <3>2
  <2>3. n \in 1 .. 31 /\ M \in 0 .. 11
    BY <1>5, <1>6
  <2> QED BY <1>8, <2>1, <2>2, <2>3, MonthFound
<1>10. PICK q, s, u, v : Parts(q, s, u, v) /\ Y = YearOf(q, s, u, v)
  BY <1>6, YearParts
<1>11. e = 365 => LongYear(s, u, v)
  <2> SUFFICES ASSUME e = 365 PROVE LongYear(s, u, v)
    OBVIOUS
  <2>1. M = 11 /\ n = 29
    BY <1>9
  <2>2. m = 2 /\ Y = y + 4799
    BY <1>2, <1>4, <2>1, SMT
  <2>3. Extra(y) = 1
    BY <1>5, <2>1, <2>2 DEF Extra
  <2>4. IsLeap(y)
    BY <2>3 DEF Extra
  <2>5. Parts(q, s, u, v) /\ y + 4799 = YearOf(q, s, u, v) /\ y \in Nat
    BY <1>2, <1>10, <2>2
  <2> QED BY <2>4, <2>5, LeapParts
<1>12. PICK a : a = j + 32044
  OBVIOUS
<1>13. a = 146097 * q + 36524 * s + 1461 * u + 365 * v + e
  <2>1. Days(Y) = 146097 * q + 36524 * s + 1461 * u + 365 * v
    BY <1>10, DaysIs
  <2>2. q \in Nat /\ s \in Nat /\ u \in Nat /\ v \in Nat
    BY <1>10, SMT DEF Parts
  <2>3. PICK k : k = MonthStart(M)
    OBVIOUS
  <2>4. k \in Int
    BY <1>6, <2>3, SMT DEF MonthStart
  <2>5. j = n + k + (146097 * q + 36524 * s + 1461 * u + 365 * v) - 32045 /\ e = k + n - 1
    BY <1>7, <1>8, <2>1, <2>3 DEF Numbered
  <2> QED BY <1>5, <1>12, <2>2, <2>4, <2>5, SMT
<1>130. a \in Int
  BY <1>9, <1>10, <1>13, SMT DEF Parts
<1>14. PICK b \in Int : b = (4 * a + 3) \div 146097
  <2>1. (4 * a + 3) \div 146097 \in Int
    BY <1>130, SMT
  <2> QED BY <2>1
<1>15. PICK c \in Int : c = a - (b * 146097) \div 4
  <2>1. a - (b * 146097) \div 4 \in Int
    BY <1>130, SMT
  <2> QED BY <2>1
<1>16. PICK d \in Int : d = (4 * c + 3) \div 1461
  <2>1. (4 * c + 3) \div 1461 \in Int
    BY SMT
  <2> QED BY <2>1
<1>17. b = 4 * q + s /\ d = 4 * u + v /\ c - (1461 * d) \div 4 = e
  BY <1>130, <1>9, <1>10, <1>11, <1>13, <1>14, <1>15, <1>16, YearFound
<1>18. getYearMonthDay(j) = [year |-> b * 100 + d - 4800 + M \div 10, month |-> M + 3 - 12 * (M \div 10),
                             day |-> e - MonthStart(M) + 1]
  BY <1>9, <1>12, <1>14, <1>15, <1>16, <1>17 DEF getYearMonthDay, MonthStart
<1>19. M \div 10 = x /\ M + 3 - 12 * (M \div 10) = m
  BY <1>2, <1>4, SMT
<1>20. b * 100 + d - 4800 + M \div 10 = y
  <2>1. q \in Nat /\ s \in Nat /\ u \in Nat /\ v \in Nat /\ Y = 400 * q + 100 * s + 4 * u + v
    BY <1>10, SMT DEF Parts, YearOf
  <2>2. x \in Int /\ Y = y + 4800 - x
    BY <1>2, <1>4, SMT
  <2> QED BY <1>2, <1>17, <1>19, <2>1, <2>2, SMT
<1>21. e - MonthStart(M) + 1 = n
  <2>1. PICK k : k = MonthStart(M)
    OBVIOUS
  <2>2. k \in Int
    BY <1>6, <2>1, SMT DEF MonthStart
  <2> QED BY <1>5, <1>8, <2>1, <2>2, SMT
<1> QED BY <1>2, <1>3, <1>18, <1>19, <1>20, <1>21

\* The first of January of 1970 and of the year 0.
LEMMA Epochs == kJulianDayOf1970 = 2440588 /\ Jdn(NewYear(0)) = 1721060
<1>1. getJulianDayNumber(1970, 1, 1) = 2440588
  BY SMT DEF getJulianDayNumber
<1>2. getJulianDayNumber(0, 1, 1) = 1721060
  BY SMT DEF getJulianDayNumber
<1>3. Jdn(NewYear(0)) = getJulianDayNumber(0, 1, 1)
  BY DEF Jdn, NewYear
<1> QED BY <1>1, <1>2, <1>3 DEF kJulianDayOf1970

\* The first of January is a valid date.
LEMMA NewYearIsValid ==
    ASSUME NEW y \in Nat
    PROVE  ValidDate(NewYear(y)) /\ Jdn(NewYear(y)) = getJulianDayNumber(y, 1, 1)
<1>1. DaysOf(y, 1) \in 28 .. 31 /\ 1 \in 1 .. 12
  BY DaysOfIs
<1>2. NewYear(y).year = y /\ NewYear(y).month = 1 /\ NewYear(y).day = 1
  BY DEF NewYear
<1>3. 1 \in 1 .. DaysOf(y, 1)
  BY <1>1
<1>4. NewYear(y) = [year |-> y, month |-> 1, day |-> 1]
  BY DEF NewYear
<1>5. ValidDate(NewYear(y))
  BY <1>1, <1>2, <1>3, <1>4 DEF ValidDate
<1> QED BY <1>2, <1>5 DEF Jdn

\* Every day from the year 0 on has a date.
LEMMA EveryDay ==
    ASSUME NEW j \in Int, j >= 1721060
    PROVE  \E date : ValidDate(date) /\ Jdn(date) = j
<1> DEFINE T == {n \in Nat : \E date : ValidDate(date) /\ Jdn(date) = 1721060 + n}
<1>1. 0 \in T
  <2>1. 0 \in Nat /\ 1721060 + 0 = 1721060
    BY SMT
  <2> QED BY <2>1, NewYearIsValid, Epochs
<1>2. ASSUME NEW n \in Nat, n \in T PROVE n + 1 \in T
  <2>1. PICK date : ValidDate(date) /\ Jdn(date) = 1721060 + n
    BY <1>2
  <2>2. ValidDate(Tomorrow(date)) /\ Jdn(Tomorrow(date)) = Jdn(date) + 1
    BY <2>1, NextDate
  <2>3. (1721060 + n) + 1 = 1721060 + (n + 1) /\ n + 1 \in Nat
    BY SMT
  <2>4. Jdn(Tomorrow(date)) = 1721060 + (n + 1)
    BY <2>1, <2>2, <2>3
  <2> QED BY <2>2, <2>3, <2>4
<1>3. Nat \subseteq T
  <2> HIDE DEF T
  <2> QED BY <1>1, <1>2, NatSetInduction
<1>4. j - 1721060 \in Nat /\ 1721060 + (j - 1721060) = j
  BY SMT
<1>5. j - 1721060 \in T
  BY <1>3, <1>4
<1> QED BY <1>4, <1>5

\* The leap years of a set, when one more year is looked at.
LEMMA CountStep ==
    ASSUME NEW S, IsFiniteSet(S), NEW y, y \notin S, NEW R, R = (IF IsLeap(y) THEN S \cup {y} ELSE S)
    PROVE  IsFiniteSet(R) /\ Cardinality(S) \in Nat /\ Cardinality(R) = Cardinality(S) + Extra(y)
<1>1. Cardinality(S) \in Nat
  BY FS_CardinalityType
<1>2. CASE IsLeap(y)
  BY <1>1, <1>2, FS_AddElement DEF Extra
<1>3. CASE ~ IsLeap(y)
  <2>1. R = S /\ Extra(y) = 0
    BY <1>3 DEF Extra
  <2> QED BY <1>1, <2>1
<1> QED BY <1>2, <1>3

\* The leap years among some years and one more.
LEMMA LeapYearsAnd ==
    ASSUME NEW A, NEW y, y \notin A
    PROVE  /\ {x \in A \cup {y} : IsLeap(x)} =
                (IF IsLeap(y) THEN {x \in A : IsLeap(x)} \cup {y} ELSE {x \in A : IsLeap(x)})
           /\ y \notin {x \in A : IsLeap(x)}
<1>1. CASE IsLeap(y)
  BY <1>1, Zenon
<1>2. CASE ~ IsLeap(y)
  BY <1>2, Zenon
<1> QED BY <1>1, <1>2

\* The first of January of a year after 1970, by counting.
LEMMA YearsAfter ==
    ASSUME NEW n \in Nat
    PROVE  /\ Cardinality({y \in 1970 .. (1970 + n) - 1 : IsLeap(y)}) \in Nat
           /\ getJulianDayNumber(1970 + n, 1, 1) =
                365 * n + Cardinality({y \in 1970 .. (1970 + n) - 1 : IsLeap(y)}) + 2440588
<1> DEFINE L(k) == {y \in 1970 .. (1970 + k) - 1 : IsLeap(y)}
           Good(k) == /\ IsFiniteSet(L(k)) /\ Cardinality(L(k)) \in Nat
                      /\ getJulianDayNumber(1970 + k, 1, 1) = 365 * k + Cardinality(L(k)) + 2440588
           T == {k \in Nat : Good(k)}
<1>1. 0 \in T
  <2>1. L(0) = {}
    BY SMT
  <2>2. getJulianDayNumber(1970 + 0, 1, 1) = 2440588
    <3>1. 1970 + 0 = 1970
      BY SMT
    <3> QED BY <3>1, Epochs DEF kJulianDayOf1970
  <2>3. IsFiniteSet(L(0)) /\ Cardinality(L(0)) = 0
    BY <2>1, FS_EmptySet
  <2> HIDE DEF L
  <2>4. Good(0)
    BY <2>2, <2>3, SMT
  <2> QED BY <2>4
<1>2. ASSUME NEW k \in Nat, k \in T PROVE k + 1 \in T
  <2>1. Good(k)
    BY <1>2
  <2>2. PICK y : y = 1970 + k
    OBVIOUS
  <2>3. y \in Nat /\ 1970 + (k + 1) = y + 1
    BY <2>2, SMT
  <2>4. L(k + 1) = (IF IsLeap(y) THEN L(k) \cup {y} ELSE L(k)) /\ y \notin L(k)
    <3>1. PICK A : A = 1970 .. (1970 + k) - 1
      OBVIOUS
    <3>2. 1970 .. (1970 + (k + 1)) - 1 = A \cup {y} /\ y \notin A
      BY <2>2, <3>1, SMT
    <3>3. L(k) = {x \in A : IsLeap(x)} /\ L(k + 1) = {x \in A \cup {y} : IsLeap(x)}
      BY <3>1, <3>2
    <3> QED BY <3>2, <3>3, LeapYearsAnd
  <2> HIDE DEF L
  <2>5. IsFiniteSet(L(k + 1)) /\ Cardinality(L(k)) \in Nat /\ Cardinality(L(k + 1)) = Cardinality(L(k)) + Extra(y)
    BY <2>1, <2>4, CountStep
  <2>6. getJulianDayNumber(y + 1, 1, 1) = getJulianDayNumber(y, 1, 1) + 365 + Extra(y) /\ Extra(y) \in {0, 1}
    BY <2>3, NewYearStep DEF Extra
  <2>7. getJulianDayNumber(y, 1, 1) = 365 * k + Cardinality(L(k)) + 2440588
    BY <2>1, <2>2
  <2>8. getJulianDayNumber(1970 + (k + 1), 1, 1) = 365 * (k + 1) + Cardinality(L(k + 1)) + 2440588
    BY <2>3, <2>5, <2>6, <2>7, SMT
  <2>9. Cardinality(L(k + 1)) \in Nat /\ k + 1 \in Nat
    BY <2>5, <2>6, SMT
  <2> QED BY <2>5, <2>8, <2>9
<1>3. Nat \subseteq T
  <2> HIDE DEF T
  <2> QED BY <1>1, <1>2, NatSetInduction
<1>4. Good(n)
  BY <1>3
<1> QED BY <1>4

\* The first of January of a year before 1970, by counting.
LEMMA YearsBefore ==
    ASSUME NEW n \in Nat, n <= 1970
    PROVE  /\ Cardinality({y \in 1970 - n .. 1969 : IsLeap(y)}) \in Nat
           /\ getJulianDayNumber(1970 - n, 1, 1) =
                2440588 - (365 * n + Cardinality({y \in 1970 - n .. 1969 : IsLeap(y)}))
<1> DEFINE L(k) == {y \in 1970 - k .. 1969 : IsLeap(y)}
           Good(k) == /\ IsFiniteSet(L(k)) /\ Cardinality(L(k)) \in Nat
                      /\ getJulianDayNumber(1970 - k, 1, 1) = 2440588 - (365 * k + Cardinality(L(k)))
           T == {k \in Nat : k <= 1970 => Good(k)}
<1>1. 0 \in T
  <2>1. L(0) = {}
    BY SMT
  <2>2. getJulianDayNumber(1970 - 0, 1, 1) = 2440588
    <3>1. 1970 - 0 = 1970
      BY SMT
    <3> QED BY <3>1, Epochs DEF kJulianDayOf1970
  <2>3. IsFiniteSet(L(0)) /\ Cardinality(L(0)) = 0
    BY <2>1, FS_EmptySet
  <2> HIDE DEF L
  <2>4. Good(0)
    BY <2>2, <2>3, SMT
  <2> QED BY <2>4
<1>2. ASSUME NEW k \in Nat, k \in T PROVE k + 1 \in T
  <2>0. k + 1 \in Nat
    BY SMT
  <2> SUFFICES ASSUME k + 1 <= 1970 PROVE Good(k + 1)
    BY <2>0
  <2>1. Good(k)
    <3>1. k <= 1970
      BY SMT
    <3> QED BY <1>2, <3>1
  <2>2. PICK y \in Int : y = 1970 - (k + 1)
    BY SMT
  <2>3. y \in Nat /\ 1970 - k = y + 1
    BY <2>2, SMT
  <2>4. L(k + 1) = (IF IsLeap(y) THEN L(k) \cup {y} ELSE L(k)) /\ y \notin L(k)
    <3>1. PICK A : A = 1970 - k .. 1969
      OBVIOUS
    <3>2. 1970 - (k + 1) .. 1969 = A \cup {y} /\ y \notin A
      BY <2>2, <3>1, SMT
    <3>3. L(k) = {x \in A : IsLeap(x)} /\ L(k + 1) = {x \in A \cup {y} : IsLeap(x)}
      BY <3>1, <3>2
    <3> QED BY <3>2, <3>3, LeapYearsAnd
  <2> HIDE DEF L
  <2>5. IsFiniteSet(L(k + 1)) /\ Cardinality(L(k)) \in Nat /\ Cardinality(L(k + 1)) = Cardinality(L(k)) + Extra(y)
    BY <2>1, <2>4, CountStep
  <2>6. getJulianDayNumber(y + 1, 1, 1) = getJulianDayNumber(y, 1, 1) + 365 + Extra(y) /\ Extra(y) \in {0, 1}
    BY <2>3, NewYearStep DEF Extra
  <2>60. getJulianDayNumber(y, 1, 1) \in Int
    BY <2>3, DayStep
  <2>7. getJulianDayNumber(y + 1, 1, 1) = 2440588 - (365 * k + Cardinality(L(k)))
    BY <2>1, <2>3
  <2>8. getJulianDayNumber(y, 1, 1) = 2440588 - (365 * (k + 1) + Cardinality(L(k + 1)))
    BY <2>5, <2>6, <2>60, <2>7, SMT
  <2>9. Cardinality(L(k + 1)) \in Nat
    BY <2>5, <2>6, SMT
  <2> QED BY <2>2, <2>5, <2>8, <2>9
<1>3. Nat \subseteq T
  <2> HIDE DEF T
  <2> QED BY <1>1, <1>2, NatSetInduction
<1>4. Good(n)
  BY <1>3
<1> QED BY <1>4

\* getJulianDayNumber counts the days from 1970 as the calendar does.
LEMMA DaysToIs ==
    ASSUME NEW year \in Nat
    PROVE  DaysTo(year) \in Int /\ getJulianDayNumber(year, 1, 1) = DaysTo(year) + 2440588
<1>1. CASE year >= 1970
  <2>1. PICK n \in Int : n = year - 1970
    BY SMT
  <2>2. n \in Nat /\ 1970 + n = year
    BY <1>1, <2>1, SMT
  <2>3. PICK c : c = Cardinality({y \in 1970 .. year - 1 : IsLeap(y)})
    OBVIOUS
  <2>4. c \in Nat /\ getJulianDayNumber(year, 1, 1) = 365 * n + c + 2440588
    BY <2>2, <2>3, YearsAfter
  <2>5. DaysTo(year) = 365 * n + c
    BY <1>1, <2>1, <2>3 DEF DaysTo
  <2> QED BY <2>4, <2>5, SMT
<1>2. CASE ~ (year >= 1970)
  <2>1. PICK n \in Int : n = 1970 - year
    BY SMT
  <2>2. n \in Nat /\ n <= 1970 /\ 1970 - n = year
    BY <1>2, <2>1, SMT
  <2>3. PICK c : c = Cardinality({y \in year .. 1969 : IsLeap(y)})
    OBVIOUS
  <2>4. c \in Nat /\ getJulianDayNumber(year, 1, 1) = 2440588 - (365 * n + c)
    BY <2>2, <2>3, YearsBefore
  <2>5. DaysTo(year) = -(365 * n + c)
    BY <1>2, <2>1, <2>3 DEF DaysTo
  <2> QED BY <2>4, <2>5, SMT
<1> QED BY <1>1, <1>2

(***************************************************************************)
(* Times: the day and the second in it.                                    *)
(***************************************************************************)
Shown(j, s) ==
    [ymd |-> getYearMonthDay(j), clock |-> fillHMS(s), wday |-> weekDay(j),
     yday |-> j - getJulianDayNumber(getYearMonthDay(j).year, 1, 1), isdst |-> FALSE]

\* What toUtcTime fills in.
LEMMA UtcFields ==
    ASSUME NEW t, NEW x, Rem(t, kSecondsPerDay) = x, NEW Q, Quot(t, kSecondsPerDay) = Q,
           NEW f, (IF x < 0 THEN 1 ELSE 0) = f, NEW j, Q - f + kJulianDayOf1970 = j,
           NEW s, x + f * kSecondsPerDay = s
    PROVE  toUtcTime(t) = Shown(j, s)
<1> DEFINE X == Rem(t, kSecondsPerDay)
           F == IF X < 0 THEN 1 ELSE 0
           J == Quot(t, kSecondsPerDay) - F + kJulianDayOf1970
           S == X + F * kSecondsPerDay
<1>1. toUtcTime(t) = Shown(J, S)
  BY DEF toUtcTime, Shown
<1>2. X = x /\ F = f
  OBVIOUS
<1>3. J = j /\ S = s
  <2> HIDE DEF X, F
  <2> QED BY <1>2
<1> HIDE DEF J, S
<1> QED BY <1>1, <1>3

SinceYearZero(j) == j >= 1721060

\* toUtcTime finds the day and the second, before 1970 too.
LEMMA UtcIs ==
    ASSUME NEW D \in Int, NEW s \in Nat, s < 86400, NEW t \in Int, t = D * 86400 + s
    PROVE  toUtcTime(t) = Shown(D + 2440588, s)
<1>1. kSecondsPerDay = 86400
  BY SMT DEF kSecondsPerDay
<1>2. PICK Q \in Int : Q = Quot(t, 86400)
  BY SMT DEF Quot
<1>3. PICK x \in Int : x = t - 86400 * Q
  BY SMT
<1>4. \/ Q = D /\ x = s
      \/ Q = D + 1 /\ x = s - 86400 /\ s > 0
  <2>1. CASE t >= 0
    <3>1. t \div 86400 = D
      BY SMT
    <3> QED BY <1>2, <1>3, <2>1, <3>1, SMT DEF Quot
  <2>2. CASE t < 0 /\ s = 0
    <3>1. (-t) \div 86400 = -D
      BY <2>2, SMT
    <3> QED BY <1>2, <1>3, <2>2, <3>1, SMT DEF Quot
  <2>3. CASE t < 0 /\ s > 0
    <3>1. (-t) \div 86400 = -D - 1
      BY <2>3, SMT
    <3> QED BY <1>2, <1>3, <2>3, <3>1, SMT DEF Quot
  <2> QED BY <2>1, <2>2, <2>3, SMT
<1>5. Quot(t, kSecondsPerDay) = Q /\ Rem(t, kSecondsPerDay) = x
  BY <1>1, <1>2, <1>3 DEF Rem
<1>6. PICK f \in Int : f = (IF x < 0 THEN 1 ELSE 0)
  BY SMT
<1>7. Q - f + 2440588 = D + 2440588 /\ x + f * 86400 = s
  BY <1>4, <1>6, SMT
<1>8. kJulianDayOf1970 = 2440588
  BY Epochs
<1>9. PICK j : j = D + 2440588
  OBVIOUS
<1>10. Q - f + kJulianDayOf1970 = j /\ x + f * kSecondsPerDay = s
  BY <1>1, <1>7, <1>8, <1>9
<1>11. toUtcTime(t) = Shown(j, s)
  BY <1>5, <1>6, <1>10, UtcFields
<1> QED BY <1>9, <1>11

\* The fields of the clock add up.
LEMMA ClockIs ==
    ASSUME NEW s \in Nat
    PROVE  fillHMS(s).hour * 3600 + fillHMS(s).min * 60 + fillHMS(s).sec = s
<1>1. PICK h, m, x : h = s \div 3600 /\ m = (s \div 60) % 60 /\ x = s % 60
  OBVIOUS
<1>2. fillHMS(s).hour = h /\ fillHMS(s).min = m /\ fillHMS(s).sec = x
  BY <1>1 DEF fillHMS
<1>3. PICK k \in Nat : k = s \div 60
  BY SMT
<1>4. x \in Int /\ s = 60 * k + x /\ x >= 0 /\ x < 60
  BY <1>1, <1>3, SMT
<1>5. m \in Int /\ k = 60 * (k \div 60) + m /\ m >= 0 /\ m < 60
  BY <1>1, <1>3, SMT
<1>6. PICK g \in Int : g = k \div 60
  BY SMT
<1>7. s = 3600 * g + 60 * m + x
  BY <1>4, <1>5, <1>6, SMT
<1>8. h = g
  BY <1>1, <1>4, <1>5, <1>7, SMT
<1>9. h * 3600 + m * 60 + x = s
  BY <1>4, <1>5, <1>7, <1>8, SMT
<1> QED BY <1>2, <1>9

\* fromUtcTime reads date and clock.
LEMMA ReadFields ==
    ASSUME NEW date, NEW j \in Int, Jdn(date) = j, NEW s \in Nat, NEW tm, tm.ymd = date, tm.clock = fillHMS(s)
    PROVE  fromUtcTime(tm) = (j - kJulianDayOf1970) * kSecondsPerDay + s
<1>3. getJulianDayNumber(tm.ymd.year, tm.ymd.month, tm.ymd.day) = j
  BY DEF Jdn
<1>4. PICK h, m, x : h = s \div 3600 /\ m = (s \div 60) % 60 /\ x = s % 60
  OBVIOUS
<1>5. tm.clock.hour = h /\ tm.clock.min = m /\ tm.clock.sec = x
  BY <1>4 DEF fillHMS
<1>6. h \in Int /\ m \in Int /\ x \in Int
  BY <1>4, SMT
<1>7. h * 3600 + m * 60 + x = s
  BY <1>5, ClockIs
<1>8. PICK d : d = (j - kJulianDayOf1970) * kSecondsPerDay
  OBVIOUS
<1>9. d \in Int
  BY <1>8, Epochs, SMT DEF kSecondsPerDay
<1>10. fromUtcTime(tm) = d + h * 3600 + m * 60 + x
  BY <1>3, <1>5, <1>8 DEF fromUtcTime
<1>11. fromUtcTime(tm) = d + s
  BY <1>6, <1>7, <1>9, <1>10, SMT
<1> QED BY <1>8, <1>11

\* fromUtcTime reads day and second back.
LEMMA ReadBack ==
    ASSUME NEW j \in Int, SinceYearZero(j), NEW s \in Nat, NEW tm,
           tm.ymd = getYearMonthDay(j), tm.clock = fillHMS(s)
    PROVE  fromUtcTime(tm) = (j - kJulianDayOf1970) * kSecondsPerDay + s
<1>1. PICK date : ValidDate(date) /\ Jdn(date) = j
  BY EveryDay DEF SinceYearZero
<1>2. tm.ymd = date
  BY <1>1, DateFound
<1> QED BY <1>1, <1>2, ReadFields

\* A time shown and read back is the same, whatever the daylight saving flag says.
LEMMA UtcReturns ==
    ASSUME NEW t \in Int, t >= -86400, NEW b, NEW tm, tm = [toUtcTime(t) EXCEPT !.isdst = b]
    PROVE  /\ timegm(tm) = t /\ tm.isdst = b
           /\ tm.clock = toUtcTime(t).clock
<1>1. PICK D \in Int : D = t \div 86400
  BY SMT
<1>2. PICK s \in Nat : s = t - 86400 * D
  <2>1. t - 86400 * D \in Nat
    BY <1>1, SMT
  <2> QED BY <2>1
<1>3. s \in Nat /\ s < 86400 /\ t = D * 86400 + s /\ D >= -1
  BY <1>1, <1>2, SMT
<1>4. PICK j \in Int : j = D + 2440588
  BY SMT
<1>5. j >= 1721060 /\ j - 2440588 = D
  BY <1>3, <1>4, SMT
<1>6. toUtcTime(t) = Shown(j, s)
  BY <1>3, <1>4, UtcIs
<1>7. tm.ymd = getYearMonthDay(j) /\ tm.clock = fillHMS(s) /\ toUtcTime(t).clock = fillHMS(s) /\ tm.isdst = b
  BY <1>6 DEF Shown
<1>8. fromUtcTime(tm) = (j - kJulianDayOf1970) * kSecondsPerDay + s
  <2>1. SinceYearZero(j)
    BY <1>5 DEF SinceYearZero
  <2>2. PICK g : g = tm
    OBVIOUS
  <2>3. g.ymd = getYearMonthDay(j) /\ g.clock = fillHMS(s)
    BY <1>7, <2>2
  <2>4. fromUtcTime(g) = (j - kJulianDayOf1970) * kSecondsPerDay + s
    BY <2>1, <2>3, ReadBack
  <2> QED BY <2>2, <2>4
<1>9. kJulianDayOf1970 = 2440588 /\ kSecondsPerDay = 86400
  BY Epochs, SMT DEF kSecondsPerDay
<1>10. fromUtcTime(tm) = D * 86400 + s
  BY <1>5, <1>8, <1>9
<1> QED BY <1>3, <1>7, <1>10 DEF timegm

\* A set of positions that is not empty has a last one.
LEMMA LastPosition ==
    ASSUME NEW n \in Nat, NEW P, P \subseteq 1 .. n, P # {}
    PROVE  \E i \in P : \A j \in P : j <= i
<1> DEFINE Good(k) == \A Q : Q \subseteq 1 .. k /\ Q # {} => \E i \in Q : \A j \in Q : j <= i
           T == {k \in Nat : Good(k)}
<1>1. 0 \in T
  OBVIOUS
<1>2. ASSUME NEW k \in Nat, k \in T PROVE k + 1 \in T
  <2>1. Good(k)
    BY <1>2
  <2>2. ASSUME NEW Q, Q \subseteq 1 .. k + 1, Q # {} PROVE \E i \in Q : \A j \in Q : j <= i
    <3>1. CASE k + 1 \in Q
      BY <2>2, <3>1
    <3>2. CASE k + 1 \notin Q
      <4>1. Q \subseteq 1 .. k
        BY <2>2, <3>2
      <4> QED BY <2>1, <2>2, <4>1
    <3> QED BY <3>1, <3>2
  <2> HIDE DEF Good
  <2>3. Good(k + 1)
    BY <2>2 DEF Good
  <2> QED BY <2>3
<1>3. Nat \subseteq T
  <2> HIDE DEF T
  <2> QED BY <1>1, <1>2, NatSetInduction
<1>4. Good(n)
  BY <1>3
<1> QED BY <1>4

\* What findLocaltime returns for the transitions it has passed.
Latest(zone, P, local) ==
    \/ P = {} /\ local = zone.localtimes[1]
    \/ \E i \in P : (\A j \in P : j <= i) /\ local = zone.localtimes[zone.idx[i]]
ByGmt(zone, t) == {i \in DOMAIN zone.trans : zone.trans[i] <= t}
ByLocal(zone, t) == {i \in DOMAIN zone.trans : zone.trans[i] + zone.localtimes[zone.idx[i]].gmtOffset <= t}

\* The last position, as it is chosen.
LEMMA ChosenLast ==
    ASSUME NEW zone, OneHour(zone), NEW P, P \subseteq DOMAIN zone.trans, P # {},
           NEW k, k = CHOOSE i \in P : \A j \in P : j <= i
    PROVE  k \in P /\ \A j \in P : j <= k
<1>1. zone.trans \in Seq(Int)
  BY DEF OneHour
<1>2. PICK n \in Nat : DOMAIN zone.trans = 1 .. n
  <2>1. PICK tr \in Seq(Int) : tr = zone.trans
    BY <1>1
  <2>2. Len(tr) \in Nat /\ DOMAIN tr = 1 .. Len(tr)
    OBVIOUS
  <2> QED BY <2>1, <2>2
<1>3. \E i \in P : \A j \in P : j <= i
  BY <1>2, LastPosition
<1> QED BY <1>3

\* Every local time of a zone has the zone's standard offset.
LEMMA LatestFields ==
    ASSUME NEW zone, OneHour(zone), NEW P, P \subseteq DOMAIN zone.trans, NEW local, Latest(zone, P, local),
           NEW std, std = StandardOffset(zone.localtimes[1])
    PROVE  /\ std \in Int /\ local.gmtOffset \in Int /\ local.isDst \in BOOLEAN /\ local.gmtOffset > -86400
           /\ local.isDst => local.gmtOffset = std + 3600
           /\ ~ local.isDst => local.gmtOffset = std
<1>1. /\ zone.localtimes \in Seq([gmtOffset : Int, isDst : BOOLEAN]) /\ zone.localtimes # <<>>
      /\ zone.idx \in Seq(DOMAIN zone.localtimes) /\ zone.trans \in Seq(Int) /\ Len(zone.idx) = Len(zone.trans)
  BY DEF OneHour
<1>2. DOMAIN zone.trans = DOMAIN zone.idx /\ \A i \in DOMAIN zone.trans : zone.idx[i] \in DOMAIN zone.localtimes
  BY <1>1
<1>3. 1 \in DOMAIN zone.localtimes
  BY <1>1
<1>4. PICK k : k \in DOMAIN zone.localtimes /\ local = zone.localtimes[k]
  BY <1>2, <1>3 DEF Latest
<1>5. PICK l : l = zone.localtimes[1]
  OBVIOUS
<1>6. /\ local \in [gmtOffset : Int, isDst : BOOLEAN] /\ l \in [gmtOffset : Int, isDst : BOOLEAN]
      /\ StandardOffset(local) = std /\ StandardOffset(l) = std /\ local.gmtOffset > -86400
  <2>1. \A i \in DOMAIN zone.localtimes : zone.localtimes[i] \in [gmtOffset : Int, isDst : BOOLEAN]
    <3>1. PICK R : R = [gmtOffset : Int, isDst : BOOLEAN]
      OBVIOUS
    <3>2. PICK lt : lt = zone.localtimes
      OBVIOUS
    <3>3. lt \in Seq(R)
      BY <1>1, <3>1, <3>2
    <3>4. \A i \in DOMAIN lt : lt[i] \in R
      BY <3>3
    <3> QED BY <3>1, <3>2, <3>4
  <2>2. \A i \in DOMAIN zone.localtimes : zone.localtimes[i].gmtOffset > -86400
    BY DEF OneHour
  <2>3. \A i, j \in DOMAIN zone.localtimes :
          StandardOffset(zone.localtimes[i]) = StandardOffset(zone.localtimes[j])
    BY DEF OneHour
  <2>4. StandardOffset(local) = std /\ StandardOffset(l) = std
    BY <1>3, <1>4, <1>5, <2>3
  <2> QED BY <1>3, <1>4, <1>5, <2>1, <2>2, <2>4
<1>7. local.gmtOffset \in Int /\ local.isDst \in BOOLEAN /\ l.gmtOffset \in Int /\ l.isDst \in BOOLEAN
  BY <1>6
<1>8. std \in Int
  <2>1. CASE l.isDst
    BY <1>6, <1>7, <2>1 DEF StandardOffset
  <2>2. CASE ~ l.isDst
    BY <1>6, <1>7, <2>2 DEF StandardOffset
  <2> QED BY <2>1, <2>2
<1>9. PICK o \in Int : o = local.gmtOffset
  BY <1>7
<1>10. local.isDst => o = std + 3600
  <2> SUFFICES ASSUME local.isDst PROVE o = std + 3600
    OBVIOUS
  <2>1. std = o - 3600
    BY <1>6, <1>9 DEF StandardOffset
  <2> QED BY <1>8, <2>1, SMT
<1>11. ~ local.isDst => o = std
  <2> SUFFICES ASSUME ~ local.isDst PROVE o = std
    OBVIOUS
  <2>1. std = o - 0
    BY <1>6, <1>9 DEF StandardOffset
  <2> QED BY <1>8, <2>1, SMT
<1> QED BY <1>6, <1>7, <1>8, <1>9, <1>10, <1>11

\* The offset of a transition.
LEMMA TransitionOffset ==
    ASSUME NEW zone, OneHour(zone), NEW k \in DOMAIN zone.trans,
           NEW std, std = StandardOffset(zone.localtimes[1])
    PROVE  /\ std \in Int /\ zone.localtimes[zone.idx[k]].gmtOffset \in Int
           /\ zone.localtimes[zone.idx[k]].gmtOffset \in {std, std + 3600}
<1>1. PICK local : local = zone.localtimes[zone.idx[k]]
  OBVIOUS
<1>2. PICK P : P = {l \in DOMAIN zone.trans : l = k}
  OBVIOUS
<1>3. zone.trans \in Seq(Int)
  BY DEF OneHour
<1>4. k \in P /\ P \subseteq DOMAIN zone.trans /\ \A l \in P : l <= k
  BY <1>2, <1>3
<1>5. Latest(zone, P, local)
  BY <1>1, <1>4 DEF Latest
<1>6. /\ std \in Int /\ local.gmtOffset \in Int /\ local.isDst \in BOOLEAN
      /\ local.isDst => local.gmtOffset = std + 3600
      /\ ~ local.isDst => local.gmtOffset = std
  BY <1>4, <1>5, LatestFields
<1> QED BY <1>1, <1>6

\* The transitions are sorted by their local times too: a shift of an hour is less than what is
\* between them.
LEMMA LocalTimesSorted ==
    ASSUME NEW zone, OneHour(zone), NEW i \in DOMAIN zone.trans, NEW j \in DOMAIN zone.trans, i < j
    PROVE  /\ zone.trans[i] \in Int /\ zone.trans[j] \in Int /\ zone.trans[i] < zone.trans[j]
           /\ zone.trans[i] + zone.localtimes[zone.idx[i]].gmtOffset
                < zone.trans[j] + zone.localtimes[zone.idx[j]].gmtOffset
<1>1. zone.trans[i] \in Int /\ zone.trans[j] \in Int /\ zone.trans[j] - zone.trans[i] > 3600
  <2>1. zone.trans \in Seq(Int)
    BY DEF OneHour
  <2> QED BY <2>1 DEF OneHour
<1>2. PICK std : std = StandardOffset(zone.localtimes[1])
  OBVIOUS
<1>3. ASSUME NEW k \in DOMAIN zone.trans
      PROVE  /\ std \in Int /\ zone.localtimes[zone.idx[k]].gmtOffset \in Int
             /\ zone.localtimes[zone.idx[k]].gmtOffset \in {std, std + 3600}
  BY <1>2, TransitionOffset
<1>4. PICK oi \in Int : oi = zone.localtimes[zone.idx[i]].gmtOffset
  BY <1>3
<1>5. PICK oj \in Int : oj = zone.localtimes[zone.idx[j]].gmtOffset
  BY <1>3
<1>6. std \in Int /\ oi \in {std, std + 3600} /\ oj \in {std, std + 3600}
  BY <1>3, <1>4, <1>5
<1>7. PICK ti \in Int, tj \in Int : ti = zone.trans[i] /\ tj = zone.trans[j]
  BY <1>1
<1>8. ti < tj /\ ti + oi < tj + oj
  BY <1>1, <1>6, <1>7, SMT
<1> QED BY <1>1, <1>4, <1>5, <1>7, <1>8

\* In a sorted list, what lower_bound finds is the last one not after the time.
LEMMA LowerBound ==
    ASSUME NEW n \in Nat, NEW key \in [1 .. n -> Int], NEW t \in Int,
           \A i, j \in 1 .. n : i < j => key[i] < key[j],
           NEW equal, equal = {i \in 1 .. n : key[i] = t},
           NEW passed, passed = {i \in 1 .. n : key[i] < t},
           NEW P, P = {i \in 1 .. n : key[i] <= t}
    PROVE  /\ \A k \in equal : (\A j \in equal : k <= j) /\ (\A j \in P : j <= k) /\ k \in P
           /\ equal = {} => passed = P
<1>1. ASSUME NEW k \in equal PROVE (\A j \in equal : k <= j) /\ (\A j \in P : j <= k) /\ k \in P
  <2>1. k \in 1 .. n /\ key[k] = t
    OBVIOUS
  <2>2. ASSUME NEW j \in 1 .. n PROVE key[j] \in Int /\ (j < k => key[j] < t) /\ (k < j => t < key[j])
    BY <2>1
  <2>3. \A j \in equal : k <= j
    BY <2>1, <2>2
  <2>4. \A j \in P : j <= k
    BY <2>1, <2>2
  <2> QED BY <2>1, <2>3, <2>4
<1>2. ASSUME equal = {} PROVE passed = P
  <2>1. \A i \in 1 .. n : key[i] \in Int /\ key[i] # t
    BY <1>2
  <2> QED BY <2>1
<1> QED BY <1>1, <1>2

\* The local time that findLocaltime finds.
LEMMA LocaltimeFound ==
    ASSUME NEW zone, OneHour(zone), NEW t \in Int, NEW data, data = readTimeZoneFile(zone)
    PROVE  /\ Latest(zone, ByGmt(zone, t), findLocaltime(data, t, "gmttime"))
           /\ Latest(zone, ByLocal(zone, t), findLocaltime(data, t, "localtime"))
<1>1. /\ data.localtimes = zone.localtimes /\ DOMAIN data.transitions = DOMAIN zone.trans
      /\ \A i \in DOMAIN zone.trans :
           /\ data.transitions[i]["gmttime"] = zone.trans[i]
           /\ data.transitions[i]["localtime"] = zone.trans[i] + zone.localtimes[zone.idx[i]].gmtOffset
           /\ data.transitions[i].localtimeIdx = zone.idx[i]
  BY DEF readTimeZoneFile
<1>2. PICK n \in Nat : DOMAIN zone.trans = 1 .. n
  <2>1. zone.trans \in Seq(Int)
    BY DEF OneHour
  <2> QED BY <2>1
<1>3. ASSUME NEW by, NEW key \in [1 .. n -> Int], \A i \in 1 .. n : data.transitions[i][by] = key[i],
             \A i, j \in 1 .. n : i < j => key[i] < key[j],
             NEW P, P = {i \in 1 .. n : key[i] <= t}
      PROVE  Latest(zone, P, findLocaltime(data, t, by))
  <2>1. PICK equal : equal = {i \in 1 .. n : key[i] = t}
    OBVIOUS
  <2>2. PICK passed : passed = {i \in 1 .. n : key[i] < t}
    OBVIOUS
  <2>3. PICK first : first = CHOOSE i \in equal : \A j \in equal : i <= j
    OBVIOUS
  <2>4. PICK last : last = CHOOSE i \in passed : \A j \in passed : j <= i
    OBVIOUS
  <2>5. /\ equal = {i \in DOMAIN data.transitions : data.transitions[i][by] = t}
        /\ passed = {i \in DOMAIN data.transitions : data.transitions[i][by] < t}
    BY <1>1, <1>2, <1>3, <2>1, <2>2
  <2>6. findLocaltime(data, t, by) =
          IF equal # {} THEN data.localtimes[data.transitions[first].localtimeIdx]
          ELSE IF passed # {} THEN data.localtimes[data.transitions[last].localtimeIdx]
          ELSE data.localtimes[1]
    BY <2>3, <2>4, <2>5 DEF findLocaltime
  <2>7. /\ \A k \in equal : (\A j \in equal : k <= j) /\ (\A j \in P : j <= k) /\ k \in P
        /\ equal = {} => passed = P
    BY <1>3, <2>1, <2>2, LowerBound
  <2>8. ASSUME NEW k \in P, \A j \in P : j <= k,
               findLocaltime(data, t, by) = data.localtimes[data.transitions[k].localtimeIdx]
        PROVE  Latest(zone, P, findLocaltime(data, t, by))
    <3>1. k \in DOMAIN zone.trans
      BY <1>2, <1>3
    <3> QED BY <1>1, <2>8, <3>1 DEF Latest
  <2>9. CASE equal # {}
    <3>1. first \in equal
      BY <2>3, <2>7, <2>9
    <3> QED BY <2>6, <2>7, <2>8, <2>9, <3>1
  <2>10. CASE equal = {} /\ passed # {}
    <3>1. P \subseteq DOMAIN zone.trans /\ P = passed
      BY <1>2, <1>3, <2>7, <2>10
    <3>2. last \in P /\ \A j \in P : j <= last
      BY <2>4, <2>10, <3>1, ChosenLast
    <3> QED BY <2>6, <2>8, <2>10, <3>2
  <2>11. CASE equal = {} /\ passed = {}
    BY <1>1, <2>6, <2>7, <2>11 DEF Latest
  <2> QED BY <2>9, <2>10, <2>11
<1>4. ASSUME NEW i \in 1 .. n
      PROVE  /\ zone.trans[i] \in Int
             /\ zone.trans[i] + zone.localtimes[zone.idx[i]].gmtOffset \in Int
  <2>1. PICK std : std = StandardOffset(zone.localtimes[1])
    OBVIOUS
  <2>2. i \in DOMAIN zone.trans /\ zone.trans \in Seq(Int)
    BY <1>2 DEF OneHour
  <2>3. zone.localtimes[zone.idx[i]].gmtOffset \in Int
    BY <2>1, <2>2, TransitionOffset
  <2>4. zone.trans[i] \in Int
    BY <2>2
  <2> QED BY <2>3, <2>4
<1>5. Latest(zone, ByGmt(zone, t), findLocaltime(data, t, "gmttime"))
  <2>1. PICK key : key = [i \in 1 .. n |-> zone.trans[i]]
    OBVIOUS
  <2>2. key \in [1 .. n -> Int] /\ \A i \in 1 .. n : data.transitions[i]["gmttime"] = key[i]
    BY <1>1, <1>2, <1>4, <2>1
  <2>3. \A i, j \in 1 .. n : i < j => key[i] < key[j]
    BY <1>2, <2>1, LocalTimesSorted
  <2>4. ByGmt(zone, t) = {i \in 1 .. n : key[i] <= t}
    BY <1>2, <2>1 DEF ByGmt
  <2> QED BY <1>3, <2>2, <2>3, <2>4
<1>6. Latest(zone, ByLocal(zone, t), findLocaltime(data, t, "localtime"))
  <2>1. PICK key : key = [i \in 1 .. n |-> zone.trans[i] + zone.localtimes[zone.idx[i]].gmtOffset]
    OBVIOUS
  <2>2. key \in [1 .. n -> Int] /\ \A i \in 1 .. n : data.transitions[i]["localtime"] = key[i]
    BY <1>1, <1>2, <1>4, <2>1
  <2>3. \A i, j \in 1 .. n : i < j => key[i] < key[j]
    BY <1>2, <2>1, LocalTimesSorted
  <2>4. ByLocal(zone, t) = {i \in 1 .. n : key[i] <= t}
    BY <1>2, <2>1 DEF ByLocal
  <2> QED BY <1>3, <2>2, <2>3, <2>4
<1> QED BY <1>5, <1>6

\* fromLocalTime finds the offset the time was shown with, or standard time an hour on.
LEMMA OffsetFound ==
    ASSUME NEW zone, OneHour(zone), NEW t \in Int,
           NEW a, Latest(zone, ByGmt(zone, t), a),
           NEW b, Latest(zone, ByLocal(zone, t + a.gmtOffset), b),
           NEW c, Latest(zone, ByGmt(zone, t + a.gmtOffset - b.gmtOffset), c)
    PROVE  \/ a.gmtOffset = b.gmtOffset
           \/ a.gmtOffset = b.gmtOffset + 3600 /\ a.isDst /\ ~ c.isDst
<1>1. PICK std : std = StandardOffset(zone.localtimes[1])
  OBVIOUS
<1>2. \A u : ByGmt(zone, u) \subseteq DOMAIN zone.trans /\ ByLocal(zone, u) \subseteq DOMAIN zone.trans
  BY DEF ByGmt, ByLocal
<1>3. /\ std \in Int /\ a.gmtOffset \in Int /\ b.gmtOffset \in Int /\ c.gmtOffset \in Int
      /\ a.isDst => a.gmtOffset = std + 3600
      /\ ~ a.isDst => a.gmtOffset = std
      /\ b.isDst => b.gmtOffset = std + 3600
      /\ ~ b.isDst => b.gmtOffset = std
      /\ c.isDst => c.gmtOffset = std + 3600
      /\ ~ c.isDst => c.gmtOffset = std
  BY <1>1, <1>2, LatestFields
<1>40. PICK n, tr : n = Len(zone.trans) /\ tr = zone.trans
  OBVIOUS
<1>4. PICK of : of = [i \in 1 .. n |-> zone.localtimes[zone.idx[i]].gmtOffset]
  OBVIOUS
<1>5. /\ n \in Nat /\ tr \in [1 .. n -> Int] /\ DOMAIN zone.trans = 1 .. n
      /\ \A i, j \in 1 .. n : i < j => tr[j] - tr[i] > 3600
  <2>1. zone.trans \in Seq(Int) /\ \A i, j \in DOMAIN zone.trans : i < j => zone.trans[j] - zone.trans[i] > 3600
    BY DEF OneHour
  <2>2. n \in Nat /\ zone.trans \in [1 .. n -> Int] /\ DOMAIN zone.trans = 1 .. n
    BY <1>40, <2>1
  <2>3. ASSUME NEW i \in 1 .. n, NEW j \in 1 .. n, i < j PROVE tr[j] - tr[i] > 3600
    <3>1. i \in DOMAIN zone.trans /\ j \in DOMAIN zone.trans
      BY <2>2
    <3>2. zone.trans[j] - zone.trans[i] > 3600
      BY <2>1, <2>3, <3>1
    <3> QED BY <1>40, <3>2
  <2> QED BY <1>40, <2>2, <2>3
<1>6. PICK oa \in Int, ob \in Int, oc \in Int : oa = a.gmtOffset /\ ob = b.gmtOffset /\ oc = c.gmtOffset
  BY <1>3
<1>7. PICK A, B, C : /\ A = {i \in 1 .. n : tr[i] <= t}
                     /\ B = {i \in 1 .. n : tr[i] + of[i] <= t + oa}
                     /\ C = {i \in 1 .. n : tr[i] <= t + oa - ob}
  OBVIOUS
<1>8. ByGmt(zone, t) = A /\ ByLocal(zone, t + oa) = B /\ ByGmt(zone, t + oa - ob) = C
  BY <1>4, <1>40, <1>5, <1>7 DEF ByGmt, ByLocal
<1>9. PICK first : first = zone.localtimes[1].gmtOffset
  OBVIOUS
<1> DEFINE Of(P, o) == (P = {} /\ o = first) \/ \E i \in P : (\A j \in P : j <= i) /\ o = of[i]
<1>10. Of(A, oa) /\ Of(B, ob) /\ Of(C, oc)
  <2>1. ASSUME NEW P, P \subseteq 1 .. n, NEW local, Latest(zone, P, local) PROVE Of(P, local.gmtOffset)
    BY <1>4, <1>9, <2>1 DEF Latest
  <2>2. Latest(zone, A, a) /\ Latest(zone, B, b) /\ Latest(zone, C, c)
    BY <1>6, <1>8
  <2>3. A \subseteq 1 .. n /\ B \subseteq 1 .. n /\ C \subseteq 1 .. n
    BY <1>7
  <2> HIDE DEF Of
  <2> QED BY <1>6, <2>1, <2>2, <2>3
<1>11. \/ oa = ob
       \/ oa = std /\ ob = std + 3600
       \/ oa = std + 3600 /\ ob = std /\ a.isDst
  BY <1>3, <1>6
<1>12. CASE oa = ob
  BY <1>6, <1>12
<1>13. CASE oa = std /\ ob = std + 3600
  <2>1. PICK j \in B : (\A k \in B : k <= j) /\ ob = of[j]
    <3> SUFFICES ASSUME B = {}, ob = first PROVE FALSE
      BY <1>10
    <3>1. PICK i \in A : oa = of[i]
      BY <1>3, <1>10, <1>13
    <3>2. i \in B
      BY <1>5, <1>7, <1>13, <3>1
    <3> QED BY <3>2
  <2>2. j \in 1 .. n /\ tr[j] + of[j] <= t + oa /\ tr[j] \in Int
    BY <1>5, <1>7
  <2>3. tr[j] <= t
    BY <1>3, <1>13, <2>1, <2>2
  <2>4. j \in A
    BY <1>7, <2>2, <2>3
  <2>5. PICK i \in A : (\A k \in A : k <= i) /\ oa = of[i]
    BY <1>10, <2>4
  <2>6. i \in 1 .. n /\ tr[i] <= t /\ tr[i] \in Int
    BY <1>5, <1>7
  <2>7. i \in B
    BY <1>3, <1>7, <1>13, <2>5, <2>6
  <2>8. i = j
    BY <2>1, <2>2, <2>4, <2>5, <2>6, <2>7
  <2> QED BY <1>3, <1>13, <2>1, <2>5, <2>8
<1>14. CASE oa = std + 3600 /\ ob = std /\ a.isDst
  <2>1. oc = std
    <3> SUFFICES ASSUME oc # std PROVE FALSE
      OBVIOUS
    <3>1. oc = std + 3600
      BY <1>3, <1>6
    <3>2. PICK j \in B : (\A k \in B : k <= j) /\ ob = of[j]
      <4> SUFFICES ASSUME B = {}, ob = first PROVE FALSE
        BY <1>10
      <4>1. PICK i \in A : oa = of[i]
        BY <1>3, <1>10, <1>14
      <4>2. i \in B
        BY <1>5, <1>7, <1>14, <4>1
      <4> QED BY <4>2
    <3>3. j \in 1 .. n /\ tr[j] + of[j] <= t + oa /\ tr[j] \in Int
      BY <1>5, <1>7
    <3>4. j \in C
      BY <1>3, <1>7, <1>14, <3>2, <3>3
    <3>5. PICK k \in C : (\A i \in C : i <= k) /\ oc = of[k]
      BY <1>10, <3>4
    <3>6. k \in 1 .. n /\ tr[k] <= t + 3600 /\ tr[k] \in Int
      BY <1>3, <1>5, <1>7, <1>14
    <3>7. j < k
      BY <1>3, <1>14, <3>1, <3>2, <3>3, <3>4, <3>5, <3>6
    <3>8. tr[k] - tr[j] > 3600
      BY <1>5, <3>3, <3>6, <3>7
    <3>9. tr[j] <= t
      BY <3>3, <3>6, <3>8, SMT
    <3>10. j \in A
      BY <1>7, <3>3, <3>9
    <3>11. PICK i \in A : (\A l \in A : l <= i) /\ oa = of[i]
      BY <1>10, <3>10
    <3>12. i \in 1 .. n /\ tr[i] <= t /\ tr[i] \in Int
      BY <1>5, <1>7
    <3>13. i \in B
      BY <1>3, <1>7, <1>14, <3>11, <3>12
    <3>14. i = j
      BY <3>2, <3>3, <3>10, <3>11, <3>12, <3>13
    <3> QED BY <1>3, <1>14, <3>2, <3>11, <3>14
  <2>2. ~ c.isDst
    BY <1>3, <1>6, <2>1
  <2> QED BY <1>3, <1>6, <1>14, <2>2
<1> QED BY <1>11, <1>12, <1>13, <1>14

\* A time shown as local time is read back as it was.
LEMMA LocalReturns ==
    ASSUME NEW zone, OneHour(zone), NEW t \in Nat, NEW data, data = readTimeZoneFile(zone)
    PROVE  fromLocalTime(data, toLocalTime(data, t)) = t
<1>1. PICK a : a = findLocaltime(data, t, "gmttime")
  OBVIOUS
<1>2. PICK b : b = findLocaltime(data, t + a.gmtOffset, "localtime")
  OBVIOUS
<1>3. PICK c : c = findLocaltime(data, t + a.gmtOffset - b.gmtOffset, "gmttime")
  OBVIOUS
<1>4. /\ Latest(zone, ByGmt(zone, t), a) /\ Latest(zone, ByLocal(zone, t + a.gmtOffset), b)
      /\ Latest(zone, ByGmt(zone, t + a.gmtOffset - b.gmtOffset), c)
  <2>1. t \in Int /\ a.gmtOffset \in Int
    <3>1. Latest(zone, ByGmt(zone, t), a)
      BY <1>1, LocaltimeFound
    <3>2. ByGmt(zone, t) \subseteq DOMAIN zone.trans
      BY DEF ByGmt
    <3> QED BY <3>1, <3>2, LatestFields
  <2>2. Latest(zone, ByGmt(zone, t), a) /\ Latest(zone, ByLocal(zone, t + a.gmtOffset), b)
    BY <1>1, <1>2, <2>1, LocaltimeFound
  <2>3. b.gmtOffset \in Int
    <3>1. ByLocal(zone, t + a.gmtOffset) \subseteq DOMAIN zone.trans
      BY DEF ByLocal
    <3> QED BY <2>2, <3>1, LatestFields
  <2>4. t + a.gmtOffset - b.gmtOffset \in Int
    BY <2>1, <2>3
  <2> QED BY <1>3, <2>2, <2>4, LocaltimeFound
<1>5. PICK std : std = StandardOffset(zone.localtimes[1])
  OBVIOUS
<1>6. /\ std \in Int /\ a.gmtOffset \in Int /\ b.gmtOffset \in Int /\ c.gmtOffset \in Int
      /\ a.gmtOffset > -86400
      /\ a.isDst => a.gmtOffset = std + 3600
      /\ ~ b.isDst => b.gmtOffset = std
      /\ b.isDst => b.gmtOffset = std + 3600
      /\ ~ c.isDst => c.gmtOffset = std
  <2>1. \A u : ByGmt(zone, u) \subseteq DOMAIN zone.trans /\ ByLocal(zone, u) \subseteq DOMAIN zone.trans
    BY DEF ByGmt, ByLocal
  <2> QED BY <1>4, <1>5, <2>1, LatestFields
<1>7. \/ a.gmtOffset = b.gmtOffset
      \/ a.gmtOffset = b.gmtOffset + 3600 /\ a.isDst /\ ~ c.isDst
  <2>1. t \in Int
    OBVIOUS
  <2> QED BY <1>4, <2>1, OffsetFound
<1>8. PICK oa \in Int, ob \in Int, oc \in Int : oa = a.gmtOffset /\ ob = b.gmtOffset /\ oc = c.gmtOffset
  BY <1>6
<1>9. PICK tm : tm = toLocalTime(data, t)
  OBVIOUS
<1>10. tm = [toUtcTime(t + oa) EXCEPT !.isdst = a.isDst]
  BY <1>1, <1>8, <1>9 DEF toLocalTime, gmtime_r
<1>11. timegm(tm) = t + oa /\ tm.isdst = a.isDst /\ tm.clock = toUtcTime(t + oa).clock
  <2>1. PICK w \in Int : w = t + oa
    OBVIOUS
  <2>2. w >= -86400
    BY <1>6, <1>8, <2>1, SMT
  <2>3. tm = [toUtcTime(w) EXCEPT !.isdst = a.isDst]
    BY <1>10, <2>1
  <2>4. timegm(tm) = w /\ tm.isdst = a.isDst /\ tm.clock = toUtcTime(w).clock
    BY <2>2, <2>3, UtcReturns
  <2> QED BY <2>1, <2>4
<1>12. PICK try : try = toLocalTime(data, t + oa - ob)
  OBVIOUS
<1>13. try = [toUtcTime(t + oa - ob + oc) EXCEPT !.isdst = c.isDst]
  BY <1>3, <1>8, <1>12 DEF toLocalTime, gmtime_r
<1>14. PICK again : again = (/\ tm.isdst /\ ~ try.isdst
                             /\ try.clock.hour = tm.clock.hour /\ try.clock.min = tm.clock.min)
  OBVIOUS
<1>15. fromLocalTime(data, tm) = t + oa - ob - (IF again THEN 3600 ELSE 0)
  BY <1>2, <1>8, <1>11, <1>12, <1>14 DEF fromLocalTime
<1>16. CASE oa = ob
  <2>1. t + oa - ob = t
    BY <1>16
  <2>2. try = tm
    BY <1>9, <1>12, <2>1
  <2>3. ~ again
    BY <1>14, <2>2
  <2>4. fromLocalTime(data, tm) = t - 0
    BY <1>15, <2>1, <2>3
  <2> QED BY <1>9, <2>4
<1>17. CASE oa = ob + 3600 /\ a.isDst /\ ~ c.isDst
  <2>1. ob = oc
    BY <1>6, <1>8, <1>17, SMT
  <2>2. t + oa - ob + oc = t + oa
    BY <2>1
  <2>3. PICK w \in Int : w = t + oa
    OBVIOUS
  <2>4. w >= -86400
    BY <1>6, <1>8, <2>3, SMT
  <2>5. try = [toUtcTime(w) EXCEPT !.isdst = c.isDst]
    BY <1>13, <2>2, <2>3
  <2>6. try.isdst = c.isDst /\ try.clock = toUtcTime(w).clock
    BY <2>4, <2>5, UtcReturns
  <2>7. try.clock = tm.clock
    BY <1>11, <2>3, <2>6
  <2>8. again
    BY <1>11, <1>14, <1>17, <2>6, <2>7
  <2>9. fromLocalTime(data, tm) = t + oa - ob - 3600
    BY <1>15, <2>8
  <2>10. t + oa - ob - 3600 = t
    BY <1>17, SMT
  <2> QED BY <1>9, <2>9, <2>10
<1> QED BY <1>7, <1>8, <1>16, <1>17

(***************************************************************************)
(* The walks.                                                              *)
(***************************************************************************)
DayWalk(c) ==
    /\ c = [walk |-> "days", date |-> c.date, days |-> c.days, yday |-> c.yday, left |-> c.left]
    /\ ValidDate(c.date) /\ c.days \in Int /\ Jdn(c.date) = c.days + 2440588
    /\ c.yday = Jdn(c.date) - Jdn(NewYear(c.date.year))
HourWalk(c) ==
    c = [walk |-> "hours", zone |-> c.zone, at |-> c.at] /\ c.zone \in Zones /\ c.at \in Nat
Walk == DayWalk(calendar) \/ HourWalk(calendar)

\* A walk starts.
LEMMA WalkStarts ==
    ASSUME CalendarStart
    PROVE  Walk
<1>1. ASSUME NEW year \in Years,
             calendar = [walk |-> "days", date |-> NewYear(year), days |-> DaysTo(year), yday |-> 0,
                         left |-> MaxDays]
      PROVE  DayWalk(calendar)
  <2>1. year \in Nat
    BY CalendarYears
  <2>2. PICK date : date = NewYear(year)
    OBVIOUS
  <2>3. PICK j : j = Jdn(date)
    OBVIOUS
  <2>4. ValidDate(date) /\ j = getJulianDayNumber(year, 1, 1)
    BY <2>1, <2>2, <2>3, NewYearIsValid
  <2>5. DaysTo(year) \in Int /\ j = DaysTo(year) + 2440588
    BY <2>1, <2>4, DaysToIs
  <2>6. j \in Int
    BY <2>5, SMT
  <2>7. j - j = 0
    BY <2>6
  <2>8. date.year = year
    BY <2>2 DEF NewYear
  <2>9. /\ calendar = [walk |-> "days", date |-> date, days |-> DaysTo(year), yday |-> 0, left |-> MaxDays]
        /\ calendar.date = date /\ calendar.days = DaysTo(year) /\ calendar.yday = 0 /\ calendar.left = MaxDays
    BY <1>1, <2>2
  <2>10. Jdn(calendar.date) = j /\ Jdn(NewYear(calendar.date.year)) = j
    BY <2>2, <2>3, <2>8, <2>9
  <2> QED BY <2>4, <2>5, <2>7, <2>9, <2>10 DEF DayWalk
<1>2. ASSUME NEW zone \in Zones, calendar = [walk |-> "hours", zone |-> zone, at |-> 0]
      PROVE  HourWalk(calendar)
  BY <1>2 DEF HourWalk
<1> QED BY <1>1, <1>2 DEF CalendarStart, Walk

\* The year changes only on the first of January.
LEMMA YearChanges ==
    ASSUME NEW date, ValidDate(date), NEW next, next = Tomorrow(date)
    PROVE  IF next.month = 1 /\ next.day = 1 THEN next = NewYear(next.year) ELSE next.year = date.year
<1>1. ValidDate(next)
  BY NextDate
<1>2. PICK y, m, d : y = date.year /\ m = date.month /\ d = date.day
  OBVIOUS
<1>3. PICK n : n = DaysOf(y, m)
  OBVIOUS
<1>4. y \in Nat /\ m \in 1 .. 12 /\ d \in 1 .. n
  BY <1>2, <1>3 DEF ValidDate
<1>5. n \in 28 .. 31
  BY <1>3, <1>4, DaysOfIs
<1>6. /\ d < n => next = [year |-> y, month |-> m, day |-> d + 1]
      /\ d >= n /\ m < 12 => next = [year |-> y, month |-> m + 1, day |-> 1]
      /\ d >= n /\ m >= 12 => next = [year |-> y + 1, month |-> 1, day |-> 1]
  BY <1>2, <1>3, TomorrowCases
<1>7. CASE next.month = 1 /\ next.day = 1
  <2>1. next = [year |-> next.year, month |-> 1, day |-> 1]
    BY <1>1, <1>7 DEF ValidDate
  <2> QED BY <1>7, <2>1 DEF NewYear
<1>8. CASE ~ (next.month = 1 /\ next.day = 1)
  <2>1. d < n \/ (d >= n /\ m < 12) \/ (d >= n /\ m >= 12)
    BY <1>4, <1>5
  <2>2. next.year = y
    BY <1>6, <1>8, <2>1
  <2> QED BY <1>2, <1>8, <2>2
<1> QED BY <1>7, <1>8

\* A day passes.
LEMMA NextDayKeeps ==
    ASSUME DayWalk(calendar), NextDay
    PROVE  DayWalk(calendar')
<1>1. PICK date, days, yday, left :
        calendar = [walk |-> "days", date |-> date, days |-> days, yday |-> yday, left |-> left]
  BY DEF DayWalk
<1>2. calendar.date = date /\ calendar.days = days /\ calendar.yday = yday /\ calendar.left = left
  BY <1>1
<1>3. /\ ValidDate(date) /\ days \in Int /\ Jdn(date) = days + 2440588
      /\ yday = Jdn(date) - Jdn(NewYear(date.year))
  BY <1>2 DEF DayWalk
<1>4. PICK next : next = Tomorrow(date)
  OBVIOUS
<1>5. PICK nday : nday = IF next.month = 1 /\ next.day = 1 THEN 0 ELSE yday + 1
  OBVIOUS
<1>6. calendar' = [calendar EXCEPT !.date = next, !.days = @ + 1, !.left = @ - 1, !.yday = nday]
  BY <1>2, <1>4, <1>5 DEF NextDay
<1>7. calendar' = [walk |-> "days", date |-> next, days |-> days + 1, yday |-> nday, left |-> left - 1]
  BY <1>1, <1>6
<1>8. ValidDate(next) /\ Jdn(date) \in Int /\ Jdn(next) = Jdn(date) + 1
  BY <1>3, <1>4, NextDate
<1>9. days + 1 \in Int /\ Jdn(next) = (days + 1) + 2440588
  BY <1>3, <1>8, SMT
<1>10. nday = Jdn(next) - Jdn(NewYear(next.year))
  <2>1. CASE next.month = 1 /\ next.day = 1
    <3>1. next = NewYear(next.year)
      BY <1>3, <1>4, <2>1, YearChanges
    <3>2. Jdn(next) \in Int /\ Jdn(NewYear(next.year)) = Jdn(next)
      BY <1>8, <3>1
    <3>3. Jdn(next) - Jdn(next) = 0
      BY <3>2
    <3> QED BY <1>5, <2>1, <3>2, <3>3
  <2>2. CASE ~ (next.month = 1 /\ next.day = 1)
    <3>1. next.year = date.year
      BY <1>3, <1>4, <2>2, YearChanges
    <3>2. nday = yday + 1
      BY <1>5, <2>2
    <3>3. PICK k : k = Jdn(NewYear(date.year))
      OBVIOUS
    <3>4. k \in Int
      <4>1. ValidDate(NewYear(date.year))
        BY <1>3, NewYearIsValid DEF ValidDate
      <4> QED BY <3>3, <4>1, NextDate
    <3>5. yday = Jdn(date) - k /\ Jdn(NewYear(next.year)) = k
      BY <1>3, <3>1, <3>3
    <3> QED BY <1>8, <3>2, <3>4, <3>5, SMT
  <2> QED BY <2>1, <2>2
<1>11. /\ calendar'.date = next /\ calendar'.days = days + 1 /\ calendar'.yday = nday
       /\ calendar'.left = left - 1
  BY <1>7
<1> QED BY <1>7, <1>8, <1>9, <1>10, <1>11 DEF DayWalk

\* A step of a walk.
LEMMA WalkStep ==
    ASSUME Walk, [CalendarNext]_calendar
    PROVE  Walk'
<1>1. CASE NextDay
  <2>1. calendar.walk = "days"
    BY <1>1 DEF NextDay
  <2>2. DayWalk(calendar)
    BY <2>1 DEF Walk, HourWalk
  <2> QED BY <1>1, <2>2, NextDayKeeps DEF Walk
<1>2. CASE NextHour
  <2>1. calendar.walk = "hours"
    BY <1>2 DEF NextHour
  <2>2. HourWalk(calendar)
    BY <2>1 DEF Walk, DayWalk
  <2>3. PICK zone, at : calendar = [walk |-> "hours", zone |-> zone, at |-> at]
    BY <2>2 DEF HourWalk
  <2>4. zone \in Zones /\ at \in Nat
    BY <2>2, <2>3 DEF HourWalk
  <2>5. calendar' = [walk |-> "hours", zone |-> zone, at |-> at + 1]
    BY <1>2, <2>3 DEF NextHour
  <2>6. HourWalk(calendar')
    BY <2>4, <2>5 DEF HourWalk
  <2> QED BY <2>6 DEF Walk
<1>3. CASE UNCHANGED calendar
  BY <1>3 DEF Walk
<1> QED BY <1>1, <1>2, <1>3 DEF CalendarNext

\* On every day of a walk the dates agree.
LEMMA WalkDates ==
    ASSUME DayWalk(calendar)
    PROVE  DatesAgree
<1>1. PICK date, days, yday : date = calendar.date /\ days = calendar.days /\ yday = calendar.yday
  OBVIOUS
<1>2. /\ ValidDate(date) /\ days \in Int /\ Jdn(date) = days + 2440588
      /\ yday = Jdn(date) - Jdn(NewYear(date.year))
  BY <1>1 DEF DayWalk
<1>3. PICK j \in Int : j = days + 2440588
  BY <1>2, SMT
<1>4. Jdn(date) = j /\ getYearMonthDay(j) = date
  BY <1>2, <1>3, DateFound
<1>5. getJulianDayNumber(date.year, date.month, date.day) = j
  BY <1>4 DEF Jdn
<1>6. kSecondsPerDay = 86400 /\ kJulianDayOf1970 = 2440588
  BY Epochs, SMT DEF kSecondsPerDay
<1> DEFINE Agrees(s) ==
      LET t == days * kSecondsPerDay + s
          tm == toUtcTime(t)
      IN  /\ tm.ymd = date /\ tm.yday = yday
          /\ tm.wday = (days + 4) % 7
          /\ tm.clock.hour * 3600 + tm.clock.min * 60 + tm.clock.sec = s
          /\ fromUtcTime(tm) = t
<1>7. ASSUME NEW s \in Seconds PROVE Agrees(s)
  <2>1. s \in Nat /\ s < 86400
    BY SMT DEF Seconds
  <2>2. PICK t \in Int : t = days * 86400 + s
    BY <1>2, <2>1, SMT
  <2>3. PICK tm : tm = toUtcTime(t)
    OBVIOUS
  <2>4. tm = Shown(j, s)
    BY <1>2, <1>3, <2>1, <2>2, <2>3, UtcIs
  <2>5. /\ tm.ymd = getYearMonthDay(j) /\ tm.clock = fillHMS(s) /\ tm.wday = weekDay(j)
        /\ tm.yday = j - getJulianDayNumber(getYearMonthDay(j).year, 1, 1)
    BY <2>4 DEF Shown
  <2>6. tm.ymd = date
    BY <1>4, <2>5
  <2>7. tm.yday = yday
    <3>1. Jdn(NewYear(date.year)) = getJulianDayNumber(date.year, 1, 1)
      BY <1>2, NewYearIsValid DEF ValidDate
    <3> QED BY <1>2, <1>4, <2>5, <3>1
  <2>8. tm.wday = (days + 4) % 7
    <3>1. (j + 1) % 7 = (days + 4) % 7
      BY <1>2, <1>3, SMT
    <3> QED BY <2>5, <3>1 DEF weekDay
  <2>9. tm.clock.hour * 3600 + tm.clock.min * 60 + tm.clock.sec = s
    BY <2>1, <2>5, ClockIs
  <2>10. fromUtcTime(tm) = t
    <3>1. PICK g : g = tm
      OBVIOUS
    <3>2. g.ymd = date /\ g.clock = fillHMS(s)
      BY <2>5, <2>6, <3>1
    <3>3. fromUtcTime(g) = (j - kJulianDayOf1970) * kSecondsPerDay + s
      BY <1>4, <2>1, <3>2, ReadFields
    <3>4. (j - 2440588) * 86400 + s = t
      BY <1>2, <1>3, <2>1, <2>2, SMT
    <3> QED BY <1>6, <3>1, <3>3, <3>4
  <2>11. days * kSecondsPerDay + s = t
    BY <1>6, <2>2
  <2> QED BY <2>3, <2>6, <2>7, <2>8, <2>9, <2>10, <2>11
<1> HIDE DEF Agrees
<1>8. \A s \in Seconds : Agrees(s)
  BY <1>7
<1> QED BY <1>1, <1>3, <1>4, <1>5, <1>8 DEF DatesAgree, Agrees

\* On every half hour of a walk local time returns.
LEMMA WalkHours ==
    ASSUME HourWalk(calendar)
    PROVE  LocalTimeReturns
<1>1. PICK zone, at : zone = calendar.zone /\ at = calendar.at
  OBVIOUS
<1>2. OneHour(zone) /\ at \in Nat
  BY <1>1, ZonesShiftOneHour DEF HourWalk
<1>3. PICK t \in Nat : t = at * 1800
  BY <1>2, SMT
<1>4. PICK data : data = readTimeZoneFile(zone)
  OBVIOUS
<1>5. fromLocalTime(data, toLocalTime(data, t)) = t
  BY <1>2, <1>4, LocalReturns
<1> QED BY <1>1, <1>3, <1>4, <1>5 DEF LocalTimeReturns

\* Dates, days of the week and of the year agree with the calendar on every day from the year 0
\* on, times come back from their fields, and local times come back in every zone that shifts by
\* one hour (Date.cc 11-33, TimeZone.cc 263-345).
THEOREM CalendarReturns == CalendarStart /\ [][CalendarNext]_calendar => []CalendarRoundTrip
<1>1. CalendarStart => Walk
  BY WalkStarts
<1>2. Walk /\ [CalendarNext]_calendar => Walk'
  BY WalkStep
<1>3. Walk => CalendarRoundTrip
  <2> SUFFICES ASSUME Walk PROVE CalendarRoundTrip
    OBVIOUS
  <2>1. CASE DayWalk(calendar)
    <3>1. calendar.walk # "hours"
      BY <2>1 DEF DayWalk
    <3> QED BY <2>1, <3>1, WalkDates DEF CalendarRoundTrip, LocalTimeReturns
  <2>2. CASE HourWalk(calendar)
    <3>1. calendar.walk # "days"
      BY <2>2 DEF HourWalk
    <3> QED BY <2>2, <3>1, WalkHours DEF CalendarRoundTrip, DatesAgree
  <2> QED BY <2>1, <2>2 DEF Walk
<1> QED BY <1>1, <1>2, <1>3, PTL
=============================================================================
