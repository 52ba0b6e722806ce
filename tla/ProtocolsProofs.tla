-------------------------- MODULE ProtocolsProofs --------------------------
(***************************************************************************)
(* Three proofs about what servers are built from and build.               *)
(*                                                                         *)
(* A Buffer holds the bytes that it should, for any reserve and any        *)
(* initial size, whatever sequence of operations is applied.  HoldsUnread  *)
(* is not inductive: retrieveAll and makeSpace set the indices back to     *)
(* kCheapPrepend, which has to be within the vector.  Holds adds that, and *)
(* says byte by byte what the readable part is, so that the copies of      *)
(* std::copy and readv can be followed.                                    *)
(*                                                                         *)
(* The cas numbers of the memcached example are sound, for any set of      *)
(* sessions, any scripts of the clients and any limit on values.  CasSound *)
(* is not inductive: a value stored under a number that a client has seen  *)
(* already would break it.  CasOK adds that neither an item nor a client   *)
(* has a number beyond g_cas, so that the number that Put draws is new to  *)
(* everyone.                                                               *)
(*                                                                         *)
(* The sessions of that example carry out the commands as their clients    *)
(* sent them, for any scripts that are written by the protocol's rules, up *)
(* to a size that an int does not hold with two more.  CommandsAsSent says *)
(* nothing of a session in the middle of a command.  CacheOK says how many *)
(* tokens of the script are read, that input and wire are the others, and, *)
(* within a command, how much of its value is there or is still to be      *)
(* discarded; and that a session that has read such a size has a client    *)
(* that sent one.                                                          *)
(***************************************************************************)
EXTENDS Buffer, Memcache, SequenceTheorems, FiniteSetTheorems, TLAPS

bufferVars == <<buffer, unread, got>>

\* Bytes as users write them and as integers are split into; what they are does not matter.
Values == Bytes \cup {(x \div Base^k) % Base : x \in Nat, k \in Nat}

\* The bytes of data from reader to writer are u, and the indices are within their bounds.
HoldsAt(data, reader, writer, u) ==
    /\ data \in Seq(Values) /\ reader \in Nat /\ writer \in Nat /\ u \in Seq(Values)
    /\ reader + Len(u) = writer /\ writer <= Len(data)
    /\ kCheapPrepend <= Len(data)
    /\ \A i \in 1 .. Len(u) : u[i] = data[reader + i]

\* b is a buffer within its bounds and its readable bytes are u.
Holds(b, u) ==
    /\ b = [data |-> b.data, reader |-> b.reader, writer |-> b.writer]
    /\ HoldsAt(b.data, b.reader, b.writer, u)

BufferInv == Holds(buffer, unread) /\ got[1] = got[2]

-----------------------------------------------------------------------------
(***************************************************************************)
(* Sequences.                                                              *)
(***************************************************************************)
\* Sequences of equal length with equal elements are equal.
LEMMA SameElements ==
    ASSUME NEW s \in Seq(Values), NEW t \in Seq(Values), Len(s) = Len(t),
           \A i \in 1 .. Len(s) : s[i] = t[i]
    PROVE  s = t
OBVIOUS

\* What SubSeq returns, with one index before its first element.
LEMMA SubSeqElements ==
    ASSUME NEW s \in Seq(Values), NEW m \in Nat, NEW n \in Nat, m <= n, n <= Len(s)
    PROVE  /\ SubSeq(s, m + 1, n) \in Seq(Values)
           /\ Len(SubSeq(s, m + 1, n)) = n - m
           /\ \A i \in 1 .. n - m : SubSeq(s, m + 1, n)[i] = s[m + i]
OBVIOUS

\* What \o returns.
LEMMA ConcatElements ==
    ASSUME NEW s \in Seq(Values), NEW t \in Seq(Values)
    PROVE  /\ s \o t \in Seq(Values)
           /\ Len(s \o t) = Len(s) + Len(t)
           /\ \A i \in 1 .. Len(s) : (s \o t)[i] = s[i]
           /\ \A i \in Len(s) + 1 .. Len(s) + Len(t) : (s \o t)[i] = t[i - Len(s)]
OBVIOUS

\* The new bytes of a resized vector (Buffer.h 353-360).
LEMMA ZerosElements ==
    ASSUME NEW n \in Nat
    PROVE  Zeros(n) \in Seq(Values) /\ Len(Zeros(n)) = n
<1>1. 0 \in Values
  BY BufferSizes DEF Values, Bytes
<1> QED BY <1>1 DEF Zeros

\* std::copy within the vector changes the bytes it covers and no others.
LEMMA CopyElements ==
    ASSUME NEW data \in Seq(Values), NEW at \in Nat, NEW bytes \in Seq(Values),
           at + Len(bytes) <= Len(data)
    PROVE  /\ Copy(data, at, bytes) \in Seq(Values)
           /\ Len(Copy(data, at, bytes)) = Len(data)
           /\ \A i \in 1 .. Len(data) :
                Copy(data, at, bytes)[i] =
                    IF i \in at + 1 .. at + Len(bytes) THEN bytes[i - at] ELSE data[i]
<1>1. \A i \in 1 .. Len(data) :
        (IF i \in at + 1 .. at + Len(bytes) THEN bytes[i - at] ELSE data[i]) \in Values
  OBVIOUS
<1>2. Copy(data, at, bytes) =
        [i \in 1 .. Len(data) |->
            IF i \in at + 1 .. at + Len(bytes) THEN bytes[i - at] ELSE data[i]]
  BY DEF Copy
<1>3. Copy(data, at, bytes) \in [1 .. Len(data) -> Values]
  BY <1>1, <1>2
<1>4. Copy(data, at, bytes) \in Seq(Values) /\ Len(Copy(data, at, bytes)) = Len(data)
  BY <1>3
<1> QED BY <1>2, <1>4

-----------------------------------------------------------------------------
(***************************************************************************)
(* What happens to the bytes when the indices move, the vector grows or    *)
(* bytes are copied.                                                       *)
(***************************************************************************)
\* Appending twice is appending the concatenation.
LEMMA Associative ==
    ASSUME NEW s \in Seq(Values), NEW t \in Seq(Values), NEW v \in Seq(Values)
    PROVE  (s \o t) \o v = s \o (t \o v)
BY SMTT(30)

\* The reader moves over n bytes.
LEMMA SkipAt ==
    ASSUME NEW d, NEW r, NEW w, NEW u, HoldsAt(d, r, w, u), NEW n \in 0 .. Len(u)
    PROVE  HoldsAt(d, r + n, w, SubSeq(u, n + 1, Len(u)))
<1> DEFINE v == SubSeq(u, n + 1, Len(u))
<1> USE DEF HoldsAt
<1>1. /\ v \in Seq(Values) /\ Len(v) = Len(u) - n
      /\ \A i \in 1 .. Len(u) - n : v[i] = u[n + i]
  BY SubSeqElements
<1> HIDE DEF v
<1>2. ASSUME NEW i \in 1 .. Len(v) PROVE v[i] = d[(r + n) + i]
  <2>1. v[i] = u[n + i] /\ n + i \in 1 .. Len(u)
    BY <1>1
  <2>2. u[n + i] = d[r + (n + i)] /\ r + (n + i) = (r + n) + i
    BY <2>1, SMTT(30)
  <2> QED BY <2>1, <2>2
<1>0. r \in Nat /\ w \in Nat /\ Len(u) \in Nat /\ n \in Nat /\ r + Len(u) = w
  OBVIOUS
<1>3. r + n \in Nat /\ (r + n) + Len(v) = w
  <2> HIDE DEF HoldsAt
  <2>1. Len(v) = Len(u) - n
    BY <1>1
  <2> QED BY <1>0, <2>1
<1>4. HoldsAt(d, r + n, w, v)
  BY <1>1, <1>2, <1>3
<1> QED BY <1>4 DEF v

\* Nothing is left to read, wherever the indices are set to.
LEMMA EmptyAt ==
    ASSUME NEW d \in Seq(Values), NEW r \in 0 .. Len(d), kCheapPrepend <= Len(d)
    PROVE  HoldsAt(d, r, r, <<>>)
BY DEF HoldsAt

\* The writer moves back over n bytes.
LEMMA BackAt ==
    ASSUME NEW d, NEW r, NEW w, NEW u, HoldsAt(d, r, w, u), NEW n \in 0 .. Len(u)
    PROVE  HoldsAt(d, r, w - n, SubSeq(u, 1, Len(u) - n))
<1> DEFINE v == SubSeq(u, 1, Len(u) - n)
<1> USE DEF HoldsAt
<1>1. v \in Seq(Values) /\ Len(v) = Len(u) - n /\ \A i \in 1 .. Len(u) - n : v[i] = u[i]
  OBVIOUS
<1> HIDE DEF v
<1>2. ASSUME NEW i \in 1 .. Len(v) PROVE v[i] = d[r + i]
  BY <1>1
<1>3. w - n \in Nat /\ r + Len(v) = w - n
  BY <1>1
<1>4. HoldsAt(d, r, w - n, v)
  BY <1>1, <1>2, <1>3
<1> QED BY <1>4 DEF v

\* The vector grows.
LEMMA GrowAt ==
    ASSUME NEW d, NEW r, NEW w, NEW u, HoldsAt(d, r, w, u), NEW more \in Nat
    PROVE  HoldsAt(d \o Zeros(more), r, w, u) /\ Len(d \o Zeros(more)) = Len(d) + more
<1> DEFINE e == d \o Zeros(more)
<1> USE DEF HoldsAt
<1>1. /\ e \in Seq(Values) /\ Len(e) = Len(d) + more
      /\ \A i \in 1 .. Len(d) : e[i] = d[i]
  BY ZerosElements, ConcatElements
<1> HIDE DEF e
<1>2. ASSUME NEW i \in 1 .. Len(u) PROVE u[i] = e[r + i]
  <2>1. u[i] = d[r + i] /\ r + i \in 1 .. Len(d)
    OBVIOUS
  <2> QED BY <1>1, <2>1
<1>3. HoldsAt(e, r, w, u) /\ Len(e) = Len(d) + more
  BY <1>1, <1>2, BufferSizes
<1> QED BY <1>3 DEF e

\* The readable bytes are copied to index at.
LEMMA MoveAt ==
    ASSUME NEW d \in Seq(Values), NEW u \in Seq(Values), NEW at \in Nat,
           at + Len(u) <= Len(d), kCheapPrepend <= Len(d)
    PROVE  HoldsAt(Copy(d, at, u), at, at + Len(u), u) /\ Len(Copy(d, at, u)) = Len(d)
<1> DEFINE e == Copy(d, at, u)
<1> USE DEF HoldsAt
<1>1. /\ e \in Seq(Values) /\ Len(e) = Len(d)
      /\ \A i \in 1 .. Len(d) : e[i] = IF i \in at + 1 .. at + Len(u) THEN u[i - at] ELSE d[i]
  BY CopyElements
<1> HIDE DEF e
<1>2. ASSUME NEW i \in 1 .. Len(u) PROVE u[i] = e[at + i]
  <2>1. at + i \in 1 .. Len(d) /\ at + i \in at + 1 .. at + Len(u) /\ (at + i) - at = i
    OBVIOUS
  <2>2. e[at + i] = u[(at + i) - at]
    BY <1>1, <2>1
  <2> QED BY <2>1, <2>2
<1>3. HoldsAt(e, at, at + Len(u), u) /\ Len(e) = Len(d)
  BY <1>1, <1>2
<1> QED BY <1>3 DEF e

\* Bytes are copied behind the readable ones, and the writer moves over them.
LEMMA BehindAt ==
    ASSUME NEW d, NEW r, NEW w, NEW u, HoldsAt(d, r, w, u), NEW s \in Seq(Values),
           w + Len(s) <= Len(d)
    PROVE  HoldsAt(Copy(d, w, s), r, w + Len(s), u \o s)
<1> DEFINE e == Copy(d, w, s)
           v == u \o s
<1> USE DEF HoldsAt
<1>1. /\ e \in Seq(Values) /\ Len(e) = Len(d)
      /\ \A i \in 1 .. Len(d) : e[i] = IF i \in w + 1 .. w + Len(s) THEN s[i - w] ELSE d[i]
  BY CopyElements
<1>2. /\ v \in Seq(Values) /\ Len(v) = Len(u) + Len(s)
      /\ \A i \in 1 .. Len(u) : v[i] = u[i]
      /\ \A i \in Len(u) + 1 .. Len(u) + Len(s) : v[i] = s[i - Len(u)]
  BY ConcatElements
<1>0. /\ r \in Nat /\ w \in Nat /\ Len(u) \in Nat /\ Len(s) \in Nat /\ Len(d) \in Nat
      /\ r + Len(u) = w
  OBVIOUS
<1> HIDE DEF e, v
<1>3. ASSUME NEW i \in 1 .. Len(v) PROVE v[i] = e[r + i]
  <2>1. r + i \in 1 .. Len(d)
    BY <1>2
  <2>2. CASE i <= Len(u)
    <3>1. r + i \notin w + 1 .. w + Len(s) /\ i \in 1 .. Len(u)
      BY <2>2
    <3>2. e[r + i] = d[r + i]
      BY <1>1, <2>1, <3>1
    <3> QED BY <1>2, <3>1, <3>2
  <2>3. CASE ~(i <= Len(u))
    <3>1. /\ r + i \in w + 1 .. w + Len(s) /\ (r + i) - w = i - Len(u)
          /\ i \in Len(u) + 1 .. Len(u) + Len(s)
      <4> HIDE DEF HoldsAt
      <4>1. Len(v) = Len(u) + Len(s)
        BY <1>2
      <4> QED BY <1>0, <2>3, <4>1
    <3>2. e[r + i] = s[(r + i) - w]
      BY <1>1, <2>1, <3>1
    <3> QED BY <1>2, <3>1, <3>2
  <2> QED BY <2>2, <2>3
<1>4. w + Len(s) \in Nat /\ r + Len(v) = w + Len(s)
  <2> HIDE DEF HoldsAt
  <2>1. Len(v) = Len(u) + Len(s)
    BY <1>2
  <2> QED BY <1>0, <2>1
<1>5. HoldsAt(e, r, w + Len(s), v)
  BY <1>1, <1>2, <1>3, <1>4
<1> QED BY <1>5 DEF e, v

\* Bytes are copied in front of the readable ones, and the reader moves back over them.
LEMMA BeforeAt ==
    ASSUME NEW d, NEW r, NEW w, NEW u, HoldsAt(d, r, w, u), NEW s \in Seq(Values), Len(s) <= r
    PROVE  HoldsAt(Copy(d, r - Len(s), s), r - Len(s), w, s \o u)
<1> DEFINE at == r - Len(s)
           e == Copy(d, at, s)
           v == s \o u
<1> USE DEF HoldsAt
<1>1. at \in Nat /\ at + Len(s) = r /\ r <= Len(d)
  OBVIOUS
<1>0. /\ r \in Nat /\ w \in Nat /\ Len(u) \in Nat /\ Len(s) \in Nat /\ Len(d) \in Nat
      /\ r + Len(u) = w
  OBVIOUS
<1> HIDE DEF at
<1>2. /\ e \in Seq(Values) /\ Len(e) = Len(d)
      /\ \A i \in 1 .. Len(d) : e[i] = IF i \in at + 1 .. at + Len(s) THEN s[i - at] ELSE d[i]
  <2>1. d \in Seq(Values) /\ at + Len(s) <= Len(d)
    BY <1>1
  <2> HIDE DEF HoldsAt
  <2> QED BY <1>1, <2>1, CopyElements
<1>3. /\ v \in Seq(Values) /\ Len(v) = Len(s) + Len(u)
      /\ \A i \in 1 .. Len(s) : v[i] = s[i]
      /\ \A i \in Len(s) + 1 .. Len(s) + Len(u) : v[i] = u[i - Len(s)]
  BY ConcatElements
<1> HIDE DEF e, v
<1>4. ASSUME NEW i \in 1 .. Len(v) PROVE v[i] = e[at + i]
  <2>1. at + i \in 1 .. Len(d)
    BY <1>1, <1>3
  <2>2. CASE i <= Len(s)
    <3>1. at + i \in at + 1 .. at + Len(s) /\ (at + i) - at = i /\ i \in 1 .. Len(s)
      BY <1>1, <2>2
    <3>2. e[at + i] = s[(at + i) - at]
      BY <1>2, <2>1, <3>1
    <3> QED BY <1>3, <3>1, <3>2
  <2>3. CASE ~(i <= Len(s))
    <3>1. /\ at + i \notin at + 1 .. at + Len(s) /\ i \in Len(s) + 1 .. Len(s) + Len(u)
          /\ i - Len(s) \in 1 .. Len(u) /\ r + (i - Len(s)) = at + i
      <4> HIDE DEF HoldsAt
      <4>1. Len(v) = Len(s) + Len(u)
        BY <1>3
      <4> QED BY <1>0, <1>1, <2>3, <4>1
    <3>2. e[at + i] = d[at + i]
      BY <1>2, <2>1, <3>1
    <3>3. u[i - Len(s)] = d[r + (i - Len(s))]
      BY <3>1
    <3> QED BY <1>3, <3>1, <3>2, <3>3
  <2> QED BY <2>2, <2>3
<1>5. at + Len(v) = w
  <2> HIDE DEF HoldsAt
  <2>1. Len(v) = Len(s) + Len(u)
    BY <1>3
  <2> QED BY <1>0, <1>1, <2>1
<1>6. HoldsAt(e, at, w, v)
  BY <1>1, <1>2, <1>3, <1>4, <1>5
<1> QED BY <1>6 DEF at, e, v

-----------------------------------------------------------------------------
(***************************************************************************)
(* The operations, one by one.                                             *)
(***************************************************************************)
\* A buffer made of its vector and its two indices.
LEMMA RecordHolds ==
    ASSUME NEW d, NEW r, NEW w, NEW u, HoldsAt(d, r, w, u)
    PROVE  Holds([data |-> d, reader |-> r, writer |-> w], u)
BY DEF Holds

\* The indices of a buffer that holds u, as the operations' arithmetic needs them.
LEMMA Numbers ==
    ASSUME NEW b, NEW u, Holds(b, u)
    PROVE  /\ b = [data |-> b.data, reader |-> b.reader, writer |-> b.writer]
           /\ HoldsAt(b.data, b.reader, b.writer, u)
           /\ b.data \in Seq(Values) /\ u \in Seq(Values)
           /\ b.reader \in Nat /\ b.writer \in Nat /\ Len(u) \in Nat /\ Len(b.data) \in Nat
           /\ b.reader + Len(u) = b.writer /\ b.writer <= Len(b.data)
           /\ kCheapPrepend \in Nat /\ kCheapPrepend <= Len(b.data)
BY BufferSizes DEF Holds, HoldsAt

\* toStringPiece is what the buffer holds (Buffer.h 152-155).
LEMMA PieceIsUnread ==
    ASSUME NEW b, NEW u, Holds(b, u)
    PROVE  toStringPiece(b) = u
<1> DEFINE piece == SubSeq(b.data, b.reader + 1, b.writer)
<1>1. /\ b.reader <= b.writer /\ b.writer - b.reader = Len(u)
      /\ \A i \in 1 .. Len(u) : u[i] = b.data[b.reader + i]
  BY Numbers DEF Holds, HoldsAt
<1>2. /\ piece \in Seq(Values) /\ Len(piece) = b.writer - b.reader
      /\ \A i \in 1 .. b.writer - b.reader : piece[i] = b.data[b.reader + i]
  <2>1. b.data \in Seq(Values) /\ b.reader \in Nat /\ b.writer \in Nat /\ b.writer <= Len(b.data)
    BY Numbers
  <2>2. b.reader <= b.writer
    BY <1>1
  <2> QED BY ONLY <2>1, <2>2, SubSeqElements DEF piece
<1> HIDE DEF piece
<1>3. piece = u
  <2>1. u \in Seq(Values) /\ Len(piece) = Len(u)
    BY <1>1, <1>2, Numbers
  <2> QED BY <1>1, <1>2, <2>1, SameElements
<1> QED BY <1>3 DEF piece, toStringPiece

\* A new buffer is empty (Buffer.h 28-36).
LEMMA NewHolds ==
    ASSUME NEW n \in Nat
    PROVE  Holds(NewBuffer(n), <<>>)
<1> DEFINE d == Zeros(kCheapPrepend + n)
<1>1. kCheapPrepend \in Nat /\ kCheapPrepend + n \in Nat
  BY BufferSizes
<1>2. d \in Seq(Values) /\ Len(d) = kCheapPrepend + n
  BY <1>1, ZerosElements
<1> HIDE DEF d
<1>3. HoldsAt(d, kCheapPrepend, kCheapPrepend, <<>>)
  BY <1>1, <1>2, EmptyAt
<1> QED BY <1>3, RecordHolds DEF d, NewBuffer

\* retrieve of all the bytes or fewer leaves the others (Buffer.h 93-110).
LEMMA RetrieveHolds ==
    ASSUME NEW b, NEW u, Holds(b, u), NEW n \in 0 .. Len(u)
    PROVE  Holds(retrieve(b, n), SubSeq(u, n + 1, Len(u)))
<1>1. CASE n < readableBytes(b)
  <2>1. retrieve(b, n) = [data |-> b.data, reader |-> b.reader + n, writer |-> b.writer]
    BY <1>1, Numbers DEF retrieve
  <2>2. HoldsAt(b.data, b.reader + n, b.writer, SubSeq(u, n + 1, Len(u)))
    BY Numbers, SkipAt
  <2> QED BY <2>1, <2>2, RecordHolds
<1>2. CASE ~(n < readableBytes(b))
  <2>1. retrieve(b, n) = [data |-> b.data, reader |-> kCheapPrepend, writer |-> kCheapPrepend]
    <3>1. retrieve(b, n) = [b EXCEPT !.reader = kCheapPrepend, !.writer = kCheapPrepend]
      BY <1>2 DEF retrieve, retrieveAll
    <3>2. b = [data |-> b.data, reader |-> b.reader, writer |-> b.writer]
      BY Numbers
    <3> QED BY <3>1, <3>2
  <2>2. readableBytes(b) = Len(u)
    BY Numbers DEF readableBytes
  <2>3. n = Len(u)
    BY <1>2, <2>2, Numbers
  <2>4. SubSeq(u, n + 1, Len(u)) = <<>>
    BY <2>3, Numbers
  <2>5. HoldsAt(b.data, kCheapPrepend, kCheapPrepend, <<>>)
    BY Numbers, EmptyAt
  <2> QED BY <2>1, <2>4, <2>5, RecordHolds
<1> QED BY <1>1, <1>2

\* unwrite takes back the bytes written last (Buffer.h 189-193).
LEMMA UnwriteHolds ==
    ASSUME NEW b, NEW u, Holds(b, u), NEW n \in 0 .. Len(u)
    PROVE  Holds(unwrite(b, n), SubSeq(u, 1, Len(u) - n))
<1>1. unwrite(b, n) = [data |-> b.data, reader |-> b.reader, writer |-> b.writer - n]
  BY Numbers DEF unwrite
<1>2. HoldsAt(b.data, b.reader, b.writer - n, SubSeq(u, 1, Len(u) - n))
  BY Numbers, BackAt
<1> QED BY <1>1, <1>2, RecordHolds

\* makeSpace grows the vector or moves the bytes to its front; either way they are all there, and
\* so is the room asked for (Buffer.h 353-376).
LEMMA MakeSpaceHolds ==
    ASSUME NEW b, NEW u, Holds(b, u), NEW len \in Nat, writableBytes(b) < len
    PROVE  Holds(makeSpace(b, len), u) /\ makeSpace(b, len).writer + len <= Len(makeSpace(b, len).data)
<1>1. CASE writableBytes(b) + prependableBytes(b) < len + kCheapPrepend
  <2> DEFINE more == b.writer + len - Len(b.data)
             d == b.data \o Zeros(more)
  <2>1. more \in Nat
    BY Numbers DEF writableBytes
  <2>2. makeSpace(b, len) = [data |-> d, reader |-> b.reader, writer |-> b.writer]
    <3>1. makeSpace(b, len) = [b EXCEPT !.data = d]
      BY <1>1 DEF makeSpace
    <3>2. b = [data |-> b.data, reader |-> b.reader, writer |-> b.writer]
      BY Numbers
    <3> HIDE DEF d
    <3> QED BY <3>1, <3>2
  <2>3. Len(b.data) + more = b.writer + len
    BY Numbers
  <2> HIDE DEF more
  <2>4. HoldsAt(d, b.reader, b.writer, u) /\ Len(d) = Len(b.data) + more
    BY <2>1, Numbers, GrowAt
  <2> HIDE DEF d
  <2>5. b.writer + len <= Len(d)
    BY <2>3, <2>4, Numbers
  <2> QED BY <2>2, <2>4, <2>5, RecordHolds
<1>2. CASE ~(writableBytes(b) + prependableBytes(b) < len + kCheapPrepend)
  <2> DEFINE d == Copy(b.data, kCheapPrepend, u)
  <2>1. makeSpace(b, len) =
          [data |-> d, reader |-> kCheapPrepend, writer |-> kCheapPrepend + readableBytes(b)]
    BY <1>2, PieceIsUnread DEF makeSpace
  <2>2. readableBytes(b) = Len(u)
    BY Numbers DEF readableBytes
  <2>3. /\ kCheapPrepend + Len(u) + len <= Len(b.data)
        /\ kCheapPrepend + Len(u) <= Len(b.data)
    BY <1>2, Numbers DEF writableBytes, prependableBytes
  <2>4. HoldsAt(d, kCheapPrepend, kCheapPrepend + Len(u), u) /\ Len(d) = Len(b.data)
    BY <2>3, Numbers, MoveAt
  <2> HIDE DEF d
  <2>5. (kCheapPrepend + Len(u)) + len <= Len(d)
    BY <2>3, <2>4, Numbers
  <2> QED BY <2>1, <2>2, <2>4, <2>5, RecordHolds
<1> QED BY <1>1, <1>2

\* Room is made only when there is too little (Buffer.h 174-181).
LEMMA EnsureHolds ==
    ASSUME NEW b, NEW u, Holds(b, u), NEW len \in Nat
    PROVE  /\ Holds(enuserWritableBytes(b, len), u)
           /\ enuserWritableBytes(b, len).writer + len <= Len(enuserWritableBytes(b, len).data)
<1>1. CASE writableBytes(b) < len
  BY <1>1, MakeSpaceHolds DEF enuserWritableBytes
<1>2. CASE ~(writableBytes(b) < len)
  <2>1. b.writer + len <= Len(b.data)
    BY <1>2, Numbers DEF writableBytes
  <2> QED BY <1>2, <2>1 DEF enuserWritableBytes
<1> QED BY <1>1, <1>2

\* Bytes copied behind the readable ones, where there is room, and counted by hasWritten.
LEMMA WriteHolds ==
    ASSUME NEW b, NEW u, Holds(b, u), NEW s \in Seq(Values), b.writer + Len(s) <= Len(b.data)
    PROVE  Holds(hasWritten([b EXCEPT !.data = Copy(@, b.writer, s)], Len(s)), u \o s)
<1> DEFINE d == Copy(b.data, b.writer, s)
<1>1. [b EXCEPT !.data = Copy(@, b.writer, s)]
        = [data |-> d, reader |-> b.reader, writer |-> b.writer]
  BY Numbers
<1>2. hasWritten([b EXCEPT !.data = Copy(@, b.writer, s)], Len(s))
        = [data |-> d, reader |-> b.reader, writer |-> b.writer + Len(s)]
  <2> HIDE DEF d
  <2>1. [[data |-> d, reader |-> b.reader, writer |-> b.writer] EXCEPT !.writer = @ + Len(s)]
          = [data |-> d, reader |-> b.reader, writer |-> b.writer + Len(s)]
    OBVIOUS
  <2> QED BY <1>1, <2>1 DEF hasWritten
<1>3. HoldsAt(d, b.reader, b.writer + Len(s), u \o s)
  BY Numbers, BehindAt
<1> QED BY <1>2, <1>3, RecordHolds

\* append (Buffer.h 157-172).
LEMMA AppendHolds ==
    ASSUME NEW b, NEW u, Holds(b, u), NEW s \in Seq(Values)
    PROVE  Holds(append(b, s), u \o s)
<1> DEFINE room == enuserWritableBytes(b, Len(s))
<1>1. Len(s) \in Nat
  OBVIOUS
<1>2. Holds(room, u) /\ room.writer + Len(s) <= Len(room.data)
  BY <1>1, EnsureHolds
<1>3. append(b, s) = hasWritten([room EXCEPT !.data = Copy(@, room.writer, s)], Len(s))
  BY DEF append
<1> HIDE DEF room
<1> QED BY <1>2, <1>3, WriteHolds

\* prepend, within the bytes in front of the readable ones (Buffer.h 292-298).
LEMMA PrependHolds ==
    ASSUME NEW b, NEW u, Holds(b, u), NEW s \in Seq(Values), Len(s) <= prependableBytes(b)
    PROVE  Holds(prepend(b, s), s \o u)
<1>1. prepend(b, s) = [data |-> Copy(b.data, b.reader - Len(s), s), reader |-> b.reader - Len(s),
                       writer |-> b.writer]
  <2> DEFINE d == Copy(b.data, b.reader - Len(s), s)
  <2>1. prepend(b, s) = [b EXCEPT !.reader = b.reader - Len(s), !.data = d]
    BY DEF prepend
  <2>2. b = [data |-> b.data, reader |-> b.reader, writer |-> b.writer]
    BY Numbers
  <2> HIDE DEF d
  <2>3. prepend(b, s) = [data |-> d, reader |-> b.reader - Len(s), writer |-> b.writer]
    BY <2>1, <2>2
  <2> QED BY <2>3 DEF d
<1>2. HoldsAt(Copy(b.data, b.reader - Len(s), s), b.reader - Len(s), b.writer, s \o u)
  BY Numbers, BeforeAt DEF prependableBytes
<1> QED BY <1>1, <1>2, RecordHolds

\* shrink copies the bytes into a new buffer (Buffer.h 327-333).
LEMMA ShrinkHolds ==
    ASSUME NEW b, NEW u, Holds(b, u), NEW reserve \in Nat
    PROVE  Holds(shrink(b, reserve), u)
<1> DEFINE other == enuserWritableBytes(NewBuffer(kInitialSize), readableBytes(b) + reserve)
<1>1. readableBytes(b) + reserve \in Nat
  BY Numbers DEF readableBytes
<1>2. Holds(other, <<>>)
  BY <1>1, NewHolds, EnsureHolds, BufferSizes
<1> HIDE DEF other
<1>3. Holds(append(other, u), <<>> \o u)
  BY <1>2, Numbers, AppendHolds
<1>4. <<>> \o u = u
  BY Numbers
<1>5. shrink(b, reserve) = append(other, u)
  BY PieceIsUnread DEF shrink, other
<1> QED BY <1>3, <1>4, <1>5

\* readFd: the bytes that fit go behind the readable ones, the others are appended
\* (Buffer.cc 11-45).
LEMMA ReadFdHolds ==
    ASSUME NEW b, NEW u, Holds(b, u), NEW s \in Seq(Values)
    PROVE  Holds(readFd(b, s), u \o s)
<1> DEFINE room == writableBytes(b)
           head == SubSeq(s, 1, room)
           tail == SubSeq(s, room + 1, Len(s))
<1>1. room \in Nat /\ b.writer + room = Len(b.data) /\ Len(s) \in Nat
  BY Numbers DEF writableBytes
<1>2. CASE Len(s) <= room
  <2>1. b.writer + Len(s) <= Len(b.data)
    BY <1>1, <1>2, Numbers
  <2> QED BY <1>2, <2>1, WriteHolds DEF readFd
<1>3. CASE ~(Len(s) <= room)
  <2> DEFINE direct == hasWritten([b EXCEPT !.data = Copy(@, b.writer, head)], room)
  <2>1. readFd(b, s) = append(direct, tail)
    BY <1>3 DEF readFd
  <2> HIDE DEF room
  <2>2. head \in Seq(Values) /\ Len(head) = room
    BY <1>1, <1>3
  <2>3. tail \in Seq(Values)
    BY <1>1, <1>3, SubSeqElements
  <2>4. s = head \o tail
    <3>1. 1 \in 1 .. Len(s) + 1 /\ room \in 1 - 1 .. Len(s) /\ Len(s) \in room .. Len(s)
      BY <1>1, <1>3
    <3>2. SubSeq(s, 1, room) \o SubSeq(s, room + 1, Len(s)) = SubSeq(s, 1, Len(s))
      BY <3>1, ConcatAdjacentSubSeq
    <3>3. SubSeq(s, 1, Len(s)) = s
      OBVIOUS
    <3> QED BY <3>2, <3>3
  <2> HIDE DEF head, tail
  <2>5. Holds(direct, u \o head)
    BY <1>1, <2>2, Numbers, WriteHolds, SMTT(30)
  <2> HIDE DEF direct
  <2>6. Holds(append(direct, tail), (u \o head) \o tail)
    BY <2>3, <2>5, AppendHolds
  <2>7. (u \o head) \o tail = u \o (head \o tail)
    <3>1. u \in Seq(Values)
      BY Numbers
    <3> QED BY ONLY <2>2, <2>3, <3>1, Associative
  <2> QED BY <2>1, <2>4, <2>6, <2>7
<1> QED BY <1>2, <1>3

-----------------------------------------------------------------------------
(***************************************************************************)
(* The user's bytes, the steps and the theorem.                            *)
(***************************************************************************)
\* The strings that a user writes are sequences of values.
LEMMA StringsAreValues ==
    ASSUME NEW n \in Nat, NEW s \in Strings(n)
    PROVE  s \in Seq(Values)
<1>1. PICK k \in 0 .. n : s \in [1 .. k -> Bytes]
  BY DEF Strings
<1>2. s \in [1 .. k -> Values] /\ k \in Nat
  BY <1>1 DEF Values
<1> QED BY <1>2

\* An integer in network order is as many values as it is wide (Endian.h 20-33).
LEMMA NetworkIsValues ==
    ASSUME NEW x \in Nat, NEW width \in Nat
    PROVE  hostToNetwork(x, width) \in Seq(Values) /\ Len(hostToNetwork(x, width)) = width
<1>1. ASSUME NEW i \in 1 .. width PROVE (x \div Base^(width - i)) % Base \in Values
  <2>1. width - i \in Nat
    OBVIOUS
  <2> QED BY <2>1 DEF Values
<1>2. hostToNetwork(x, width) \in [1 .. width -> Values]
  BY <1>1 DEF hostToNetwork
<1> QED BY <1>2

\* Every operation of a user keeps BufferInv.
LEMMA BufferStep == BufferInv /\ [BufferNext]_bufferVars => BufferInv'
<1> SUFFICES ASSUME Holds(buffer, unread), got[1] = got[2], [BufferNext]_bufferVars
             PROVE  Holds(buffer', unread') /\ got'[1] = got'[2]
  BY DEF BufferInv
<1>0. toStringPiece(buffer) = unread
  BY PieceIsUnread
<1>1. CASE UNCHANGED bufferVars
  BY <1>1 DEF bufferVars
<1>2. CASE Write
  <2>1. PICK s \in Strings(2) :
          unread' = unread \o s /\ buffer' \in {append(buffer, s), readFd(buffer, s)}
    BY <1>2 DEF Write
  <2>2. s \in Seq(Values)
    BY StringsAreValues
  <2>3. Holds(buffer', unread')
    BY <2>1, <2>2, AppendHolds, ReadFdHolds
  <2> QED BY <1>2, <2>3 DEF Write
<1>3. CASE WriteInt
  <2>0. PICK width \in 1 .. 2 : \E x \in 0 .. Base^width - 1 :
          \/ buffer' = appendInt(buffer, x, width) /\ unread' = unread \o hostToNetwork(x, width)
          \/ /\ width <= prependableBytes(buffer)
             /\ buffer' = prependInt(buffer, x, width) /\ unread' = hostToNetwork(x, width) \o unread
    BY <1>3 DEF WriteInt
  <2>1. PICK x \in 0 .. Base^width - 1 :
          \/ buffer' = appendInt(buffer, x, width) /\ unread' = unread \o hostToNetwork(x, width)
          \/ /\ width <= prependableBytes(buffer)
             /\ buffer' = prependInt(buffer, x, width) /\ unread' = hostToNetwork(x, width) \o unread
    BY <2>0
  <2>2. x \in Nat /\ width \in Nat
    OBVIOUS
  <2>3. hostToNetwork(x, width) \in Seq(Values) /\ Len(hostToNetwork(x, width)) = width
    BY <2>2, NetworkIsValues
  <2>4. Holds(buffer', unread')
    BY <2>1, <2>3, AppendHolds, PrependHolds DEF appendInt, prependInt
  <2> QED BY <1>3, <2>4 DEF WriteInt
<1>4. CASE Read
  <2>1. PICK n \in 0 .. Len(unread) :
          /\ unread' = SubSeq(unread, n + 1, Len(unread))
          /\ buffer' = retrieveAsString(buffer, n).rest
          /\ got' = <<networkToHost(retrieveAsString(buffer, n).bytes),
                      networkToHost(SubSeq(unread, 1, n))>>
    BY <1>4 DEF Read
  <2>2. /\ retrieveAsString(buffer, n).rest = retrieve(buffer, n)
        /\ retrieveAsString(buffer, n).bytes = SubSeq(unread, 1, n)
    BY <1>0 DEF retrieveAsString
  <2> QED BY <2>1, <2>2, RetrieveHolds
<1>5. CASE ReadInt
  <2>1. PICK n \in 1 .. 2 :
          /\ n <= Len(unread)
          /\ buffer' = readInt(buffer, n).rest
          /\ unread' = SubSeq(unread, n + 1, Len(unread))
          /\ got' = <<readInt(buffer, n).value, networkToHost(SubSeq(unread, 1, n))>>
    BY <1>5 DEF ReadInt
  <2>2. /\ readInt(buffer, n).rest = retrieve(buffer, n)
        /\ readInt(buffer, n).value = networkToHost(SubSeq(unread, 1, n))
    BY <1>0 DEF readInt, retrieveInt, peekInt
  <2>3. n \in 0 .. Len(unread)
    BY <2>1, Numbers
  <2> QED BY <2>1, <2>2, <2>3, RetrieveHolds
<1>6. CASE Unwrite
  <2>1. PICK n \in 0 .. Len(unread) :
          unread' = SubSeq(unread, 1, Len(unread) - n) /\ buffer' = unwrite(buffer, n)
    BY <1>6 DEF Unwrite
  <2> QED BY <1>6, <2>1, UnwriteHolds DEF Unwrite
<1>7. CASE Shrink
  <2>1. PICK reserve \in 0 .. 1 : buffer' = shrink(buffer, reserve)
    BY <1>7 DEF Shrink
  <2>2. Holds(buffer', unread)
    BY <2>1, ShrinkHolds
  <2> QED BY <1>7, <2>2 DEF Shrink
<1> QED BY <1>1, <1>2, <1>3, <1>4, <1>5, <1>6, <1>7 DEF BufferNext

\* Whatever is appended, prepended, read from a socket, taken back or moved: the readable part of
\* the vector is the unread bytes, a read returns what was written, and the indices stay within
\* the vector, however large the reserve and the first size are (Buffer.h 45-376, Buffer.cc 11-45).
THEOREM BufferHoldsUnread == BufferStart /\ [][BufferNext]_bufferVars => []HoldsUnread
<1>1. BufferStart => BufferInv
  BY NewHolds, BufferSizes DEF BufferStart, BufferInv
<1>2. BufferInv => HoldsUnread
  <2> SUFFICES ASSUME Holds(buffer, unread), got[1] = got[2] PROVE HoldsUnread
    BY DEF BufferInv
  <2>1. buffer.reader <= buffer.writer /\ buffer.writer <= Len(buffer.data)
    BY Numbers
  <2> QED BY <2>1, PieceIsUnread DEF HoldsUnread
<1> QED BY <1>1, <1>2, BufferStep, PTL

-----------------------------------------------------------------------------
(***************************************************************************)
(* The memcached example.                                                  *)
(***************************************************************************)
\* The cache c is sound and no number is ahead of its counter.
Sound(c) ==
    \A k \in DOMAIN c.items : \A known \in c.seen :
        (known[1] = k /\ known[2] = c.items[k].cas) => known[3] = c.items[k].value
Drawn(c) ==
    /\ \A k \in DOMAIN c.items : c.items[k].cas \in 0 .. c.g_cas
    /\ \A known \in c.seen : known[2] \in 0 .. c.g_cas
CasOK(c) ==
    /\ {"items", "g_cas", "seen"} \subseteq DOMAIN c
    /\ c.g_cas \in Nat
    /\ Drawn(c)
    /\ Sound(c)

CasInv == CasOK(cache)

-----------------------------------------------------------------------------
\* A change to the other fields, the sessions, stopping and quit, does not matter.
LEMMA OtherFields ==
    ASSUME NEW c, CasOK(c), NEW d,
           DOMAIN d = DOMAIN c, d.items = c.items, d.g_cas = c.g_cas, d.seen = c.seen
    PROVE  CasOK(d)
BY DEF CasOK, Drawn, Sound

\* What a turn leaves in a session does not matter (Session.cc 75-139).
LEMMA TurnSound ==
    ASSUME NEW s, NEW c, CasOK(c), NEW ss, Turn(s, c, ss)
    PROVE  CasOK(cache')
<1>1. cache' = [c EXCEPT !.session[s] = ss]
  BY DEF Turn
<1>2. DOMAIN cache' = DOMAIN c /\ cache'.items = c.items /\ cache'.g_cas = c.g_cas
      /\ cache'.seen = c.seen
  BY <1>1 DEF CasOK
<1> QED BY <1>2, OtherFields

\* deleteItem (MemcacheServer.cc 150-157) takes an item away and draws no number.
LEMMA DeleteSound ==
    ASSUME NEW c, CasOK(c), NEW key
    PROVE  CasOK(deleteItem(c, key))
<1> DEFINE d == deleteItem(c, key)
<1>1. /\ DOMAIN d = DOMAIN c /\ d.g_cas = c.g_cas /\ d.seen = c.seen
      /\ d.items = Without(c.items, key)
  BY DEF deleteItem, CasOK
<1>2. /\ DOMAIN d.items = DOMAIN c.items \ {key}
      /\ \A k \in DOMAIN d.items : d.items[k] = c.items[k]
  BY <1>1 DEF Without, Restrict
<1> HIDE DEF d
<1>3. CasOK(d)
  BY <1>1, <1>2 DEF CasOK, Drawn, Sound
<1> QED BY <1>3 DEF d

\* Put (MemcacheServer.cc 56-64): the number of the new item is one that no client has seen.
LEMMA PutSound ==
    ASSUME NEW c, CasOK(c), NEW key, NEW value
    PROVE  CasOK(Put(c, key, value))
<1> DEFINE d == Put(c, key, value)
           item == [value |-> value, cas |-> c.g_cas + 1]
<1>1. /\ DOMAIN d = DOMAIN c /\ d.g_cas = c.g_cas + 1 /\ d.seen = c.seen
      /\ d.items = WithItem(c.items, key, item)
  BY DEF Put, CasOK
<1>2. /\ DOMAIN d.items = DOMAIN c.items \cup {key}
      /\ d.items[key] = item
      /\ \A k \in DOMAIN d.items : k # key => k \in DOMAIN c.items /\ d.items[k] = c.items[k]
  BY <1>1 DEF WithItem
<1>3. item.cas = c.g_cas + 1 /\ c.g_cas \in Nat
  BY DEF CasOK
<1> HIDE DEF d, item
<1>4. Drawn(d)
  BY <1>1, <1>2, <1>3 DEF CasOK, Drawn
<1>5. Sound(d)
  <2> SUFFICES ASSUME NEW k \in DOMAIN d.items, NEW known \in d.seen,
                      known[1] = k, known[2] = d.items[k].cas
               PROVE  known[3] = d.items[k].value
    BY DEF Sound
  <2>1. known[2] \in 0 .. c.g_cas
    BY <1>1 DEF CasOK, Drawn
  <2>2. k # key
    BY <1>2, <1>3, <2>1
  <2> QED BY <1>1, <1>2, <2>2 DEF CasOK, Sound
<1>6. CasOK(d)
  BY <1>1, <1>3, <1>4, <1>5 DEF CasOK
<1> QED BY <1>6 DEF d

\* storeItem (MemcacheServer.cc 48-138) changes nothing or draws a new number.
LEMMA StoreSound ==
    ASSUME NEW c, CasOK(c), NEW command, NEW value
    PROVE  CasOK(storeItem(c, command, value))
BY PutSound DEF storeItem

\* A gets (Session.cc 242-274) tells a client the number and the value of an item together.
LEMMA LearnSound ==
    ASSUME NEW c, CasOK(c), NEW key \in DOMAIN c.items, NEW learnt,
           learnt \subseteq {<<key, c.items[key].cas, c.items[key].value>>}
    PROVE  CasOK([c EXCEPT !.seen = @ \cup learnt])
<1> DEFINE d == [c EXCEPT !.seen = @ \cup learnt]
<1>1. /\ DOMAIN d = DOMAIN c /\ d.g_cas = c.g_cas /\ d.items = c.items
      /\ d.seen = c.seen \cup learnt
  BY DEF CasOK
<1> HIDE DEF d
<1>2. \A known \in d.seen :
        \/ known \in c.seen
        \/ known[1] = key /\ known[2] = c.items[key].cas /\ known[3] = c.items[key].value
  BY <1>1
<1>3. Drawn(d)
  BY <1>1, <1>2 DEF CasOK, Drawn
<1>4. Sound(d)
  BY <1>1, <1>2 DEF CasOK, Sound
<1>5. CasOK(d)
  BY <1>1, <1>3, <1>4 DEF CasOK
<1> QED BY <1>5 DEF d

-----------------------------------------------------------------------------
\* Every step of the server keeps CasOK: one case for each turn of onMessage.
LEMMA CasStep == CasInv /\ [CacheNext]_cache => CasInv'
<1> SUFFICES ASSUME CasOK(cache), [CacheNext]_cache PROVE CasOK(cache')
  BY DEF CasInv
<1>1. CASE UNCHANGED cache
  BY <1>1
<1>2. ASSUME NEW s \in Sessions, ReadMessage(s) PROVE CasOK(cache')
  BY <1>2, TurnSound DEF ReadMessage
<1>3. ASSUME NEW s \in Sessions, processRequest(s) PROVE CasOK(cache')
  <2> DEFINE before == cache.session[s]
             ss == [before EXCEPT !.input = RetrieveLine(@), !.command = RequestOf(Line(before.input))]
  <2>6. ASSUME Aborts PROVE CasOK(cache')
    <3>1. cache' = [cache EXCEPT !.quit = TRUE]
      BY <2>6 DEF Aborts
    <3>2. DOMAIN cache' = DOMAIN cache /\ cache'.items = cache.items
          /\ cache'.g_cas = cache.g_cas /\ cache'.seen = cache.seen
      BY <3>1 DEF CasOK
    <3> QED BY <3>2, OtherFields
  <2>1. \/ doUpdate(s, ss) \/ doDelete(s, ss)
        \/ \E next : Turn(s, cache, next)
        \/ \E next : Turn(s, [cache EXCEPT !.stopping = TRUE], next)
    BY <1>3 DEF processRequest
  <2> HIDE DEF ss
  <2>2. CASE doUpdate(s, ss)
    <3>1. \/ Aborts
          \/ \E next : Turn(s, cache, next)
          \/ \E key, next : Turn(s, deleteItem(cache, key), next)
      BY <2>2 DEF doUpdate
    <3> QED BY <2>6, <3>1, TurnSound, DeleteSound
  <2>3. CASE doDelete(s, ss)
    <3>1. \/ Aborts
          \/ \E next : Turn(s, cache, next)
          \/ \E key, next : Turn(s, deleteItem(cache, key), next)
      BY <2>3 DEF doDelete
    <3> QED BY <2>6, <3>1, TurnSound, DeleteSound
  <2>4. ASSUME NEW next, Turn(s, cache, next) PROVE CasOK(cache')
    BY <2>4, TurnSound
  <2>5. ASSUME NEW next, Turn(s, [cache EXCEPT !.stopping = TRUE], next) PROVE CasOK(cache')
    <3>1. CasOK([cache EXCEPT !.stopping = TRUE])
      BY OtherFields DEF CasOK
    <3> QED BY <2>5, <3>1, TurnSound
  <2> QED BY <2>1, <2>2, <2>3, <2>4, <2>5
<1>4. ASSUME NEW s \in Sessions, getItem(s) PROVE CasOK(cache')
  <2> DEFINE key == Head(cache.session[s].command.keys)
             item == cache.items[key]
             learnt == IF cache.session[s].command.op = "gets"
                       THEN {<<key, item.cas, item.value>>} ELSE {}
  <2>1. \/ \E next : Turn(s, cache, next)
        \/ /\ key \in DOMAIN cache.items
           /\ \E next : Turn(s, [cache EXCEPT !.seen = @ \cup learnt], next)
    BY <1>4 DEF getItem
  <2>2. ASSUME NEW next, Turn(s, cache, next) PROVE CasOK(cache')
    BY <2>2, TurnSound
  <2>3. ASSUME key \in DOMAIN cache.items,
               NEW next, Turn(s, [cache EXCEPT !.seen = @ \cup learnt], next)
        PROVE  CasOK(cache')
    <3>1. learnt \subseteq {<<key, item.cas, item.value>>}
      OBVIOUS
    <3> HIDE DEF learnt, key
    <3>2. CasOK([cache EXCEPT !.seen = @ \cup learnt])
      BY <2>3, <3>1, LearnSound
    <3> QED BY <2>3, <3>2, TurnSound
  <2> QED BY <2>1, <2>2, <2>3
<1>5. ASSUME NEW s \in Sessions, receiveValue(s) PROVE CasOK(cache')
  <2>1. \/ \E next : Turn(s, cache, next)
        \/ \E command, value, next : Turn(s, storeItem(cache, command, value), next)
    BY <1>5 DEF receiveValue
  <2> QED BY <2>1, TurnSound, StoreSound
<1>6. ASSUME NEW s \in Sessions, discardValue(s) PROVE CasOK(cache')
  BY <1>6, TurnSound DEF discardValue
<1>7. ASSUME NEW s \in Sessions, lineTooLong(s) \/ Disconnected(s) PROVE CasOK(cache')
  BY <1>7, TurnSound DEF lineTooLong, Disconnected
<1>8. CASE stopServer
  <2>1. cache' = [cache EXCEPT !.quit = TRUE]
    BY <1>8 DEF stopServer
  <2>2. DOMAIN cache' = DOMAIN cache /\ cache'.items = cache.items
        /\ cache'.g_cas = cache.g_cas /\ cache'.seen = cache.seen
    BY <2>1 DEF CasOK
  <2> QED BY <2>2, OtherFields
<1> QED BY <1>1, <1>2, <1>3, <1>4, <1>5, <1>6, <1>7, <1>8 DEF CacheNext

\* What a client learnt from gets stays true as long as the number does: a cas that succeeds
\* replaces exactly the value that its client saw, whatever other sessions stored, appended or
\* deleted in between (MemcacheServer.cc 48-157, Session.cc 242-349).
THEOREM CasIsSound ==
    ASSUME NEW CONSTANT scripts
    PROVE  CacheStart(scripts) /\ [][CacheNext]_cache => []CasSound
<1>1. CacheStart(scripts) => CasInv
  BY DEF CacheStart, CasInv, CasOK, Drawn, Sound
<1>2. CasInv => CasSound
  BY DEF CasInv, CasOK, Sound, CasSound
<1> QED BY <1>1, <1>2, CasStep, PTL

-----------------------------------------------------------------------------
(***************************************************************************)
(* The commands of the clients.  K is the set of keys.                     *)
(***************************************************************************)
Ops == Updates \cup {"", "get", "gets", "delete", "quit", "shutdown", "version", "unknown"}
CommandToken(K) ==
    [text : {"command"}, op : Ops, keys : Seq(K), good : BOOLEAN, bytes : Int, cas : Nat,
     noreply : BOOLEAN]
Token(K) == CommandToken(K) \cup [text : STRING \ {"command"}]

Replies ==
    {"CLIENT_ERROR", "SERVER_ERROR", "ERROR", "STORED", "EXISTS", "NOT_FOUND", "DELETED", "VERSION", "END",
     "VALUE"}
States == {"kNewCommand", "kReceiveValue", "kDiscardValue", "get"}
SessionRecord(K) ==
    [wire : Seq(Token(K)), sent : Seq(Token(K)), input : Seq(Token(K)),
     state : States, command : CommandToken(K),
     value : Seq(Token(K)), valuelen : Int, bytesToDiscard : Nat,
     outputBuf : Seq(Replies), output : Seq(Replies), misread : BOOLEAN, connected : BOOLEAN, alive : BOOLEAN,
     done : Seq([command : CommandToken(K), value : Seq(Token(K))])]

\* The parser is behind the first p tokens of script: input and then wire are the others.
At(script, p, input, wire) ==
    /\ p + Len(input) + Len(wire) = Len(script)
    /\ \A i \in 1 .. Len(input) : input[i] = script[p + i]
    /\ \A i \in 1 .. Len(wire) : wire[i] = script[p + Len(input) + i]

AllCommands(script) == CommandsUpTo(script, Len(script))
Count(script, j) == Cardinality(CommandsUpTo(script, j))

\* What is done is what was sent.
DoneAs(script, done) ==
    \A i \in DOMAIN done : \E j \in AllCommands(script) :
        /\ Count(script, j) = i
        /\ done[i].command.op = script[j].op
        /\ done[i].value = ValueSent(script, j)

\* Between two commands, with p tokens read.
Between(script, p, ss) ==
    /\ ss.state = "kNewCommand" /\ ss.value = <<>>
    /\ NextAfter(script, p)
    /\ Len(ss.done) = Count(script, p)

\* Within the command at j: before END, or with a part of its value read.
Within(script, p, j, ss) ==
    /\ p >= j + 2 /\ ss.command.op = script[j].op /\ ~Unfit(script[j])
    /\ Len(ss.done) + 1 = Count(script, j)
    /\ \/ ss.state = "get" /\ p = EndOf(script, j) /\ ss.value = ValueSent(script, j)
       \/ /\ ss.state = "kReceiveValue" /\ HasValue(script[j]) /\ ss.valuelen = script[j].bytes + 2
          /\ EndOf(script, j) = j + 4 + script[j].bytes /\ p < EndOf(script, j)
          /\ ss.value = SubSeq(script, j + 3, p)
          /\ ValueSent(script, j) = SubSeq(script, j + 3, EndOf(script, j))
       \/ /\ ss.state = "kDiscardValue" /\ ss.value = ValueSent(script, j)
          /\ p + ss.bytesToDiscard = EndOf(script, j) /\ p < EndOf(script, j)

\* A session with p tokens of its client's script read.
Follows(K, script, p, ss) ==
    /\ ss \in SessionRecord(K) /\ ss.sent = script /\ ~ss.misread
    /\ At(script, p, ss.input, ss.wire)
    /\ DoneAs(script, ss.done)
    /\ \/ Between(script, p, ss)
       \/ \E j \in AllCommands(script) : Within(script, p, j, ss)

\* The command at j is carried out and all of it is read.
Over(K, script, j, ss) ==
    /\ ss \in SessionRecord(K) /\ ss.sent = script /\ ~ss.misread /\ ~Unfit(script[j])
    /\ At(script, EndOf(script, j), ss.input, ss.wire)
    /\ DoneAs(script, ss.done)
    /\ ss.command.op = script[j].op
    /\ Len(ss.done) + 1 = Count(script, j)
    /\ ss.value = ValueSent(script, j)

\* The line of the command at j is read and nothing else is done.
Taken(K, script, j, ss) ==
    /\ ss \in SessionRecord(K) /\ ss.sent = script /\ ~ss.misread
    /\ At(script, j + 2, ss.input, ss.wire)
    /\ DoneAs(script, ss.done)
    /\ ss.command = script[j]
    /\ Len(ss.done) + 1 = Count(script, j)
    /\ ss.value = <<>>

SessionOK(K, script, ss) == \E p \in Nat : Follows(K, script, p, ss)

\* A session that has read a size that does not fit.
Misread(script, ss) ==
    /\ {"sent", "misread"} \subseteq DOMAIN ss /\ ss.sent = script /\ ss.misread
    /\ \E j \in AllCommands(script) : Unfit(script[j])

\* The sessions of the cache c follow their scripts as long as the sizes fit.
CacheOK(K, scripts, c) ==
    /\ {"items", "g_cas", "stopping", "quit", "seen", "session"} \subseteq DOMAIN c
    /\ DOMAIN c.session = Sessions
    /\ \A s \in Sessions : Misread(scripts[s], c.session[s]) \/ SessionOK(K, scripts[s], c.session[s])

-----------------------------------------------------------------------------
\* What a token is.
LEMMA TokenText ==
    ASSUME NEW K, NEW t \in Token(K)
    PROVE  (t.text = "command") <=> (t \in CommandToken(K))
BY DEF Token, CommandToken

\* CR and LF are no commands, and NoCommand is one.
LEMMA CRLFAreTokens ==
    ASSUME NEW K
    PROVE  /\ CR.text # "command" /\ LF.text # "command"
           /\ NoCommand \in CommandToken(K)
<1>1. CR.text # "command" /\ LF.text # "command"
  BY DEF CR, LF
<1>2. <<>> \in Seq(K)
  OBVIOUS
<1>3. "" \in Ops
  BY DEF Ops
<1>4. 0 \in Nat /\ 0 \in Int /\ TRUE \in BOOLEAN /\ FALSE \in BOOLEAN
  OBVIOUS
<1>5. NoCommand \in CommandToken(K)
  BY <1>2, <1>3, <1>4 DEF NoCommand, CommandToken
<1> QED BY <1>1, <1>5

\* What a command of a script is.
LEMMA CommandsAre ==
    ASSUME NEW K, NEW script \in Seq(Token(K)), NEW j \in AllCommands(script)
    PROVE  /\ j \in 1 .. Len(script) /\ script[j] \in CommandToken(K)
           /\ script[j].op \in Ops /\ script[j].bytes \in Int /\ script[j].good \in BOOLEAN
           /\ HasValue(script[j]) /\ ~Unfit(script[j]) => script[j].bytes \in Nat
           /\ ~Unfit(script[j]) => EndOf(script, j) \in Nat /\ EndOf(script, j) >= j + 2
<1>1. j \in 1 .. Len(script) /\ script[j].text = "command"
  BY DEF AllCommands, CommandsUpTo, CommandAt
<1>2. script[j] \in Token(K)
  BY <1>1
<1>3. script[j] \in CommandToken(K)
  BY <1>1, <1>2, TokenText
<1>4. script[j].op \in Ops /\ script[j].bytes \in Int /\ script[j].good \in BOOLEAN
  BY <1>3 DEF CommandToken
<1>5. PICK b \in Int : b = script[j].bytes
  BY <1>4
<1>6. HasValue(script[j]) /\ ~Unfit(script[j]) => b \in Nat
  BY <1>5 DEF Unfit, Fits
<1>7. ~Unfit(script[j]) => EndOf(script, j) \in Nat /\ EndOf(script, j) >= j + 2
  BY <1>1, <1>5, <1>6 DEF EndOf
<1> QED BY <1>1, <1>3, <1>4, <1>5, <1>6, <1>7

\* Commands can be counted.
LEMMA CountFinite ==
    ASSUME NEW script, NEW j \in Nat
    PROVE  IsFiniteSet(CommandsUpTo(script, j)) /\ Count(script, j) \in Nat
<1>1. IsFiniteSet(1 .. j)
  BY FS_Interval
<1>2. CommandsUpTo(script, j) \subseteq 1 .. j
  BY DEF CommandsUpTo
<1>3. IsFiniteSet(CommandsUpTo(script, j))
  BY <1>1, <1>2, FS_Subset
<1> QED BY <1>3, FS_CardinalityType DEF Count

\* A further command is counted.
LEMMA CountNext ==
    ASSUME NEW script, NEW j \in Nat, CommandAt(script, j + 1)
    PROVE  Count(script, j + 1) = Count(script, j) + 1
<1>1. CommandsUpTo(script, j + 1) = CommandsUpTo(script, j) \cup {j + 1}
  BY DEF CommandsUpTo
<1>2. j + 1 \notin CommandsUpTo(script, j)
  BY DEF CommandsUpTo
<1>3. IsFiniteSet(CommandsUpTo(script, j))
  BY CountFinite
<1> QED BY <1>1, <1>2, <1>3, FS_AddElement DEF Count

\* Tokens that are no commands are not counted.
LEMMA CountSame ==
    ASSUME NEW script, NEW j \in Nat, NEW e \in Nat, j <= e,
           \A k \in j + 1 .. e : ~CommandAt(script, k)
    PROVE  Count(script, e) = Count(script, j)
<1>1. CommandsUpTo(script, e) = CommandsUpTo(script, j)
  BY DEF CommandsUpTo
<1> QED BY <1>1 DEF Count

\* The end of the line of a command.
LEMMA LineEnds ==
    ASSUME NEW script, Written(script), NEW j \in AllCommands(script)
    PROVE  j + 2 <= Len(script) /\ script[j + 1] = CR /\ script[j + 2] = LF
BY DEF Written, AllCommands

\* The end of a command, as it was written.
LEMMA EndCounts ==
    ASSUME NEW K, NEW script \in Seq(Token(K)), Written(script), NEW j \in AllCommands(script),
           ~Unfit(script[j])
    PROVE  /\ EndOf(script, j) <= Len(script)
           /\ script[j + 1] = CR /\ script[j + 2] = LF
           /\ NextAfter(script, EndOf(script, j))
           /\ Count(script, EndOf(script, j)) = Count(script, j)
<1>1. /\ EndOf(script, j) <= Len(script)
      /\ script[j + 1] = CR /\ script[j + 2] = LF
      /\ \A k \in j + 3 .. EndOf(script, j) : ~CommandAt(script, k)
      /\ NextAfter(script, EndOf(script, j))
  BY DEF Written, AllCommands
<1>2. j \in Nat /\ EndOf(script, j) \in Nat /\ EndOf(script, j) >= j + 2
  BY CommandsAre
<1>3. ~CommandAt(script, j + 1) /\ ~CommandAt(script, j + 2)
  BY <1>1, CRLFAreTokens DEF CommandAt
<1>4. \A k \in j + 1 .. EndOf(script, j) : k = j + 1 \/ k = j + 2 \/ k \in j + 3 .. EndOf(script, j)
  BY <1>2
<1>5. \A k \in j + 1 .. EndOf(script, j) : ~CommandAt(script, k)
  BY <1>1, <1>3, <1>4
<1>6. Count(script, EndOf(script, j)) = Count(script, j)
  BY <1>2, <1>5, CountSame
<1> QED BY <1>1, <1>6

-----------------------------------------------------------------------------
(***************************************************************************)
(* Where the parser is in the stream.                                      *)
(***************************************************************************)
\* Arithmetic of the proofs below, by itself.
LEMMA Sums ==
    ASSUME NEW p \in Nat, NEW l \in Nat, NEW w \in Nat, NEW n \in 0 .. w
    PROVE  /\ p + (l + n) + (w - n) = p + l + w
           /\ \A i \in 1 .. w - n : n + i \in 1 .. w /\ p + l + (n + i) = p + (l + n) + i
BY SMT

\* Where element i of a part and of what follows it comes from.
LEMMA Shifts ==
    ASSUME NEW p \in Nat, NEW q \in Nat, NEW n \in Nat, q <= p, NEW i \in 1 .. p + n - q, i > p - q
    PROVE  /\ i - (p - q) \in 1 .. n /\ p + (i - (p - q)) = q + i
           /\ i \in (p - q) + 1 .. (p - q) + n
BY SMT

\* q tokens are before the value of the command at j, p are read, and the value ends at e.
NeedsIs(j, b, p, q, e) ==
    /\ q <= p /\ j + 3 = q + 1 /\ b + 2 - (p - q) = e - p /\ e - p \in Nat
    /\ \A a \in Nat : a <= e - p => p + a \in Nat /\ p + a <= e /\ p + a >= j + 2

\* A value that is p - q tokens long needs those up to its end.
LEMMA Needs ==
    ASSUME NEW j \in Nat, NEW b \in Nat, NEW p \in Nat, NEW q \in Nat, NEW e \in Nat,
           q = j + 2, e = j + 4 + b, p >= q, p < e
    PROVE  NeedsIs(j, b, p, q, e)
BY SMT DEF NeedsIs

\* retrieve(n) goes on by n tokens.
LEMMA RetrieveAt ==
    ASSUME NEW T, NEW script \in Seq(T), NEW p \in Nat, NEW input \in Seq(T), NEW wire \in Seq(T),
           At(script, p, input, wire), NEW n \in 0 .. Len(input)
    PROVE  /\ Retrieve(input, n) \in Seq(T) /\ Len(Retrieve(input, n)) = Len(input) - n
           /\ At(script, p + n, Retrieve(input, n), wire)
<1> DEFINE rest == Retrieve(input, n)
<1>1. /\ rest \in Seq(T) /\ Len(rest) = Len(input) - n
      /\ \A i \in 1 .. Len(input) - n : rest[i] = input[n + i]
  BY DEF Retrieve
<1>2. Len(input) \in Nat /\ Len(wire) \in Nat
  OBVIOUS
<1> HIDE DEF rest
<1>3. p + n + Len(rest) = p + Len(input)
  BY <1>1, <1>2
<1>4. \A i \in 1 .. Len(rest) : rest[i] = script[p + n + i]
  <2> SUFFICES ASSUME NEW i \in 1 .. Len(rest) PROVE rest[i] = script[p + n + i]
    OBVIOUS
  <2>1. n + i \in 1 .. Len(input) /\ p + (n + i) = p + n + i
    BY <1>1, <1>2
  <2> QED BY <1>1, <1>2, <2>1 DEF At
<1>5. At(script, p + n, rest, wire)
  BY <1>2, <1>3, <1>4 DEF At
<1> QED BY <1>1, <1>5 DEF rest

\* What \o returns.
LEMMA JoinedElements ==
    ASSUME NEW T, NEW s \in Seq(T), NEW t \in Seq(T)
    PROVE  /\ s \o t \in Seq(T)
           /\ Len(s \o t) = Len(s) + Len(t)
           /\ \A i \in 1 .. Len(s) : (s \o t)[i] = s[i]
           /\ \A i \in Len(s) + 1 .. Len(s) + Len(t) : (s \o t)[i] = t[i - Len(s)]
OBVIOUS

\* Tokens that arrive move from the wire to the input.
LEMMA ArriveAt ==
    ASSUME NEW T, NEW script \in Seq(T), NEW p \in Nat, NEW input \in Seq(T), NEW wire \in Seq(T),
           At(script, p, input, wire), NEW n \in 1 .. Len(wire)
    PROVE  /\ input \o SubSeq(wire, 1, n) \in Seq(T) /\ Retrieve(wire, n) \in Seq(T)
           /\ At(script, p, input \o SubSeq(wire, 1, n), Retrieve(wire, n))
<1> DEFINE rest == Retrieve(wire, n)
           new == SubSeq(wire, 1, n)
           all == input \o new
<1>1. /\ rest \in Seq(T) /\ Len(rest) = Len(wire) - n
      /\ \A i \in 1 .. Len(wire) - n : rest[i] = wire[n + i]
  BY DEF Retrieve
<1>2. Len(input) \in Nat /\ Len(wire) \in Nat
  OBVIOUS
<1>3. new \in Seq(T) /\ Len(new) = n /\ \A i \in 1 .. n : new[i] = wire[i]
  OBVIOUS
<1>4. new \in Seq(T) /\ Len(new) = n /\ Len(rest) = Len(wire) - n
  BY <1>1, <1>3
<1> HIDE DEF rest, new
<1>5. /\ all \in Seq(T) /\ Len(all) = Len(input) + Len(new)
      /\ \A i \in 1 .. Len(input) : all[i] = input[i]
      /\ \A i \in Len(input) + 1 .. Len(input) + Len(new) : all[i] = new[i - Len(input)]
  BY <1>4, JoinedElements
<1> HIDE DEF all
<1>6. p + Len(all) + Len(rest) = Len(script)
  <2>1. p + Len(input) + Len(wire) = Len(script)
    BY DEF At
  <2>2. Len(all) = Len(input) + n
    BY <1>4, <1>5
  <2>3. n \in Nat /\ Len(all) \in Nat /\ Len(rest) \in Nat /\ Len(script) \in Nat
    BY <1>1, <1>5
  <2>4. Len(rest) = Len(wire) - n
    BY <1>1
  <2>5. p + (Len(input) + n) + (Len(wire) - n) = Len(script)
    <3>1. n \in 0 .. Len(wire)
      BY <1>2
    <3> QED BY <1>2, <2>1, <3>1, Sums
  <2> QED BY <2>2, <2>4, <2>5
<1>7. ASSUME NEW i \in 1 .. Len(all) PROVE all[i] = script[p + i]
  <2>1. CASE i <= Len(input)
    BY <1>2, <1>5, <2>1 DEF At
  <2>2. CASE i > Len(input)
    <3>1. i \in Len(input) + 1 .. Len(input) + n /\ i - Len(input) \in 1 .. n
          /\ i - Len(input) \in 1 .. Len(wire) /\ p + Len(input) + (i - Len(input)) = p + i
      BY <1>2, <1>3, <1>5, <2>2
    <3>2. all[i] = wire[i - Len(input)]
      BY <1>3, <1>5, <3>1
    <3>3. wire[i - Len(input)] = script[p + Len(input) + (i - Len(input))]
      BY <3>1 DEF At
    <3> QED BY <3>1, <3>2, <3>3
  <2> QED BY <1>2, <1>5, <2>1, <2>2
<1>8. ASSUME NEW i \in 1 .. Len(rest) PROVE rest[i] = script[p + Len(all) + i]
  <2>1. n + i \in 1 .. Len(wire) /\ p + Len(input) + (n + i) = p + Len(all) + i
    <3>1. n \in 0 .. Len(wire) /\ i \in 1 .. Len(wire) - n /\ Len(all) = Len(input) + n
      BY <1>1, <1>2, <1>3, <1>5
    <3> QED BY <1>2, <3>1, Sums
  <2>2. rest[i] = wire[n + i]
    BY <1>1
  <2>3. wire[n + i] = script[p + Len(input) + (n + i)]
    BY <2>1 DEF At
  <2> QED BY <2>1, <2>2, <2>3
<1>9. At(script, p, all, rest)
  BY <1>6, <1>7, <1>8 DEF At
<1> QED BY <1>1, <1>5, <1>9 DEF all, rest, new

\* A CR LF is where both tokens are.
LEMMA CRLFAt ==
    ASSUME NEW T, NEW s \in Seq(T), NEW i \in 1 .. Len(s) - 1
    PROVE  (SubSeq(s, i, i + 1) = CRLF) <=> (s[i] = CR /\ s[i + 1] = LF)
<1>1. Len(s) \in Nat /\ i \in Nat
  OBVIOUS
<1>2. /\ SubSeq(s, i, i + 1) \in Seq(T) /\ Len(SubSeq(s, i, i + 1)) = 2
      /\ SubSeq(s, i, i + 1)[1] = s[i] /\ SubSeq(s, i, i + 1)[2] = s[i + 1]
  BY <1>1
<1>3. Len(CRLF) = 2 /\ CRLF[1] = CR /\ CRLF[2] = LF
  BY DEF CRLF
<1>4. ASSUME s[i] = CR, s[i + 1] = LF PROVE SubSeq(s, i, i + 1) = CRLF
  <2>1. \A k \in 1 .. 2 : SubSeq(s, i, i + 1)[k] = CRLF[k]
    BY <1>2, <1>3, <1>4
  <2>2. CR \in T /\ LF \in T
    BY <1>1, <1>4
  <2>3. CRLF \in Seq(T)
    BY <2>2 DEF CRLF
  <2> QED BY <1>2, <1>3, <2>1, <2>3, SeqEqual
<1> QED BY <1>2, <1>3, <1>4

\* A token of the input is one of the script.
LEMMA InputAt ==
    ASSUME NEW T, NEW script \in Seq(T), NEW p \in Nat, NEW input \in Seq(T), NEW wire \in Seq(T),
           At(script, p, input, wire), NEW i \in 1 .. Len(input)
    PROVE  input[i] = script[p + i] /\ p + i \in p + 1 .. Len(script) /\ Len(script) \in Nat
BY DEF At

\* A command whose line has arrived is found.
LEMMA LineFound ==
    ASSUME NEW K, NEW script \in Seq(Token(K)), Written(script), NEW p \in Nat,
           NEW input \in Seq(Token(K)), NEW wire \in Seq(Token(K)),
           At(script, p, input, wire), p + 1 \in AllCommands(script), Len(input) >= 3
    PROVE  findCRLF(input) = 2 /\ input[1] = script[p + 1]
<1> DEFINE places == {i \in 1 .. Len(input) - 1 : SubSeq(input, i, i + 1) = CRLF}
<1>1. Len(input) \in Nat /\ 1 \in 1 .. Len(input) /\ 2 \in 1 .. Len(input) /\ 3 \in 1 .. Len(input)
  OBVIOUS
<1>2. input[1] = script[p + 1] /\ input[2] = script[p + 2] /\ input[3] = script[p + 3]
  BY <1>1, InputAt
<1>3. script[p + 1 + 1] = CR /\ script[p + 1 + 2] = LF
  BY LineEnds
<1>4. input[2] = CR /\ input[3] = LF
  BY <1>2, <1>3
<1>5. script[p + 1].text = "command"
  BY DEF AllCommands, CommandsUpTo, CommandAt
<1>6. input[1] # CR
  BY <1>2, <1>5, CRLFAreTokens
<1>7. 2 \in places
  <2>1. 2 \in 1 .. Len(input) - 1 /\ 2 + 1 = 3
    BY <1>1
  <2> QED BY <1>4, <2>1, CRLFAt
<1>8. \A k \in places : k \in Nat /\ k >= 2
  <2> SUFFICES ASSUME NEW k \in places, k = 1 PROVE FALSE
    BY <1>1
  <2>1. 1 \in 1 .. Len(input) - 1 /\ SubSeq(input, 1, 1 + 1) = CRLF
    OBVIOUS
  <2> QED BY <1>6, <2>1, CRLFAt
<1>9. findCRLF(input) = Min(places)
  BY <1>7 DEF findCRLF
<1> HIDE DEF places
<1>10. Min(places) = 2
  BY <1>7, <1>8 DEF Min
<1> QED BY <1>2, <1>9, <1>10

\* The next line is the next command.
LEMMA NextLine ==
    ASSUME NEW K, NEW script \in Seq(Token(K)), Written(script), NEW p \in Nat,
           NEW input \in Seq(Token(K)), NEW wire \in Seq(Token(K)),
           At(script, p, input, wire), NextAfter(script, p), findCRLF(input) # 0
    PROVE  /\ p + 1 \in AllCommands(script) /\ Len(input) >= 3 /\ findCRLF(input) = 2
           /\ input[1] = script[p + 1]
<1> DEFINE places == {i \in 1 .. Len(input) - 1 : SubSeq(input, i, i + 1) = CRLF}
<1>1. places # {} /\ findCRLF(input) = Min(places)
  BY DEF findCRLF
<1>2. PICK i \in places : TRUE
  BY <1>1
<1>3. Len(input) \in Nat /\ i \in 1 .. Len(input) - 1
  BY <1>2
<1>4. input[i] = CR /\ input[i + 1] = LF
  BY <1>2, <1>3, CRLFAt
<1>5. i \in 1 .. Len(input) /\ i + 1 \in 1 .. Len(input)
  BY <1>3
<1>6. script[p + i] = CR /\ script[p + (i + 1)] = LF /\ p + (i + 1) <= Len(script) /\ Len(script) \in Nat
  BY <1>4, <1>5, InputAt
<1>7. /\ p + i \in p + 1 .. Len(script) /\ p + i < Len(script) /\ p + 1 \in 1 .. Len(script)
      /\ script[p + i] = CR /\ script[p + i + 1] = LF
  BY <1>3, <1>6
<1>8. CommandAt(script, p + 1)
  BY <1>7 DEF NextAfter
<1>9. p + 1 \in AllCommands(script)
  BY <1>7, <1>8 DEF AllCommands, CommandsUpTo
<1>10. Len(input) >= 3
  <2> SUFFICES ASSUME i = 1 PROVE FALSE
    BY <1>3
  <2>1. script[p + 1].text = "command" /\ script[p + 1] = CR
    BY <1>7, <1>8 DEF CommandAt
  <2> QED BY <2>1, CRLFAreTokens
<1> QED BY <1>9, <1>10, LineFound

\* When all has arrived and there is no line, there is no command.
LEMMA NoLine ==
    ASSUME NEW K, NEW script \in Seq(Token(K)), Written(script), NEW p \in Nat,
           NEW input \in Seq(Token(K)), NEW wire \in Seq(Token(K)), Len(wire) = 0,
           At(script, p, input, wire), NextAfter(script, p), findCRLF(input) = 0
    PROVE  Count(script, Len(script)) = Count(script, p)
<1>1. p + Len(input) = Len(script) /\ Len(script) \in Nat /\ Len(input) \in Nat
  BY DEF At
<1>2. CASE \A k \in p + 1 .. Len(script) : ~CommandAt(script, k)
  BY <1>1, <1>2, CountSame
<1>3. CASE p + 1 \in 1 .. Len(script) /\ CommandAt(script, p + 1)
  <2>1. p + 1 \in AllCommands(script)
    BY <1>3 DEF AllCommands, CommandsUpTo
  <2>2. p + 1 + 2 <= Len(script)
    BY <2>1, LineEnds
  <2>3. Len(input) >= 3
    BY <1>1, <2>2
  <2>4. findCRLF(input) = 2
    BY <2>1, <2>3, LineFound
  <2> QED BY <2>4
<1> QED BY <1>2, <1>3 DEF NextAfter

-----------------------------------------------------------------------------
(***************************************************************************)
(* The calls of a session.                                                 *)
(***************************************************************************)
\* One more command is done.
LEMMA DoneNext ==
    ASSUME NEW K, NEW script \in Seq(Token(K)), NEW D, NEW done \in Seq(D), NEW d \in D,
           DoneAs(script, done), NEW j \in AllCommands(script), Len(done) + 1 = Count(script, j),
           d.command.op = script[j].op, d.value = ValueSent(script, j)
    PROVE  DoneAs(script, Append(done, d))
<1> DEFINE new == Append(done, d)
<1>1. /\ Len(done) \in Nat /\ DOMAIN done = 1 .. Len(done) /\ DOMAIN new = 1 .. Len(done) + 1
      /\ new[Len(done) + 1] = d /\ \A i \in 1 .. Len(done) : new[i] = done[i]
  OBVIOUS
<1> HIDE DEF new
<1>2. SUFFICES ASSUME NEW i \in DOMAIN new
               PROVE  \E k \in AllCommands(script) :
                        /\ Count(script, k) = i
                        /\ new[i].command.op = script[k].op
                        /\ new[i].value = ValueSent(script, k)
  BY DEF DoneAs, new
<1>3. CASE i = Len(done) + 1
  BY <1>1, <1>3
<1>4. CASE i \in DOMAIN done
  <2>1. new[i] = done[i]
    BY <1>1, <1>4
  <2> QED BY <1>4, <2>1 DEF DoneAs
<1> QED BY <1>1, <1>3, <1>4

\* What the end of a command leaves of a session (resetRequest, Session.cc 132-139).
LEMMA FinishFields ==
    ASSUME NEW K, NEW ss \in SessionRecord(K)
    PROVE  /\ Finish(ss) \in SessionRecord(K)
           /\ Finish(ss).wire = ss.wire /\ Finish(ss).sent = ss.sent /\ Finish(ss).input = ss.input
           /\ Finish(ss).state = "kNewCommand" /\ Finish(ss).value = <<>>
           /\ Finish(ss).misread = ss.misread
           /\ Finish(ss).done = Append(ss.done, [command |-> ss.command, value |-> ss.value])
<1> DEFINE d == [command |-> ss.command, value |-> ss.value]
           new == Append(ss.done, d)
           e == <<>>
<1>1. ss.done \in Seq([command : CommandToken(K), value : Seq(Token(K))])
  BY DEF SessionRecord
<1>2. d \in [command : CommandToken(K), value : Seq(Token(K))]
  BY DEF SessionRecord
<1>3. new \in Seq([command : CommandToken(K), value : Seq(Token(K))])
  BY <1>1, <1>2, AppendProperties
<1>4. NoCommand \in CommandToken(K)
  BY CRLFAreTokens
<1>5. e \in Seq(Token(K)) /\ 0 \in Nat /\ 0 \in Int
  OBVIOUS
<1>6. Finish(ss) = [ss EXCEPT !.done = new, !.state = "kNewCommand", !.command = NoCommand,
                              !.value = e, !.valuelen = 0, !.bytesToDiscard = 0]
  BY DEF Finish, resetRequest, SessionRecord
<1> HIDE DEF new, e
<1>7. "kNewCommand" \in States
  BY DEF States
<1>8. PICK f : f = [ss EXCEPT !.done = new, !.state = "kNewCommand", !.command = NoCommand, !.value = e,
                              !.valuelen = 0, !.bytesToDiscard = 0]
  OBVIOUS
<1>9. /\ f.wire = ss.wire /\ f.sent = ss.sent /\ f.input = ss.input
      /\ f.state = "kNewCommand" /\ f.value = e /\ f.misread = ss.misread /\ f.done = new
  BY <1>8 DEF SessionRecord
<1>10. f \in SessionRecord(K)
  BY <1>3, <1>4, <1>5, <1>7, <1>8 DEF SessionRecord
<1> QED BY <1>6, <1>8, <1>9, <1>10 DEF new, e

\* A reply changes the output only (Session.cc 351-357).
LEMMA ReplyFields ==
    ASSUME NEW K, NEW ss \in SessionRecord(K), NEW msg \in Replies,
           NEW out, out = Output(ss, msg) \/ out = reply(ss, msg)
    PROVE  /\ out \in SessionRecord(K)
           /\ out.wire = ss.wire /\ out.sent = ss.sent /\ out.input = ss.input
           /\ out.command = ss.command /\ out.value = ss.value /\ out.done = ss.done
           /\ out.misread = ss.misread
<1> DEFINE o == IF ss.connected THEN Append(ss.output, msg) ELSE ss.output
<1>1. ss.output \in Seq(Replies)
  BY DEF SessionRecord
<1>2. o \in Seq(Replies)
  BY <1>1, AppendProperties
<1>3. Output(ss, msg) = [ss EXCEPT !.output = o]
  BY DEF Output, SessionRecord
<1> HIDE DEF o
<1>4. out = [ss EXCEPT !.output = o] \/ out = ss
  BY <1>3 DEF reply
<1> QED BY <1>2, <1>4 DEF SessionRecord

\* A command that is over stays so when its reply is written.
LEMMA ReplyOver ==
    ASSUME NEW K, NEW script, NEW j, NEW ss, Over(K, script, j, ss), NEW msg \in Replies,
           NEW out, out = Output(ss, msg) \/ out = reply(ss, msg)
    PROVE  Over(K, script, j, out)
<1>1. ss \in SessionRecord(K)
  BY DEF Over
<1>2. /\ out \in SessionRecord(K)
      /\ out.wire = ss.wire /\ out.sent = ss.sent /\ out.input = ss.input
      /\ out.command = ss.command /\ out.value = ss.value /\ out.done = ss.done
      /\ out.misread = ss.misread
  BY <1>1, ReplyFields
<1> QED BY <1>2 DEF Over

\* So it does when outputBuf_ is sent (Session.cc 265-273).
LEMMA SendOver ==
    ASSUME NEW K, NEW script, NEW j, NEW ss, NEW sent, Over(K, script, j, ss)
    PROVE  Over(K, script, j, sendOutputBuf([ss EXCEPT !.outputBuf = Append(@, "END")], sent))
<1>1. ss \in SessionRecord(K)
  BY DEF Over
<1>2. PICK b : b = Append(ss.outputBuf, "END")
  OBVIOUS
<1>3. ss.outputBuf \in Seq(Replies) /\ ss.output \in Seq(Replies) /\ "END" \in Replies
  BY <1>1 DEF SessionRecord, Replies
<1>4. b \in Seq(Replies) /\ ss.output \o b \in Seq(Replies) /\ <<>> \in Seq(Replies)
  BY <1>2, <1>3, AppendProperties, ConcatProperties
<1>5. PICK t : t = [ss EXCEPT !.outputBuf = b]
  OBVIOUS
<1>6. /\ t \in SessionRecord(K) /\ t.output = ss.output /\ t.outputBuf = b
      /\ t.wire = ss.wire /\ t.sent = ss.sent /\ t.input = ss.input
      /\ t.command = ss.command /\ t.value = ss.value /\ t.done = ss.done
      /\ t.misread = ss.misread
  BY <1>1, <1>4, <1>5 DEF SessionRecord
<1>7. PICK o : o = IF sent THEN ss.output \o b ELSE ss.output
  OBVIOUS
<1>8. PICK e : e = <<>>
  OBVIOUS
<1>9. PICK u : u = [t EXCEPT !.output = o, !.outputBuf = e]
  OBVIOUS
<1>10. /\ u \in SessionRecord(K)
       /\ u.wire = t.wire /\ u.sent = t.sent /\ u.input = t.input
       /\ u.command = t.command /\ u.value = t.value /\ u.done = t.done
       /\ u.misread = t.misread
  <2>1. o \in Seq(Replies)
    BY <1>3, <1>4, <1>7
  <2> QED BY <1>4, <1>6, <1>8, <1>9, <2>1 DEF SessionRecord
<1>11. sendOutputBuf(t, sent) = u
  BY <1>6, <1>7, <1>8, <1>9 DEF sendOutputBuf
<1>12. Over(K, script, j, u)
  BY <1>6, <1>10 DEF Over
<1> QED BY <1>2, <1>5, <1>11, <1>12

\* At the end of a command the session is between two commands again.
LEMMA FinishOver ==
    ASSUME NEW K, NEW script \in Seq(Token(K)), Written(script), NEW j \in AllCommands(script),
           NEW ss, Over(K, script, j, ss)
    PROVE  SessionOK(K, script, Finish(ss))
<1> DEFINE D == [command : CommandToken(K), value : Seq(Token(K))]
<1>1. PICK e : e = EndOf(script, j)
  OBVIOUS
<1>2. PICK f : f = Finish(ss)
  OBVIOUS
<1>3. PICK d : d = [command |-> ss.command, value |-> ss.value]
  OBVIOUS
<1>4. ss \in SessionRecord(K)
  BY DEF Over
<1>5. /\ f \in SessionRecord(K)
      /\ f.wire = ss.wire /\ f.sent = ss.sent /\ f.input = ss.input
      /\ f.state = "kNewCommand" /\ f.value = <<>> /\ f.done = Append(ss.done, d)
      /\ f.misread = ss.misread
  BY <1>2, <1>3, <1>4, FinishFields
<1>6. ss.done \in Seq(D) /\ d \in D
  BY <1>3, <1>4 DEF SessionRecord
<1>7. d.command.op = script[j].op /\ d.value = ValueSent(script, j)
  BY <1>3 DEF Over
<1>8. Len(ss.done) + 1 = Count(script, j) /\ DoneAs(script, ss.done)
  BY DEF Over
<1> HIDE DEF D
<1>9. DoneAs(script, f.done)
  BY <1>5, <1>6, <1>7, <1>8, DoneNext
<1>10. Len(f.done) = Len(ss.done) + 1
  BY <1>5, <1>6, AppendProperties
<1>11. e \in Nat /\ NextAfter(script, e) /\ Count(script, e) = Count(script, j)
  <2>1. ~Unfit(script[j])
    BY DEF Over
  <2> QED BY <1>1, <2>1, EndCounts, CommandsAre
<1>12. Between(script, e, f)
  BY <1>5, <1>8, <1>10, <1>11 DEF Between
<1>13. At(script, e, f.input, f.wire) /\ f.sent = script /\ ~f.misread
  BY <1>1, <1>5 DEF Over
<1>14. Follows(K, script, e, f)
  BY <1>5, <1>9, <1>12, <1>13 DEF Follows
<1> QED BY <1>2, <1>11, <1>14 DEF SessionOK

\* A change of the output, of what has arrived, of connected and alive leaves a session where it is.
LEMMA SameStage ==
    ASSUME NEW K, NEW script, NEW p, NEW ss, Follows(K, script, p, ss), NEW t \in SessionRecord(K),
           t.sent = ss.sent, t.misread = ss.misread, t.state = ss.state,
           t.command.op = ss.command.op, t.valuelen = ss.valuelen, t.value = ss.value,
           t.bytesToDiscard = ss.bytesToDiscard, t.done = ss.done,
           At(script, p, t.input, t.wire)
    PROVE  Follows(K, script, p, t)
<1>1. t.sent = script /\ ~t.misread /\ DoneAs(script, t.done)
  BY DEF Follows
<1>2. CASE Between(script, p, ss)
  <2>1. Between(script, p, t)
    BY <1>2 DEF Between
  <2> QED BY <1>1, <2>1 DEF Follows
<1>3. CASE \E j \in AllCommands(script) : Within(script, p, j, ss)
  <2>1. PICK j \in AllCommands(script) : Within(script, p, j, ss)
    BY <1>3
  <2>2. Within(script, p, j, t)
    BY <2>1 DEF Within
  <2> QED BY <1>1, <2>2 DEF Follows
<1> QED BY <1>2, <1>3 DEF Follows

\* Tokens arrive (ReadMessage).
LEMMA ArriveFollows ==
    ASSUME NEW K, NEW script \in Seq(Token(K)), NEW ss, SessionOK(K, script, ss),
           NEW n \in 1 .. Len(ss.wire)
    PROVE  SessionOK(K, script, [ss EXCEPT !.input = @ \o SubSeq(ss.wire, 1, n), !.wire = Retrieve(@, n)])
<1>1. PICK p \in Nat : Follows(K, script, p, ss)
  BY DEF SessionOK
<1>2. PICK input : input = ss.input \o SubSeq(ss.wire, 1, n)
  OBVIOUS
<1>3. PICK wire : wire = Retrieve(ss.wire, n)
  OBVIOUS
<1>4. PICK t : t = [ss EXCEPT !.input = input, !.wire = wire]
  OBVIOUS
<1>5. ss \in SessionRecord(K) /\ At(script, p, ss.input, ss.wire)
  BY <1>1 DEF Follows
<1>6. ss.input \in Seq(Token(K)) /\ ss.wire \in Seq(Token(K))
  BY <1>5 DEF SessionRecord
<1>7. input \in Seq(Token(K)) /\ wire \in Seq(Token(K)) /\ At(script, p, input, wire)
  BY <1>2, <1>3, <1>5, <1>6, ArriveAt
<1>8. /\ t \in SessionRecord(K) /\ t.input = input /\ t.wire = wire
      /\ t.sent = ss.sent /\ t.state = ss.state /\ t.command = ss.command /\ t.value = ss.value
      /\ t.bytesToDiscard = ss.bytesToDiscard /\ t.done = ss.done
      /\ t.valuelen = ss.valuelen /\ t.misread = ss.misread
  BY <1>4, <1>5, <1>7 DEF SessionRecord
<1>9. Follows(K, script, p, t)
  BY <1>1, <1>7, <1>8, SameStage
<1>10. SessionOK(K, script, t)
  BY <1>9 DEF SessionOK
<1>11. t = [ss EXCEPT !.input = @ \o SubSeq(ss.wire, 1, n), !.wire = Retrieve(@, n)]
  BY <1>2, <1>3, <1>4
<1> QED BY <1>10, <1>11

\* The connection is lost (Disconnected), or shut down (lineTooLong).
LEMMA LostFollows ==
    ASSUME NEW K, NEW script, NEW ss, SessionOK(K, script, ss), NEW t,
           t = [ss EXCEPT !.alive = FALSE] \/ t = [ss EXCEPT !.connected = FALSE]
    PROVE  SessionOK(K, script, t)
<1>1. PICK p \in Nat : Follows(K, script, p, ss)
  BY DEF SessionOK
<1>3. ss \in SessionRecord(K) /\ At(script, p, ss.input, ss.wire)
  BY <1>1 DEF Follows
<1>4. /\ t \in SessionRecord(K) /\ t.input = ss.input /\ t.wire = ss.wire
      /\ t.sent = ss.sent /\ t.state = ss.state /\ t.command = ss.command /\ t.value = ss.value
      /\ t.bytesToDiscard = ss.bytesToDiscard /\ t.done = ss.done
      /\ t.valuelen = ss.valuelen /\ t.misread = ss.misread
  BY <1>3 DEF SessionRecord
<1>5. Follows(K, script, p, t)
  BY <1>1, <1>3, <1>4, SameStage
<1> QED BY <1>5 DEF SessionOK

-----------------------------------------------------------------------------
\* processRequest gets the next command of the script (Session.cc 75-115, 207-216).
LEMMA LineTaken ==
    ASSUME NEW K, NEW script \in Seq(Token(K)), Written(script), NEW before,
           SessionOK(K, script, before), before.state = "kNewCommand", findCRLF(before.input) # 0,
           NEW ss, ss = [before EXCEPT !.input = RetrieveLine(@), !.command = RequestOf(Line(before.input))]
    PROVE  \E j \in AllCommands(script) : Taken(K, script, j, ss)
<1>1. PICK p \in Nat : Follows(K, script, p, before)
  BY DEF SessionOK
<1>2. before \in SessionRecord(K) /\ At(script, p, before.input, before.wire) /\ before.sent = script
      /\ DoneAs(script, before.done) /\ ~before.misread
  BY <1>1 DEF Follows
<1>3. Between(script, p, before)
  BY <1>1 DEF Follows, Within
<1>4. PICK input : input = before.input
  OBVIOUS
<1>5. PICK wire : wire = before.wire
  OBVIOUS
<1>6. input \in Seq(Token(K)) /\ wire \in Seq(Token(K)) /\ At(script, p, input, wire)
  BY <1>2, <1>4, <1>5 DEF SessionRecord
<1>7. /\ p + 1 \in AllCommands(script) /\ Len(input) >= 3 /\ findCRLF(input) = 2
      /\ input[1] = script[p + 1]
  BY <1>3, <1>4, <1>6, NextLine DEF Between
<1>8. PICK j \in AllCommands(script) : j = p + 1
  BY <1>7
<1>9. script[j] \in CommandToken(K) /\ script[j].text = "command"
  BY CommandsAre DEF CommandToken
<1>10. RequestOf(Line(input)) = script[j]
  <2>1. Line(input) = SubSeq(input, 1, 1)
    BY <1>7 DEF Line
  <2>2. Len(SubSeq(input, 1, 1)) = 1 /\ SubSeq(input, 1, 1)[1] = input[1]
    BY <1>6, <1>7
  <2>3. Len(Line(input)) = 1 /\ Line(input)[1] = script[j]
    BY <1>7, <1>8, <2>1, <2>2
  <2> QED BY <1>9, <2>3 DEF RequestOf
<1>11. PICK rest : rest = Retrieve(input, 3)
  OBVIOUS
<1>12. RetrieveLine(input) = rest
  BY <1>7, <1>11 DEF RetrieveLine
<1>13. rest \in Seq(Token(K)) /\ At(script, p + 3, rest, wire)
  <2>1. 3 \in 0 .. Len(input)
    BY <1>6, <1>7
  <2> QED BY <1>6, <1>11, <2>1, RetrieveAt
<1>14. ss = [before EXCEPT !.input = rest, !.command = script[j]]
  BY <1>4, <1>10, <1>12
<1>15. /\ ss \in SessionRecord(K) /\ ss.input = rest /\ ss.command = script[j] /\ ss.wire = wire
       /\ ss.sent = before.sent /\ ss.value = before.value /\ ss.done = before.done
       /\ ss.misread = before.misread
  BY <1>2, <1>5, <1>9, <1>13, <1>14 DEF SessionRecord
<1>16. At(script, j + 2, ss.input, ss.wire)
  BY <1>8, <1>13, <1>15
<1>17. Count(script, j) = Count(script, p) + 1
  <2>1. CommandAt(script, p + 1)
    BY <1>7 DEF AllCommands, CommandsUpTo
  <2> QED BY <1>8, <2>1, CountNext
<1>18. Len(ss.done) + 1 = Count(script, j) /\ ss.value = <<>>
  BY <1>3, <1>15, <1>17 DEF Between
<1>19. Taken(K, script, j, ss)
  BY <1>2, <1>15, <1>16, <1>18 DEF Taken
<1> QED BY <1>19

\* A command without a value is over when its line is read, whether the connection is shut down or not.
LEMMA TakenOver ==
    ASSUME NEW K, NEW script \in Seq(Token(K)), NEW j \in AllCommands(script), NEW ss,
           Taken(K, script, j, ss), ~HasValue(ss.command)
    PROVE  Over(K, script, j, ss) /\ Over(K, script, j, [ss EXCEPT !.connected = FALSE])
<1>1. EndOf(script, j) = j + 2 /\ ValueSent(script, j) = <<>>
  <2>1. j \in Nat /\ ~HasValue(script[j])
    BY CommandsAre DEF Taken
  <2> QED BY <2>1 DEF EndOf, ValueSent
<1>2. Over(K, script, j, ss)
  BY <1>1 DEF Taken, Over, Unfit
<1>3. PICK t : t = [ss EXCEPT !.connected = FALSE]
  OBVIOUS
<1>4. /\ t \in SessionRecord(K) /\ t.input = ss.input /\ t.wire = ss.wire /\ t.sent = ss.sent
      /\ t.command = ss.command /\ t.value = ss.value /\ t.done = ss.done /\ t.misread = ss.misread
  BY <1>2, <1>3 DEF Over, SessionRecord
<1>5. Over(K, script, j, t)
  BY <1>2, <1>4 DEF Over
<1> QED BY <1>2, <1>3, <1>5

\* A get goes on to look its keys up.
LEMMA TakenGet ==
    ASSUME NEW K, NEW script \in Seq(Token(K)), NEW j \in AllCommands(script), NEW ss,
           Taken(K, script, j, ss), ss.command.op \in {"get", "gets"}
    PROVE  SessionOK(K, script, [ss EXCEPT !.state = "get"])
<1>1. PICK t : t = [ss EXCEPT !.state = "get"]
  OBVIOUS
<1>2. ~HasValue(ss.command)
  BY DEF HasValue, Updates
<1>3. Over(K, script, j, ss)
  BY <1>2, TakenOver
<1>4. /\ t \in SessionRecord(K) /\ t.input = ss.input /\ t.wire = ss.wire /\ t.sent = ss.sent
      /\ t.command = ss.command /\ t.value = ss.value /\ t.done = ss.done /\ t.state = "get"
      /\ t.misread = ss.misread
  BY <1>1, <1>3 DEF Over, SessionRecord, States
<1>5. j \in Nat /\ EndOf(script, j) \in Nat /\ EndOf(script, j) >= j + 2
  <2>1. ~Unfit(script[j])
    BY <1>3 DEF Over
  <2> QED BY <2>1, CommandsAre
<1>6. Within(script, EndOf(script, j), j, t)
  BY <1>3, <1>4, <1>5 DEF Over, Taken, Within
<1>7. Follows(K, script, EndOf(script, j), t)
  BY <1>3, <1>4, <1>6 DEF Over, Follows
<1> QED BY <1>1, <1>5, <1>7 DEF SessionOK

\* Reader::read takes a size that fits as it is written (Session.cc 53-68, 190-201).
LEMMA FitsAsIs ==
    ASSUME NEW x \in Int, Fits(x)
    PROVE  /\ x \in Nat /\ AsInt(strtoull(x)) = x /\ BytesToDiscard(x) = {x + 2}
<1>1. x \in Nat /\ x + 2 < IntLimit /\ IntLimit \in Nat /\ SizeModulus \in Nat /\ 2 * IntLimit <= SizeModulus
  BY ItemLimit DEF Fits
<1>2. x \in 0 .. SizeModulus - 1 /\ x < IntLimit
  BY <1>1
<1>3. strtoull(x) = x
  <2>1. ~(x \in 1 - SizeModulus .. -1)
    BY <1>1
  <2> QED BY <1>2, <2>1 DEF strtoull
<1> QED BY <1>1, <1>2, <1>3 DEF AsInt, BytesToDiscard

\* A good update whose size fits goes on to its value: to receive it, or to discard one that is too
\* large.
LEMMA TakenUpdate ==
    ASSUME NEW K, NEW script \in Seq(Token(K)), NEW j \in AllCommands(script), NEW ss,
           Taken(K, script, j, ss), HasValue(ss.command), Fits(ss.command.bytes)
    PROVE  /\ ss.command.bytes <= MaxItemBytes =>
                SessionOK(K, script, [ss EXCEPT !.valuelen = ss.command.bytes + 2,
                                                !.state = "kReceiveValue"])
           /\ ss.command.bytes > MaxItemBytes =>
                SessionOK(K, script, [reply(ss, "SERVER_ERROR") EXCEPT
                                        !.bytesToDiscard = ss.command.bytes + 2, !.state = "kDiscardValue"])
<1>1. /\ ss \in SessionRecord(K) /\ ss.sent = script /\ At(script, j + 2, ss.input, ss.wire)
      /\ DoneAs(script, ss.done) /\ ss.command = script[j] /\ Len(ss.done) + 1 = Count(script, j)
      /\ ss.value = <<>> /\ ~ss.misread
  BY DEF Taken
<1>0. ~Unfit(script[j]) /\ HasValue(script[j])
  BY <1>1 DEF Unfit
<1>2. j \in Nat /\ j + 2 \in Nat /\ script[j].bytes \in Nat /\ script[j].bytes + 2 \in Nat
  <2>1. script[j].bytes \in Nat /\ j \in Nat
    BY <1>0, CommandsAre
  <2> QED BY <2>1
<1>3. EndOf(script, j) = j + 4 + script[j].bytes /\ j + 2 < EndOf(script, j)
  <2>1. EndOf(script, j) = j + 2 + (script[j].bytes + 2)
    BY <1>1 DEF EndOf
  <2>2. PICK b \in Nat : b = script[j].bytes
    BY <1>2
  <2>3. EndOf(script, j) = j + 2 + (b + 2)
    BY <2>1, <2>2
  <2>4. j + 2 + (b + 2) = j + 4 + b /\ j + 2 < j + 4 + b
    BY <1>2
  <2> QED BY <2>2, <2>3, <2>4
<1>4. ASSUME ss.command.bytes <= MaxItemBytes
      PROVE  SessionOK(K, script, [ss EXCEPT !.valuelen = ss.command.bytes + 2, !.state = "kReceiveValue"])
  <2>0. PICK n \in Int : n = ss.command.bytes + 2
    BY <1>1, <1>2
  <2>1. ValueSent(script, j) = SubSeq(script, j + 3, EndOf(script, j))
    BY <1>1, <1>3, <1>4 DEF ValueSent
  <2>2. PICK t : t = [ss EXCEPT !.valuelen = n, !.state = "kReceiveValue"]
    OBVIOUS
  <2>3. /\ t \in SessionRecord(K) /\ t.input = ss.input /\ t.wire = ss.wire /\ t.sent = ss.sent
        /\ t.command = ss.command /\ t.value = ss.value /\ t.done = ss.done
        /\ t.state = "kReceiveValue" /\ t.valuelen = n /\ t.misread = ss.misread
    BY <1>1, <2>2 DEF SessionRecord, States
  <2>4. SubSeq(script, j + 3, j + 2) = <<>>
    BY <1>2
  <2>5. Within(script, j + 2, j, t)
    <3>1. j + 2 >= j + 2 /\ t.valuelen = script[j].bytes + 2 /\ t.value = SubSeq(script, j + 3, j + 2)
      BY <1>1, <1>2, <2>0, <2>3, <2>4
    <3>2. t.command.op = script[j].op /\ Len(t.done) + 1 = Count(script, j)
      BY <1>1, <2>3
    <3> QED BY <1>0, <1>3, <2>1, <2>3, <3>1, <3>2 DEF Within
  <2>6. Follows(K, script, j + 2, t)
    BY <1>1, <2>3, <2>5 DEF Follows
  <2> QED BY <1>2, <2>0, <2>2, <2>6 DEF SessionOK
<1>5. ASSUME ss.command.bytes > MaxItemBytes
      PROVE  SessionOK(K, script, [reply(ss, "SERVER_ERROR") EXCEPT
                                     !.bytesToDiscard = ss.command.bytes + 2, !.state = "kDiscardValue"])
  <2>1. ValueSent(script, j) = <<>>
    <3>1. ~(script[j].bytes <= MaxItemBytes)
      BY <1>1, <1>2, <1>5, ItemLimit
    <3> QED BY <3>1 DEF ValueSent
  <2>2. PICK out : out = reply(ss, "SERVER_ERROR")
    OBVIOUS
  <2>3. PICK n : n = ss.command.bytes + 2
    OBVIOUS
  <2>4. PICK t : t = [out EXCEPT !.bytesToDiscard = n, !.state = "kDiscardValue"]
    OBVIOUS
  <2>5. "SERVER_ERROR" \in Replies /\ n \in Nat /\ j + 2 + n = EndOf(script, j)
    BY <1>1, <1>2, <1>3, <2>3 DEF Replies
  <2>6. /\ out \in SessionRecord(K)
        /\ out.wire = ss.wire /\ out.sent = ss.sent /\ out.input = ss.input
        /\ out.command = ss.command /\ out.value = ss.value /\ out.done = ss.done
        /\ out.misread = ss.misread
    BY <1>1, <2>2, <2>5, ReplyFields
  <2>7. /\ t \in SessionRecord(K) /\ t.input = out.input /\ t.wire = out.wire /\ t.sent = out.sent
        /\ t.command = out.command /\ t.value = out.value /\ t.done = out.done
        /\ t.state = "kDiscardValue" /\ t.bytesToDiscard = n /\ t.misread = out.misread
    BY <2>4, <2>5, <2>6 DEF SessionRecord, States
  <2>8. Within(script, j + 2, j, t)
    BY <1>0, <1>1, <1>2, <1>3, <2>5, <2>6, <2>7, <2>1 DEF Within
  <2>9. Follows(K, script, j + 2, t)
    BY <1>1, <2>6, <2>7, <2>8 DEF Follows
  <2> QED BY <1>2, <2>2, <2>3, <2>4, <2>9 DEF SessionOK
<1> QED BY <1>4, <1>5

-----------------------------------------------------------------------------
\* A session that is not between two commands is within one.
LEMMA InCommand ==
    ASSUME NEW K, NEW script, NEW ss, SessionOK(K, script, ss), ss.state # "kNewCommand"
    PROVE  \E p \in Nat, j \in AllCommands(script) :
              Follows(K, script, p, ss) /\ Within(script, p, j, ss)
BY DEF SessionOK, Follows, Between

\* The keys of a get are looked up one by one (Session.cc 242-274).
LEMMA GetFollows ==
    ASSUME NEW K, NEW script \in Seq(Token(K)), Written(script), NEW ss, SessionOK(K, script, ss),
           ss.state = "get"
    PROVE  /\ \A sent : SessionOK(K, script, Finish(sendOutputBuf([ss EXCEPT !.outputBuf = Append(@, "END")], sent)))
           /\ SessionOK(K, script, Finish(reply(ss, "CLIENT_ERROR")))
           /\ ss.command.keys # <<>> =>
                LET next == [ss EXCEPT !.command.keys = Tail(@)]
                IN  /\ SessionOK(K, script, next)
                    /\ SessionOK(K, script, [next EXCEPT !.outputBuf = Append(@, "VALUE")])
<1>1. PICK p \in Nat, j \in AllCommands(script) : Follows(K, script, p, ss) /\ Within(script, p, j, ss)
  BY InCommand
<1>2. ss \in SessionRecord(K) /\ At(script, p, ss.input, ss.wire)
  BY <1>1 DEF Follows
<1>3. /\ \A sent : SessionOK(K, script, Finish(sendOutputBuf([ss EXCEPT !.outputBuf = Append(@, "END")], sent)))
      /\ SessionOK(K, script, Finish(reply(ss, "CLIENT_ERROR")))
  <2>1. Over(K, script, j, ss)
    BY <1>1 DEF Follows, Within, Over
  <2>2. "CLIENT_ERROR" \in Replies
    BY DEF Replies
  <2>3. \A sent : Over(K, script, j, sendOutputBuf([ss EXCEPT !.outputBuf = Append(@, "END")], sent))
    BY <2>1, SendOver
  <2>4. Over(K, script, j, reply(ss, "CLIENT_ERROR"))
    BY <2>1, <2>2, ReplyOver
  <2> QED BY <2>3, <2>4, FinishOver
<1>4. ASSUME ss.command.keys # <<>>
      PROVE  LET next == [ss EXCEPT !.command.keys = Tail(@)]
             IN  /\ SessionOK(K, script, next)
                 /\ SessionOK(K, script, [next EXCEPT !.outputBuf = Append(@, "VALUE")])
  <2>1. PICK c : c = ss.command
    OBVIOUS
  <2>2. c \in CommandToken(K)
    BY <1>2, <2>1 DEF SessionRecord
  <2>3. PICK k : k = Tail(c.keys)
    OBVIOUS
  <2>4. k \in Seq(K)
    <3>1. c.keys \in Seq(K) /\ c.keys # <<>>
      BY <1>4, <2>1, <2>2 DEF CommandToken
    <3> QED BY <2>3, <3>1
  <2>5. PICK d : d = [c EXCEPT !.keys = k]
    OBVIOUS
  <2>6. d \in CommandToken(K) /\ d.op = c.op /\ d.bytes = c.bytes
    BY <2>2, <2>4, <2>5 DEF CommandToken
  <2>7. PICK t : t = [ss EXCEPT !.command = d]
    OBVIOUS
  <2>8. /\ t \in SessionRecord(K) /\ t.input = ss.input /\ t.wire = ss.wire
        /\ t.sent = ss.sent /\ t.state = ss.state /\ t.command = d /\ t.value = ss.value
        /\ t.bytesToDiscard = ss.bytesToDiscard /\ t.done = ss.done
        /\ t.valuelen = ss.valuelen /\ t.misread = ss.misread /\ t.outputBuf = ss.outputBuf
    BY <1>2, <2>6, <2>7 DEF SessionRecord
  <2>9. Follows(K, script, p, t)
    BY <1>1, <1>2, <2>1, <2>6, <2>8, SameStage
  <2>10. t = [ss EXCEPT !.command.keys = Tail(@)]
    BY <1>2, <2>1, <2>3, <2>5, <2>7 DEF SessionRecord
  <2>11. PICK o : o = Append(ss.outputBuf, "VALUE")
    OBVIOUS
  <2>12. o \in Seq(Replies)
    <3>1. ss.outputBuf \in Seq(Replies) /\ "VALUE" \in Replies
      BY <1>2 DEF SessionRecord, Replies
    <3> QED BY <2>11, <3>1, AppendProperties
  <2>13. PICK u : u = [t EXCEPT !.outputBuf = o]
    OBVIOUS
  <2>14. /\ u \in SessionRecord(K) /\ u.input = ss.input /\ u.wire = ss.wire
         /\ u.sent = ss.sent /\ u.state = ss.state /\ u.command = d /\ u.value = ss.value
         /\ u.bytesToDiscard = ss.bytesToDiscard /\ u.done = ss.done
         /\ u.valuelen = ss.valuelen /\ u.misread = ss.misread
    BY <2>8, <2>12, <2>13 DEF SessionRecord
  <2>15. Follows(K, script, p, u)
    BY <1>1, <1>2, <2>1, <2>6, <2>14, SameStage
  <2>16. u = [t EXCEPT !.outputBuf = Append(@, "VALUE")]
    BY <2>8, <2>11, <2>13
  <2> QED BY <2>9, <2>10, <2>15, <2>16 DEF SessionOK
<1> QED BY <1>3, <1>4

\* The smaller of two numbers.
LEMMA MinOfTwo ==
    ASSUME NEW a \in Nat, NEW b \in Nat
    PROVE  Min({a, b}) = IF a <= b THEN a ELSE b
BY DEF Min

\* A part of the script and the input that follows it.
LEMMA PartGrows ==
    ASSUME NEW T, NEW script \in Seq(T), NEW q \in Nat, NEW p \in Nat, q <= p,
           NEW input \in Seq(T), NEW wire \in Seq(T), At(script, p, input, wire),
           NEW n \in 0 .. Len(input)
    PROVE  /\ Len(SubSeq(script, q + 1, p)) = p - q
           /\ SubSeq(script, q + 1, p) \o SubSeq(input, 1, n) = SubSeq(script, q + 1, p + n)
           /\ SubSeq(script, q + 1, p + n) \in Seq(T)
<1> DEFINE a == SubSeq(script, q + 1, p)
           b == SubSeq(input, 1, n)
           c == SubSeq(script, q + 1, p + n)
<1>1. Len(input) \in Nat /\ Len(script) \in Nat /\ n \in Nat /\ p + n <= Len(script) /\ p <= Len(script)
  BY DEF At
<1>2. a \in Seq(T) /\ Len(a) = p - q /\ \A i \in 1 .. p - q : a[i] = script[q + i]
  BY <1>1
<1>3. b \in Seq(T) /\ Len(b) = n /\ \A i \in 1 .. n : b[i] = input[i]
  BY <1>1
<1>4. c \in Seq(T) /\ Len(c) = p + n - q /\ \A i \in 1 .. p + n - q : c[i] = script[q + i]
  BY <1>1
<1> HIDE DEF a, b, c
<1>5. a \in Seq(T) /\ b \in Seq(T)
  BY <1>2, <1>3
<1>6. /\ a \o b \in Seq(T) /\ Len(a \o b) = Len(a) + Len(b)
      /\ \A i \in 1 .. Len(a) : (a \o b)[i] = a[i]
      /\ \A i \in Len(a) + 1 .. Len(a) + Len(b) : (a \o b)[i] = b[i - Len(a)]
  BY <1>5, JoinedElements
<1>7. PICK d : d = a \o b
  OBVIOUS
<1>8. d \in Seq(T) /\ Len(d) = Len(c)
  BY <1>1, <1>2, <1>3, <1>4, <1>6, <1>7
<1>9. ASSUME NEW i \in 1 .. Len(d) PROVE d[i] = c[i]
  <2>1. i \in 1 .. p + n - q /\ c[i] = script[q + i]
    BY <1>4, <1>8
  <2>2. CASE i <= p - q
    BY <1>1, <1>2, <1>6, <1>7, <2>1, <2>2
  <2>3. CASE i > p - q
    <3>1. /\ i - (p - q) \in 1 .. n /\ i \in Len(a) + 1 .. Len(a) + Len(b)
          /\ p + (i - (p - q)) = q + i /\ i - (p - q) \in 1 .. Len(input)
      <4>1. i - (p - q) \in 1 .. n /\ p + (i - (p - q)) = q + i /\ i \in (p - q) + 1 .. (p - q) + n
        BY <1>1, <2>1, <2>3, Shifts
      <4>2. \A x \in 1 .. n : x \in 1 .. Len(input)
        BY <1>1
      <4> QED BY <1>2, <1>3, <4>1, <4>2
    <3>2. d[i] = input[i - (p - q)]
      <4>1. d[i] = b[i - Len(a)]
        BY <1>6, <1>7, <3>1
      <4>2. i - Len(a) = i - (p - q)
        BY <1>2
      <4> QED BY <1>3, <3>1, <4>1, <4>2
    <3>3. input[i - (p - q)] = script[p + (i - (p - q))]
      <4>1. PICK x \in 1 .. Len(input) : x = i - (p - q)
        BY <3>1
      <4>2. input[x] = script[p + x]
        BY InputAt
      <4> QED BY <4>1, <4>2
    <3> QED BY <2>1, <3>1, <3>2, <3>3
  <2> QED BY <1>1, <2>1, <2>2, <2>3
<1>10. d = c
  BY <1>4, <1>8, <1>9, SeqEqual
<1> QED BY <1>2, <1>4, <1>7, <1>10 DEF a, b, c

\* receiveValue takes the tokens of the value and no others (Session.cc 304-349).
LEMMA ReceiveFollows ==
    ASSUME NEW K, NEW script \in Seq(Token(K)), Written(script), NEW ss, SessionOK(K, script, ss),
           ss.state = "kReceiveValue", NEW needed, needed = AsSize(ss.valuelen - Len(ss.value)),
           NEW avail, avail = Min({Len(ss.input), needed}), NEW read,
           read = [ss EXCEPT !.input = Retrieve(@, avail), !.value = @ \o SubSeq(ss.input, 1, avail)]
    PROVE  /\ avail < needed => SessionOK(K, script, read)
           /\ avail = needed => \E j \in AllCommands(script) : Over(K, script, j, read)
<1>1. PICK p \in Nat, j \in AllCommands(script) : Follows(K, script, p, ss) /\ Within(script, p, j, ss)
  BY InCommand
<1>2. /\ ss \in SessionRecord(K) /\ ss.sent = script /\ ~ss.misread /\ DoneAs(script, ss.done)
      /\ At(script, p, ss.input, ss.wire)
  BY <1>1 DEF Follows
<1>3. /\ p >= j + 2 /\ ss.command.op = script[j].op /\ Len(ss.done) + 1 = Count(script, j)
      /\ ~Unfit(script[j]) /\ HasValue(script[j]) /\ ss.valuelen = script[j].bytes + 2
      /\ EndOf(script, j) = j + 4 + script[j].bytes /\ p < EndOf(script, j)
      /\ ss.value = SubSeq(script, j + 3, p)
      /\ ValueSent(script, j) = SubSeq(script, j + 3, EndOf(script, j))
  BY <1>1 DEF Within
<1>4. j \in Nat /\ script[j].bytes \in Nat /\ EndOf(script, j) \in Nat
  BY <1>3, CommandsAre
<1>5. PICK e \in Nat : e = EndOf(script, j)
  BY <1>4
<1>6. PICK b \in Nat : b = script[j].bytes
  BY <1>4
<1>7. PICK q \in Nat : q = j + 2
  BY <1>4
<1>8. /\ q <= p /\ j + 3 = q + 1 /\ b + 2 - (p - q) = e - p /\ e - p \in Nat
      /\ \A a \in Nat : a <= e - p => p + a \in Nat /\ p + a <= e /\ p + a >= j + 2
  <2>1. p >= q /\ e = j + 4 + b /\ p < e
    BY <1>3, <1>5, <1>6, <1>7
  <2>2. j \in Nat
    BY <1>4
  <2>3. NeedsIs(j, b, p, q, e)
    BY <1>7, <2>1, <2>2, Needs
  <2> QED BY <2>3 DEF NeedsIs
<1>9. PICK input \in Seq(Token(K)) : input = ss.input
  BY <1>2 DEF SessionRecord
<1>10. PICK wire \in Seq(Token(K)) : wire = ss.wire
  BY <1>2 DEF SessionRecord
<1>11. At(script, p, input, wire)
  BY <1>2, <1>9, <1>10
<1>12. PICK have \in Nat : have = Len(input)
  OBVIOUS
<1>13. PICK old : old = SubSeq(script, q + 1, p)
  OBVIOUS
<1>14. ss.value = old
  BY <1>3, <1>8, <1>13
<1>15. ASSUME NEW n \in 0 .. Len(input)
       PROVE  /\ Len(old) = p - q
              /\ old \o SubSeq(input, 1, n) = SubSeq(script, q + 1, p + n)
              /\ SubSeq(script, q + 1, p + n) \in Seq(Token(K))
  <2>1. q <= p
    BY <1>8
  <2>2. /\ Len(SubSeq(script, q + 1, p)) = p - q
        /\ SubSeq(script, q + 1, p) \o SubSeq(input, 1, n) = SubSeq(script, q + 1, p + n)
        /\ SubSeq(script, q + 1, p + n) \in Seq(Token(K))
    BY <1>11, <2>1, PartGrows
  <2> QED BY <1>13, <2>2
<1>16. Len(old) = p - q
  <2>1. 0 \in 0 .. Len(input)
    BY <1>12
  <2> QED BY <1>15, <2>1
<1>17. needed = e - p
  <2>1. needed = AsSize(b + 2 - Len(old))
    <3>1. ss.valuelen = b + 2
      BY <1>3, <1>6
    <3> QED BY <1>14, <3>1
  <2>2. b + 2 - Len(old) = e - p
    BY <1>8, <1>16
  <2>3. e - p >= 0
    BY <1>8
  <2>4. AsSize(e - p) = e - p
    BY <2>3 DEF AsSize
  <2> QED BY <2>1, <2>2, <2>4
<1>18. PICK m \in Nat : m = e - p
  BY <1>8
<1>19. avail = (IF have <= m THEN have ELSE m)
  BY <1>9, <1>12, <1>17, <1>18, MinOfTwo
<1>20. avail \in Nat /\ avail <= have /\ avail <= m
  BY <1>19
<1>21. avail \in 0 .. Len(input) /\ p + avail \in Nat /\ p + avail <= e /\ p + avail >= j + 2
  <2>1. avail \in 0 .. Len(input)
    BY <1>12, <1>20
  <2>2. avail \in Nat /\ avail <= e - p
    BY <1>18, <1>20
  <2> QED BY <1>8, <2>1, <2>2
<1>22. PICK rest : rest = Retrieve(input, avail)
  OBVIOUS
<1>23. rest \in Seq(Token(K)) /\ At(script, p + avail, rest, wire)
  BY <1>11, <1>21, <1>22, RetrieveAt
<1>24. PICK value : value = old \o SubSeq(input, 1, avail)
  OBVIOUS
<1>25. value = SubSeq(script, q + 1, p + avail) /\ value \in Seq(Token(K))
  BY <1>15, <1>21, <1>24
<1>26. value = SubSeq(script, j + 3, p + avail)
  BY <1>8, <1>25
<1>27. read = [ss EXCEPT !.input = rest, !.value = value]
  BY <1>9, <1>14, <1>22, <1>24
<1>28. /\ read \in SessionRecord(K) /\ read.input = rest /\ read.wire = wire
       /\ read.sent = ss.sent /\ read.state = ss.state /\ read.command = ss.command
       /\ read.value = value /\ read.done = ss.done
       /\ read.valuelen = ss.valuelen /\ read.misread = ss.misread
  BY <1>2, <1>10, <1>23, <1>25, <1>27 DEF SessionRecord
<1>29. ASSUME avail < needed PROVE SessionOK(K, script, read)
  <2>1. p + avail < EndOf(script, j)
    BY <1>5, <1>17, <1>20, <1>29
  <2>2. Within(script, p + avail, j, read)
    BY <1>3, <1>21, <1>26, <1>28, <2>1 DEF Within
  <2>3. Follows(K, script, p + avail, read)
    BY <1>2, <1>23, <1>28, <2>2 DEF Follows
  <2> QED BY <1>21, <2>3 DEF SessionOK
<1>30. ASSUME avail = needed PROVE Over(K, script, j, read)
  <2>1. p + avail = EndOf(script, j)
    <3>1. p + avail = e
      BY <1>17, <1>20, <1>30
    <3> QED BY <1>5, <3>1
  <2>2. value = ValueSent(script, j)
    BY <1>3, <1>26, <2>1
  <2> QED BY <1>2, <1>3, <1>23, <1>28, <2>1, <2>2 DEF Over
<1> QED BY <1>29, <1>30

\* discardValue drops the tokens of the value and no others (Session.cc 359-375).
LEMMA DiscardFollows ==
    ASSUME NEW K, NEW script \in Seq(Token(K)), Written(script), NEW ss, SessionOK(K, script, ss),
           ss.state = "kDiscardValue"
    PROVE  IF Len(ss.input) < ss.bytesToDiscard
           THEN SessionOK(K, script, [ss EXCEPT !.input = <<>>, !.bytesToDiscard = @ - Len(ss.input)])
           ELSE SessionOK(K, script, Finish([ss EXCEPT !.input = Retrieve(@, ss.bytesToDiscard)]))
<1>1. PICK p \in Nat, j \in AllCommands(script) : Follows(K, script, p, ss) /\ Within(script, p, j, ss)
  BY InCommand
<1>2. /\ ss \in SessionRecord(K) /\ ss.sent = script /\ ~ss.misread /\ DoneAs(script, ss.done)
      /\ At(script, p, ss.input, ss.wire)
  BY <1>1 DEF Follows
<1>3. /\ p >= j + 2 /\ ss.command.op = script[j].op /\ Len(ss.done) + 1 = Count(script, j)
      /\ ss.value = ValueSent(script, j) /\ p + ss.bytesToDiscard = EndOf(script, j)
      /\ ~Unfit(script[j])
  BY <1>1 DEF Within
<1>4. PICK input : input = ss.input
  OBVIOUS
<1>5. PICK n : n = ss.bytesToDiscard
  OBVIOUS
<1>6. input \in Seq(Token(K)) /\ ss.wire \in Seq(Token(K)) /\ Len(input) \in Nat /\ n \in Nat
  BY <1>2, <1>4, <1>5 DEF SessionRecord
<1>7. j \in Nat /\ EndOf(script, j) \in Nat /\ p + n = EndOf(script, j)
  BY <1>3, <1>5, CommandsAre
<1>8. ASSUME Len(input) < n
      PROVE  SessionOK(K, script, [ss EXCEPT !.input = <<>>, !.bytesToDiscard = @ - Len(ss.input)])
  <2>1. PICK rest : rest = Retrieve(input, Len(input))
    OBVIOUS
  <2>2. /\ rest \in Seq(Token(K)) /\ Len(rest) = 0
        /\ At(script, p + Len(input), rest, ss.wire)
    <3>1. Len(input) \in 0 .. Len(input) /\ Len(input) - Len(input) = 0
      BY <1>6
    <3>2. At(script, p, input, ss.wire)
      BY <1>2, <1>4
    <3> QED BY <1>6, <2>1, <3>1, <3>2, RetrieveAt
  <2>3. rest = <<>>
    BY <2>2
  <2>4. PICK m : m = n - Len(input)
    OBVIOUS
  <2>5. PICK t : t = [ss EXCEPT !.input = rest, !.bytesToDiscard = m]
    OBVIOUS
  <2>6. m \in Nat /\ m > 0 /\ p + Len(input) \in Nat /\ p + Len(input) + m = EndOf(script, j)
        /\ p + Len(input) < EndOf(script, j) /\ p + Len(input) >= j + 2
    BY <1>3, <1>6, <1>7, <1>8, <2>4
  <2>7. /\ t \in SessionRecord(K) /\ t.input = rest /\ t.wire = ss.wire
        /\ t.sent = ss.sent /\ t.state = ss.state /\ t.command = ss.command /\ t.value = ss.value
        /\ t.bytesToDiscard = m /\ t.done = ss.done /\ t.misread = ss.misread
    BY <1>2, <2>2, <2>5, <2>6 DEF SessionRecord
  <2>8. Within(script, p + Len(input), j, t)
    BY <1>3, <2>6, <2>7 DEF Within
  <2>9. Follows(K, script, p + Len(input), t)
    BY <1>2, <2>2, <2>7, <2>8 DEF Follows
  <2>10. t = [ss EXCEPT !.input = <<>>, !.bytesToDiscard = @ - Len(ss.input)]
    BY <1>4, <1>5, <2>3, <2>4, <2>5
  <2> QED BY <2>6, <2>9, <2>10 DEF SessionOK
<1>9. ASSUME ~(Len(input) < n)
      PROVE  SessionOK(K, script, Finish([ss EXCEPT !.input = Retrieve(@, ss.bytesToDiscard)]))
  <2>1. PICK rest : rest = Retrieve(input, n)
    OBVIOUS
  <2>2. n \in 0 .. Len(input)
    BY <1>6, <1>9
  <2>3. rest \in Seq(Token(K)) /\ At(script, p + n, rest, ss.wire)
    BY <1>2, <1>4, <1>6, <2>1, <2>2, RetrieveAt
  <2>4. PICK t : t = [ss EXCEPT !.input = rest]
    OBVIOUS
  <2>5. /\ t \in SessionRecord(K) /\ t.input = rest /\ t.wire = ss.wire
        /\ t.sent = ss.sent /\ t.command = ss.command /\ t.value = ss.value /\ t.done = ss.done
        /\ t.misread = ss.misread
    BY <1>2, <2>3, <2>4 DEF SessionRecord
  <2>6. Over(K, script, j, t)
    BY <1>2, <1>3, <1>7, <2>3, <2>5 DEF Over
  <2>7. t = [ss EXCEPT !.input = Retrieve(@, ss.bytesToDiscard)]
    BY <1>4, <1>5, <2>1, <2>4
  <2> QED BY <2>6, <2>7, FinishOver
<1> QED BY <1>4, <1>5, <1>8, <1>9

-----------------------------------------------------------------------------
(***************************************************************************)
(* The steps of the server.                                                *)
(***************************************************************************)
\* A new session has read nothing.
LEMMA SessionStarts ==
    ASSUME NEW K, NEW script \in Seq(Token(K)), Written(script)
    PROVE  SessionOK(K, script, NewSession(script))
<1>1. PICK e : e = <<>>
  OBVIOUS
<1>2. /\ e \in Seq(Token(K)) /\ e \in Seq(Replies) /\ Len(e) = 0 /\ DOMAIN e = {}
      /\ e \in Seq([command : CommandToken(K), value : Seq(Token(K))])
  BY <1>1
<1>3. PICK ss : ss = NewSession(script)
  OBVIOUS
<1>4. ss = [wire |-> script, sent |-> script, input |-> e, state |-> "kNewCommand", command |-> NoCommand,
            value |-> e, valuelen |-> 0, bytesToDiscard |-> 0, outputBuf |-> e, output |-> e,
            connected |-> TRUE, alive |-> TRUE, misread |-> FALSE, done |-> e]
  BY <1>1, <1>3 DEF NewSession
<1>5. NoCommand \in CommandToken(K) /\ "kNewCommand" \in States
  BY CRLFAreTokens DEF States
<1>6. ss \in SessionRecord(K) /\ ss.sent = script /\ ss.input = e /\ ss.wire = script
      /\ ss.done = e /\ ss.value = e /\ ss.state = "kNewCommand" /\ ~ss.misread
  BY <1>2, <1>4, <1>5 DEF SessionRecord
<1>7. At(script, 0, e, script)
  BY <1>2 DEF At
<1>8. DoneAs(script, e)
  BY <1>2 DEF DoneAs
<1>9. Count(script, 0) = 0
  <2>1. CommandsUpTo(script, 0) = {}
    BY DEF CommandsUpTo
  <2> QED BY <2>1, FS_EmptySet DEF Count
<1>10. NextAfter(script, 0)
  BY DEF Written
<1>11. Between(script, 0, ss)
  BY <1>1, <1>2, <1>6, <1>9, <1>10 DEF Between
<1>12. Follows(K, script, 0, ss)
  BY <1>6, <1>7, <1>8, <1>11 DEF Follows
<1> QED BY <1>3, <1>12 DEF SessionOK

\* A turn of one session leaves the others alone.
LEMMA TurnFollows ==
    ASSUME NEW K, NEW scripts, NEW s \in Sessions, NEW c, CacheOK(K, scripts, c),
           NEW ss, Misread(scripts[s], ss) \/ SessionOK(K, scripts[s], ss), Turn(s, c, ss)
    PROVE  CacheOK(K, scripts, cache')
<1>1. cache' = [c EXCEPT !.session[s] = ss]
  BY DEF Turn
<1>2. /\ "session" \in DOMAIN c /\ DOMAIN c.session = Sessions
      /\ {"items", "g_cas", "stopping", "quit", "seen", "session"} \subseteq DOMAIN c
      /\ \A r \in Sessions : Misread(scripts[r], c.session[r]) \/ SessionOK(K, scripts[r], c.session[r])
  BY DEF CacheOK
<1>3. DOMAIN cache' = DOMAIN c /\ cache'.session = [c.session EXCEPT ![s] = ss]
  BY <1>1, <1>2
<1>5. PICK new : new = cache'.session
  OBVIOUS
<1>6. /\ DOMAIN new = Sessions /\ new[s] = ss
      /\ \A r \in Sessions : r # s => new[r] = c.session[r]
  BY <1>2, <1>3, <1>5
<1>7. \A r \in Sessions : Misread(scripts[r], new[r]) \/ SessionOK(K, scripts[r], new[r])
  BY <1>2, <1>6
<1> QED BY <1>2, <1>3, <1>5, <1>6, <1>7 DEF CacheOK

\* What a command does to the rest of the cache does not matter.
LEMMA RestFollows ==
    ASSUME NEW K, NEW scripts, NEW c, CacheOK(K, scripts, c)
    PROVE  /\ \A key : CacheOK(K, scripts, deleteItem(c, key))
           /\ \A key, value : CacheOK(K, scripts, Put(c, key, value))
           /\ CacheOK(K, scripts, [c EXCEPT !.stopping = TRUE])
           /\ CacheOK(K, scripts, [c EXCEPT !.quit = TRUE])
           /\ \A learnt : CacheOK(K, scripts, [c EXCEPT !.seen = @ \cup learnt])
<1>1. {"items", "g_cas", "stopping", "quit", "seen", "session"} \subseteq DOMAIN c
  BY DEF CacheOK
<1>2. ASSUME NEW d, DOMAIN d = DOMAIN c, d.session = c.session PROVE CacheOK(K, scripts, d)
  BY <1>2 DEF CacheOK
<1>3. ASSUME NEW key PROVE CacheOK(K, scripts, deleteItem(c, key))
  <2>1. DOMAIN deleteItem(c, key) = DOMAIN c /\ deleteItem(c, key).session = c.session
    BY <1>1 DEF deleteItem
  <2> QED BY <1>2, <2>1
<1>4. ASSUME NEW key, NEW value PROVE CacheOK(K, scripts, Put(c, key, value))
  <2>1. DOMAIN Put(c, key, value) = DOMAIN c /\ Put(c, key, value).session = c.session
    BY <1>1 DEF Put
  <2> QED BY <1>2, <2>1
<1>5. CacheOK(K, scripts, [c EXCEPT !.stopping = TRUE])
  BY <1>1, <1>2
<1>6. CacheOK(K, scripts, [c EXCEPT !.quit = TRUE])
  BY <1>1, <1>2
<1>7. ASSUME NEW learnt PROVE CacheOK(K, scripts, [c EXCEPT !.seen = @ \cup learnt])
  BY <1>1, <1>2
<1> QED BY <1>3, <1>4, <1>5, <1>6, <1>7

\* The same of storeItem (MemcacheServer.cc 48-138).
LEMMA StoreFollows ==
    ASSUME NEW K, NEW scripts, NEW c, CacheOK(K, scripts, c), NEW command, NEW value
    PROVE  CacheOK(K, scripts, storeItem(c, command, value))
BY RestFollows DEF storeItem

(***************************************************************************)
(* A session that has read a size that does not fit: nothing is claimed of *)
(* what it does, but its client did send that size.                        *)
(***************************************************************************)
\* A change of any other field.
LEMMA StaysMisread ==
    ASSUME NEW script, NEW ss, Misread(script, ss), NEW t, DOMAIN t = DOMAIN ss, t.sent = ss.sent, t.misread
    PROVE  Misread(script, t)
BY DEF Misread

\* The calls of a session.
LEMMA MisreadCalls ==
    ASSUME NEW script, NEW ss, Misread(script, ss)
    PROVE  /\ \A msg : Misread(script, reply(ss, msg))
           /\ \A sent : Misread(script, sendOutputBuf(ss, sent))
           /\ Misread(script, Finish(ss))
<1>1. "sent" \in DOMAIN ss /\ "misread" \in DOMAIN ss /\ ss.misread
  BY DEF Misread
<1>2. ASSUME NEW msg PROVE Misread(script, reply(ss, msg))
  <2>1. PICK out : out = IF ss.connected THEN Append(ss.output, msg) ELSE ss.output
    OBVIOUS
  <2>2. PICK t : t = [ss EXCEPT !.output = out]
    OBVIOUS
  <2>3. Misread(script, t)
    BY <1>1, <2>2, StaysMisread
  <2>4. reply(ss, msg) = ss \/ reply(ss, msg) = t
    BY <2>1, <2>2 DEF reply, Output
  <2> QED BY <2>3, <2>4
<1>3. ASSUME NEW sent PROVE Misread(script, sendOutputBuf(ss, sent))
  <2>1. PICK out : out = IF sent THEN ss.output \o ss.outputBuf ELSE ss.output
    OBVIOUS
  <2>2. PICK t : t = [ss EXCEPT !.output = out, !.outputBuf = <<>>]
    OBVIOUS
  <2>3. DOMAIN t = DOMAIN ss /\ t.sent = ss.sent /\ t.misread
    BY <1>1, <2>2
  <2>4. Misread(script, t)
    BY <2>3, StaysMisread
  <2>5. sendOutputBuf(ss, sent) = t
    BY <2>1, <2>2 DEF sendOutputBuf
  <2> QED BY <2>4, <2>5
<1>4. Misread(script, Finish(ss))
  <2>1. PICK done : done = Append(ss.done, [command |-> ss.command, value |-> ss.value])
    OBVIOUS
  <2>2. PICK t : t = [ss EXCEPT !.done = done]
    OBVIOUS
  <2>3. PICK f : f = [t EXCEPT !.state = "kNewCommand", !.command = NoCommand, !.value = <<>>, !.valuelen = 0,
                               !.bytesToDiscard = 0]
    OBVIOUS
  <2>4. DOMAIN f = DOMAIN ss /\ f.sent = ss.sent /\ f.misread
    BY <1>1, <2>2, <2>3
  <2>5. Finish(ss) = f
    BY <2>1, <2>2, <2>3 DEF Finish, resetRequest
  <2> QED BY <2>4, <2>5, StaysMisread
<1> QED BY <1>2, <1>3, <1>4

\* An update whose size does not fit (Session.cc 186-201).
LEMMA MisreadUpdate ==
    ASSUME NEW K, NEW scripts, CacheOK(K, scripts, cache), NEW s \in Sessions, NEW ss, doUpdate(s, ss),
           ss.command.good, ss.command.keys # <<>>,
           Misread(scripts[s], [ss EXCEPT !.misread = @ \/ ~Fits(ss.command.bytes)])
    PROVE  CacheOK(K, scripts, cache')
<1>1. PICK next : next = [ss EXCEPT !.misread = @ \/ ~Fits(ss.command.bytes)]
  OBVIOUS
<1>2. PICK bytes : bytes = AsInt(strtoull(ss.command.bytes))
  OBVIOUS
<1>3. \/ Aborts
      \/ \E n : Turn(s, deleteItem(cache, ss.command.keys[1]),
                     [reply(next, "SERVER_ERROR") EXCEPT !.bytesToDiscard = n, !.state = "kDiscardValue"])
      \/ Turn(s, cache, [next EXCEPT !.valuelen = bytes + 2, !.state = "kReceiveValue"])
  BY <1>1, <1>2 DEF doUpdate
<1>4. Misread(scripts[s], next)
  BY <1>1
<1>5. CASE Aborts
  BY <1>5, RestFollows DEF Aborts
<1>6. ASSUME NEW n, Turn(s, deleteItem(cache, ss.command.keys[1]),
                         [reply(next, "SERVER_ERROR") EXCEPT !.bytesToDiscard = n, !.state = "kDiscardValue"])
      PROVE  CacheOK(K, scripts, cache')
  <2>1. PICK out : out = reply(next, "SERVER_ERROR")
    OBVIOUS
  <2>2. Misread(scripts[s], out)
    BY <1>4, <2>1, MisreadCalls
  <2>3. PICK t : t = [out EXCEPT !.bytesToDiscard = n, !.state = "kDiscardValue"]
    OBVIOUS
  <2>4. DOMAIN t = DOMAIN out /\ t.sent = out.sent /\ t.misread
    BY <2>2, <2>3 DEF Misread
  <2>5. Misread(scripts[s], t)
    BY <2>2, <2>4, StaysMisread
  <2>6. CacheOK(K, scripts, deleteItem(cache, ss.command.keys[1]))
    BY RestFollows
  <2> QED BY <1>6, <2>1, <2>3, <2>5, <2>6, TurnFollows
<1>7. CASE Turn(s, cache, [next EXCEPT !.valuelen = bytes + 2, !.state = "kReceiveValue"])
  <2>1. PICK n : n = bytes + 2
    OBVIOUS
  <2>2. PICK t : t = [next EXCEPT !.valuelen = n, !.state = "kReceiveValue"]
    OBVIOUS
  <2>3. DOMAIN t = DOMAIN next /\ t.sent = next.sent /\ t.misread
    BY <1>4, <2>2 DEF Misread
  <2>4. Misread(scripts[s], t)
    BY <1>4, <2>3, StaysMisread
  <2> QED BY <1>7, <2>1, <2>2, <2>4, TurnFollows
<1> QED BY <1>3, <1>5, <1>6, <1>7

\* Any turn of such a session.
LEMMA MisreadStep ==
    ASSUME NEW K, NEW scripts, CacheOK(K, scripts, cache), NEW s \in Sessions, cache.session[s].misread,
           \/ ReadMessage(s) \/ processRequest(s) \/ getItem(s) \/ receiveValue(s) \/ discardValue(s)
           \/ lineTooLong(s) \/ Disconnected(s)
    PROVE  CacheOK(K, scripts, cache')
<1>1. PICK before : before = cache.session[s]
  OBVIOUS
<1>2. PICK script : script = scripts[s]
  OBVIOUS
<1>3. Misread(script, before)
  BY <1>1, <1>2 DEF CacheOK, SessionOK, Follows
<1>4. "sent" \in DOMAIN before /\ "misread" \in DOMAIN before /\ before.misread
  BY <1>3 DEF Misread
<1>5. ASSUME NEW c, CacheOK(K, scripts, c), NEW t, Misread(script, t), Turn(s, c, t)
      PROVE  CacheOK(K, scripts, cache')
  BY <1>2, <1>5, TurnFollows
<1>6. ASSUME NEW ss, Misread(script, ss)
      PROVE  \A msg : Misread(script, Finish(reply(ss, msg)))
  BY <1>6, MisreadCalls
<1>7. ASSUME NEW ss, Misread(script, ss)
      PROVE  Misread(script, [ss EXCEPT !.connected = FALSE]) /\ Misread(script, [ss EXCEPT !.state = "get"])
  <2>1. "sent" \in DOMAIN ss /\ "misread" \in DOMAIN ss /\ ss.misread
    BY <1>7 DEF Misread
  <2> QED BY <1>7, <2>1, StaysMisread
<1>8. /\ CacheOK(K, scripts, [cache EXCEPT !.stopping = TRUE])
      /\ CacheOK(K, scripts, [cache EXCEPT !.quit = TRUE])
      /\ \A key : CacheOK(K, scripts, deleteItem(cache, key))
      /\ \A learnt : CacheOK(K, scripts, [cache EXCEPT !.seen = @ \cup learnt])
  BY RestFollows
<1>9. CASE ReadMessage(s)
  <2>1. PICK input, wire : Turn(s, cache, [before EXCEPT !.input = input, !.wire = wire])
    BY <1>1, <1>9 DEF ReadMessage
  <2>2. PICK t : t = [before EXCEPT !.input = input, !.wire = wire]
    OBVIOUS
  <2>3. DOMAIN t = DOMAIN before /\ t.sent = before.sent /\ t.misread
    BY <1>4, <2>2
  <2>4. Misread(script, t)
    BY <1>3, <2>3, StaysMisread
  <2> QED BY <1>5, <2>1, <2>2, <2>4
<1>10. CASE processRequest(s)
  <2>1. PICK ss : ss = [before EXCEPT !.input = RetrieveLine(@), !.command = RequestOf(Line(before.input))]
    OBVIOUS
  <2>2. PICK op : op = ss.command.op
    OBVIOUS
  <2>3. \/ op \in Updates /\ doUpdate(s, ss)
        \/ op \in {"get", "gets"} /\ Turn(s, cache, [ss EXCEPT !.state = "get"])
        \/ op = "delete" /\ doDelete(s, ss)
        \/ op = "quit" /\ Turn(s, cache, Finish([ss EXCEPT !.connected = FALSE]))
        \/ /\ op = "shutdown"
           /\ Turn(s, [cache EXCEPT !.stopping = TRUE], Finish([ss EXCEPT !.connected = FALSE]))
        \/ op = "version" /\ Turn(s, cache, Finish(reply(ss, "VERSION")))
        \/ op = "unknown" /\ Turn(s, cache, Finish(reply(ss, "ERROR")))
    BY <1>1, <1>10, <2>1, <2>2 DEF processRequest
  <2>4. Misread(script, ss)
    <3>1. PICK input : input = RetrieveLine(before.input)
      OBVIOUS
    <3>2. PICK command : command = RequestOf(Line(before.input))
      OBVIOUS
    <3>3. ss = [before EXCEPT !.input = input, !.command = command]
      BY <2>1, <3>1, <3>2
    <3>4. DOMAIN ss = DOMAIN before /\ ss.sent = before.sent /\ ss.misread
      BY <1>4, <3>3
    <3> QED BY <1>3, <3>4, StaysMisread
  <2>5. CASE doUpdate(s, ss)
    <3>1. CASE ss.command.good /\ ss.command.keys # <<>>
      <4>1. PICK b : b = (ss.misread \/ ~Fits(ss.command.bytes))
        OBVIOUS
      <4>2. b /\ "sent" \in DOMAIN ss /\ "misread" \in DOMAIN ss
        BY <2>4, <4>1 DEF Misread
      <4>3. Misread(script, [ss EXCEPT !.misread = b])
        BY <2>4, <4>2, StaysMisread
      <4>4. [ss EXCEPT !.misread = b] = [ss EXCEPT !.misread = @ \/ ~Fits(ss.command.bytes)]
        BY <4>1
      <4> QED BY <1>2, <2>5, <3>1, <4>3, <4>4, MisreadUpdate
    <3>2. CASE ~(ss.command.good /\ ss.command.keys # <<>>)
      <4>1. Aborts \/ Turn(s, cache, Finish(reply(ss, "CLIENT_ERROR")))
        BY <2>5, <3>2 DEF doUpdate
      <4> QED BY <1>5, <1>6, <1>8, <2>4, <4>1 DEF Aborts
    <3> QED BY <3>1, <3>2
  <2>6. CASE doDelete(s, ss)
    <3>1. \/ Aborts
          \/ \E msg : Turn(s, cache, Finish(reply(ss, msg)))
          \/ \E key : Turn(s, deleteItem(cache, key), Finish(reply(ss, "DELETED")))
      BY <2>6 DEF doDelete
    <3> QED BY <1>5, <1>6, <1>8, <2>4, <3>1 DEF Aborts
  <2>7. CASE Turn(s, cache, [ss EXCEPT !.state = "get"])
    BY <1>5, <1>7, <2>4, <2>7
  <2>8. Misread(script, Finish([ss EXCEPT !.connected = FALSE]))
    BY <1>7, <2>4, MisreadCalls
  <2>9. CASE \/ Turn(s, cache, Finish([ss EXCEPT !.connected = FALSE]))
             \/ Turn(s, [cache EXCEPT !.stopping = TRUE], Finish([ss EXCEPT !.connected = FALSE]))
    BY <1>5, <1>8, <2>8, <2>9
  <2>10. CASE \E msg : Turn(s, cache, Finish(reply(ss, msg)))
    BY <1>5, <1>6, <2>4, <2>10
  <2> QED BY <2>3, <2>5, <2>6, <2>7, <2>9, <2>10
<1>11. CASE getItem(s)
  <2>1. PICK next : next = [before EXCEPT !.command.keys = Tail(@)]
    OBVIOUS
  <2>2. PICK end : end = Append(before.outputBuf, "END")
    OBVIOUS
  <2>3. PICK found : found = Append(next.outputBuf, "VALUE")
    OBVIOUS
  <2>4. \/ \E sent : Turn(s, cache, Finish(sendOutputBuf([before EXCEPT !.outputBuf = end], sent)))
        \/ Turn(s, cache, Finish(reply(before, "CLIENT_ERROR")))
        \/ Turn(s, cache, next)
        \/ \E learnt : Turn(s, [cache EXCEPT !.seen = @ \cup learnt], [next EXCEPT !.outputBuf = found])
    BY <1>1, <1>11, <2>1, <2>2, <2>3 DEF getItem
  <2>5. Misread(script, next)
    <3>1. PICK command : command = [before.command EXCEPT !.keys = Tail(@)]
      OBVIOUS
    <3>2. next = [before EXCEPT !.command = command]
      BY <2>1, <3>1
    <3> QED BY <1>3, <1>4, <3>2, StaysMisread
  <2>6. Misread(script, [next EXCEPT !.outputBuf = found])
    <3>1. "sent" \in DOMAIN next /\ "misread" \in DOMAIN next /\ next.misread
      BY <2>5 DEF Misread
    <3> QED BY <2>5, <3>1, StaysMisread
  <2>7. \A sent : Misread(script, Finish(sendOutputBuf([before EXCEPT !.outputBuf = end], sent)))
    <3>1. Misread(script, [before EXCEPT !.outputBuf = end])
      BY <1>3, <1>4, StaysMisread
    <3> QED BY <3>1, MisreadCalls
  <2>8. Misread(script, Finish(reply(before, "CLIENT_ERROR")))
    BY <1>3, <1>6
  <2> QED BY <1>5, <1>8, <2>4, <2>5, <2>6, <2>7, <2>8
<1>12. CASE receiveValue(s)
  <2>1. PICK needed : needed = AsSize(before.valuelen - Len(before.value))
    OBVIOUS
  <2>2. PICK avail : avail = Min({Len(before.input), needed})
    OBVIOUS
  <2>3. PICK read : read = [before EXCEPT !.input = Retrieve(@, avail), !.value = @ \o SubSeq(before.input, 1, avail)]
    OBVIOUS
  <2>4. \/ Turn(s, cache, read)
        \/ Turn(s, storeItem(cache, before.command, read.value),
                Finish(reply(read, StoreReply(cache.items, before.command))))
        \/ Turn(s, cache, Finish(reply(read, "CLIENT_ERROR")))
    BY <1>1, <1>12, <2>1, <2>2, <2>3 DEF receiveValue
  <2>5. Misread(script, read)
    <3>1. PICK input : input = Retrieve(before.input, avail)
      OBVIOUS
    <3>2. PICK value : value = before.value \o SubSeq(before.input, 1, avail)
      OBVIOUS
    <3>3. read = [before EXCEPT !.input = input, !.value = value]
      BY <2>3, <3>1, <3>2
    <3>4. DOMAIN read = DOMAIN before /\ read.sent = before.sent /\ read.misread
      BY <1>4, <3>3
    <3> QED BY <1>3, <3>4, StaysMisread
  <2>6. CacheOK(K, scripts, storeItem(cache, before.command, read.value))
    BY StoreFollows
  <2> QED BY <1>5, <1>6, <2>4, <2>5, <2>6
<1>13. CASE discardValue(s)
  <2>1. PICK n : n = before.bytesToDiscard - Len(before.input)
    OBVIOUS
  <2>2. PICK input : input = Retrieve(before.input, before.bytesToDiscard)
    OBVIOUS
  <2>3. \/ Turn(s, cache, [before EXCEPT !.input = <<>>, !.bytesToDiscard = n])
        \/ Turn(s, cache, Finish([before EXCEPT !.input = input]))
    BY <1>1, <1>13, <2>1, <2>2 DEF discardValue
  <2>4. PICK t : t = [before EXCEPT !.input = <<>>, !.bytesToDiscard = n]
    OBVIOUS
  <2>5. DOMAIN t = DOMAIN before /\ t.sent = before.sent /\ t.misread
    BY <1>4, <2>4
  <2>6. Misread(script, t) /\ Misread(script, [before EXCEPT !.input = input])
    BY <1>3, <1>4, <2>5, StaysMisread
  <2> QED BY <1>5, <2>3, <2>4, <2>6, MisreadCalls
<1>14. CASE lineTooLong(s)
  <2>1. Turn(s, cache, [before EXCEPT !.connected = FALSE])
    BY <1>1, <1>14 DEF lineTooLong
  <2> QED BY <1>3, <1>5, <1>7, <2>1
<1>15. CASE Disconnected(s)
  <2>1. Turn(s, cache, [before EXCEPT !.alive = FALSE])
    BY <1>1, <1>15 DEF Disconnected
  <2>2. Misread(script, [before EXCEPT !.alive = FALSE])
    BY <1>3, <1>4, StaysMisread
  <2> QED BY <1>5, <2>1, <2>2
<1> QED BY <1>9, <1>10, <1>11, <1>12, <1>13, <1>14, <1>15

\* processRequest of a session that has read every size as it was sent, with every command
\* (Session.cc 141-302, 377-406).
LEMMA RequestStep ==
    ASSUME NEW K, NEW scripts \in [Sessions -> Seq(Token(K))], \A r \in Sessions : Written(scripts[r]),
           CacheOK(K, scripts, cache), NEW s \in Sessions, ~cache.session[s].misread,
           processRequest(s)
    PROVE  CacheOK(K, scripts, cache')
<1>1. PICK script \in Seq(Token(K)) : script = scripts[s]
  OBVIOUS
<1>2. Written(script)
  BY <1>1
<1>3. PICK before : before = cache.session[s]
  OBVIOUS
<1>4. SessionOK(K, script, before)
  BY <1>1, <1>3 DEF CacheOK, Misread
<1>5. PICK ss : ss = [before EXCEPT !.input = RetrieveLine(@), !.command = RequestOf(Line(before.input))]
  OBVIOUS
<1>6. PICK op : op = ss.command.op
  OBVIOUS
<1>7. /\ before.state = "kNewCommand" /\ findCRLF(before.input) # 0
      /\ \/ op \in Updates /\ doUpdate(s, ss)
         \/ op \in {"get", "gets"} /\ Turn(s, cache, [ss EXCEPT !.state = "get"])
         \/ op = "delete" /\ doDelete(s, ss)
         \/ op = "quit" /\ Turn(s, cache, Finish([ss EXCEPT !.connected = FALSE]))
         \/ /\ op = "shutdown"
            /\ Turn(s, [cache EXCEPT !.stopping = TRUE], Finish([ss EXCEPT !.connected = FALSE]))
         \/ op = "version" /\ Turn(s, cache, Finish(reply(ss, "VERSION")))
         \/ op = "unknown" /\ Turn(s, cache, Finish(reply(ss, "ERROR")))
  BY <1>3, <1>5, <1>6 DEF processRequest
<1>8. PICK j \in AllCommands(script) : Taken(K, script, j, ss)
  BY <1>2, <1>4, <1>5, <1>7, LineTaken
<1>9. ASSUME NEW msg \in Replies, ~HasValue(ss.command)
      PROVE  SessionOK(K, script, Finish(reply(ss, msg)))
  <2>1. Over(K, script, j, ss)
    BY <1>8, <1>9, TakenOver
  <2>2. Over(K, script, j, reply(ss, msg))
    BY <2>1, ReplyOver
  <2> QED BY <1>2, <2>2, FinishOver
<1>10. ASSUME ~HasValue(ss.command)
       PROVE  SessionOK(K, script, Finish([ss EXCEPT !.connected = FALSE]))
  <2>1. Over(K, script, j, [ss EXCEPT !.connected = FALSE])
    BY <1>8, <1>10, TakenOver
  <2> QED BY <1>2, <2>1, FinishOver
<1>11. /\ "CLIENT_ERROR" \in Replies /\ "DELETED" \in Replies /\ "NOT_FOUND" \in Replies
       /\ "VERSION" \in Replies /\ "ERROR" \in Replies
  BY DEF Replies
<1>12. \A key : CacheOK(K, scripts, deleteItem(cache, key))
  BY RestFollows
<1>13. ASSUME NEW c, CacheOK(K, scripts, c), NEW next, SessionOK(K, script, next), Turn(s, c, next)
       PROVE  CacheOK(K, scripts, cache')
  BY <1>1, <1>13, TurnFollows
<1>14. CASE op \in Updates /\ doUpdate(s, ss)
  <2>1. CASE ~(ss.command.good /\ ss.command.keys # <<>>)
    <3>1. Aborts \/ Turn(s, cache, Finish(reply(ss, "CLIENT_ERROR")))
      BY <1>14, <2>1 DEF doUpdate
    <3>2. ~HasValue(ss.command)
      BY <2>1 DEF HasValue
    <3>3. CacheOK(K, scripts, [cache EXCEPT !.quit = TRUE])
      BY RestFollows
    <3> QED BY <1>9, <1>11, <1>13, <3>1, <3>2, <3>3 DEF Aborts
  <2>2. CASE ss.command.good /\ ss.command.keys # <<>>
    <3>1. HasValue(ss.command)
      BY <1>6, <1>14, <2>2 DEF HasValue
    <3>2. ss.command = script[j] /\ ss.command.bytes \in Int
      BY <1>8, CommandsAre DEF Taken
    <3>3. /\ ss \in SessionRecord(K) /\ ss.sent = script /\ ~ss.misread
      BY <1>8 DEF Taken
    <3>4. CASE ~Fits(ss.command.bytes)
      <4>1. Unfit(script[j])
        BY <3>1, <3>2, <3>4 DEF Unfit
      <4>2. PICK t : t = [ss EXCEPT !.misread = TRUE]
        OBVIOUS
      <4>3. {"sent", "misread"} \subseteq DOMAIN t /\ t.sent = script /\ t.misread
        BY <3>3, <4>2 DEF SessionRecord
      <4>4. Misread(scripts[s], t)
        BY <1>1, <4>1, <4>3 DEF Misread
      <4>5. (ss.misread \/ ~Fits(ss.command.bytes)) = TRUE
        BY <3>4
      <4>6. t = [ss EXCEPT !.misread = @ \/ ~Fits(ss.command.bytes)]
        BY <4>2, <4>5
      <4> QED BY <1>14, <2>2, <4>4, <4>6, MisreadUpdate
    <3>5. CASE Fits(ss.command.bytes)
      <4>1. /\ ss.command.bytes \in Nat /\ AsInt(strtoull(ss.command.bytes)) = ss.command.bytes
            /\ BytesToDiscard(ss.command.bytes) = {ss.command.bytes + 2}
        BY <3>2, <3>5, FitsAsIs
      <4>2. [ss EXCEPT !.misread = @ \/ ~Fits(ss.command.bytes)] = ss
        <5>1. (ss.misread \/ ~Fits(ss.command.bytes)) = ss.misread
          BY <3>3, <3>5 DEF SessionRecord
        <5> QED BY <3>3, <5>1 DEF SessionRecord
      <4>3. /\ ss.command.bytes <= MaxItemBytes =>
                 SessionOK(K, script, [ss EXCEPT !.valuelen = ss.command.bytes + 2,
                                                 !.state = "kReceiveValue"])
            /\ ss.command.bytes > MaxItemBytes =>
                 SessionOK(K, script, [reply(ss, "SERVER_ERROR") EXCEPT
                                         !.bytesToDiscard = ss.command.bytes + 2, !.state = "kDiscardValue"])
        BY <1>8, <3>1, <3>5, TakenUpdate
      <4>4. \/ Aborts
            \/ /\ ss.command.bytes > MaxItemBytes
               /\ \E n \in {ss.command.bytes + 2} :
                    Turn(s, deleteItem(cache, ss.command.keys[1]),
                         [reply(ss, "SERVER_ERROR") EXCEPT !.bytesToDiscard = n, !.state = "kDiscardValue"])
            \/ /\ ss.command.bytes <= MaxItemBytes
               /\ Turn(s, cache, [ss EXCEPT !.valuelen = ss.command.bytes + 2, !.state = "kReceiveValue"])
        BY <1>14, <2>2, <4>1, <4>2 DEF doUpdate
      <4>5. CacheOK(K, scripts, [cache EXCEPT !.quit = TRUE])
        BY RestFollows
      <4> QED BY <1>12, <1>13, <4>3, <4>4, <4>5 DEF Aborts
    <3> QED BY <3>4, <3>5
  <2> QED BY <2>1, <2>2
<1>15. CASE op \in {"get", "gets"} /\ Turn(s, cache, [ss EXCEPT !.state = "get"])
  <2>1. SessionOK(K, script, [ss EXCEPT !.state = "get"])
    BY <1>6, <1>8, <1>15, TakenGet
  <2> QED BY <1>13, <1>15, <2>1
<1>16. ASSUME op \in {"delete", "quit", "shutdown", "version", "unknown"} PROVE ~HasValue(ss.command)
  BY <1>6, <1>16 DEF HasValue, Updates
<1>17. CASE op = "delete" /\ doDelete(s, ss)
  <2>1. \/ Aborts
        \/ Turn(s, cache, Finish(reply(ss, "CLIENT_ERROR")))
        \/ \E key : Turn(s, deleteItem(cache, key), Finish(reply(ss, "DELETED")))
        \/ Turn(s, cache, Finish(reply(ss, "NOT_FOUND")))
    BY <1>17 DEF doDelete
  <2>2. /\ SessionOK(K, script, Finish(reply(ss, "CLIENT_ERROR")))
        /\ SessionOK(K, script, Finish(reply(ss, "DELETED")))
        /\ SessionOK(K, script, Finish(reply(ss, "NOT_FOUND")))
    BY <1>9, <1>11, <1>16, <1>17
  <2>3. CacheOK(K, scripts, [cache EXCEPT !.quit = TRUE])
    BY RestFollows
  <2> QED BY <1>12, <1>13, <2>1, <2>2, <2>3 DEF Aborts
<1>18. CASE op = "quit" /\ Turn(s, cache, Finish([ss EXCEPT !.connected = FALSE]))
  BY <1>10, <1>13, <1>16, <1>18
<1>19. CASE op = "shutdown" /\ Turn(s, [cache EXCEPT !.stopping = TRUE], Finish([ss EXCEPT !.connected = FALSE]))
  <2>1. CacheOK(K, scripts, [cache EXCEPT !.stopping = TRUE])
    BY RestFollows
  <2> QED BY <1>10, <1>13, <1>16, <1>19, <2>1
<1>20. CASE op = "version" /\ Turn(s, cache, Finish(reply(ss, "VERSION")))
  BY <1>9, <1>11, <1>13, <1>16, <1>20
<1>21. CASE op = "unknown" /\ Turn(s, cache, Finish(reply(ss, "ERROR")))
  BY <1>9, <1>11, <1>13, <1>16, <1>21
<1> QED BY <1>7, <1>14, <1>15, <1>17, <1>18, <1>19, <1>20, <1>21

\* Every step of the server: one case for each turn of onMessage.
LEMMA FollowStep ==
    ASSUME NEW K, NEW scripts \in [Sessions -> Seq(Token(K))], \A r \in Sessions : Written(scripts[r]),
           CacheOK(K, scripts, cache), [CacheNext]_cache
    PROVE  CacheOK(K, scripts, cache')
<1>1. CASE UNCHANGED cache
  BY <1>1
<1>2. ASSUME NEW s \in Sessions, ~cache.session[s].misread
      PROVE  /\ SessionOK(K, scripts[s], cache.session[s]) /\ scripts[s] \in Seq(Token(K))
             /\ Written(scripts[s])
  BY <1>2 DEF CacheOK, Misread
<1>3. ASSUME NEW s \in Sessions, ~cache.session[s].misread, ReadMessage(s)
      PROVE  CacheOK(K, scripts, cache')
  <2>1. PICK ss : ss = cache.session[s]
    OBVIOUS
  <2>2. PICK n \in 1 .. Len(ss.wire) :
          Turn(s, cache, [ss EXCEPT !.input = @ \o SubSeq(ss.wire, 1, n), !.wire = Retrieve(@, n)])
    BY <1>3, <2>1 DEF ReadMessage
  <2>3. PICK next : next = [ss EXCEPT !.input = @ \o SubSeq(ss.wire, 1, n), !.wire = Retrieve(@, n)]
    OBVIOUS
  <2>4. SessionOK(K, scripts[s], next)
    BY <1>2, <1>3, <2>1, <2>3, ArriveFollows
  <2> QED BY <2>2, <2>3, <2>4, TurnFollows
<1>4. ASSUME NEW s \in Sessions, ~cache.session[s].misread, processRequest(s)
      PROVE  CacheOK(K, scripts, cache')
  BY <1>4, RequestStep
<1>5. ASSUME NEW s \in Sessions, ~cache.session[s].misread, getItem(s)
      PROVE  CacheOK(K, scripts, cache')
  <2>1. PICK ss : ss = cache.session[s]
    OBVIOUS
  <2>2. PICK next : next = [ss EXCEPT !.command.keys = Tail(@)]
    OBVIOUS
  <2>3. PICK found : found = [next EXCEPT !.outputBuf = Append(@, "VALUE")]
    OBVIOUS
  <2>4. \A sent : SessionOK(K, scripts[s], Finish(sendOutputBuf([ss EXCEPT !.outputBuf = Append(@, "END")], sent)))
    BY <1>2, <1>5, <2>1, GetFollows DEF getItem
  <2>5. /\ ss.state = "get"
        /\ \/ \E sent :
                Turn(s, cache, Finish(sendOutputBuf([ss EXCEPT !.outputBuf = Append(@, "END")], sent)))
           \/ Turn(s, cache, Finish(reply(ss, "CLIENT_ERROR")))
           \/ ss.command.keys # <<>> /\ Turn(s, cache, next)
           \/ ss.command.keys # <<>> /\ \E learnt : Turn(s, [cache EXCEPT !.seen = @ \cup learnt], found)
    BY <1>5, <2>1, <2>2, <2>3 DEF getItem
  <2>6. /\ SessionOK(K, scripts[s], Finish(reply(ss, "CLIENT_ERROR")))
        /\ ss.command.keys # <<>> => SessionOK(K, scripts[s], next) /\ SessionOK(K, scripts[s], found)
    BY <1>2, <1>5, <2>1, <2>2, <2>3, <2>5, GetFollows
  <2>7. \A learnt : CacheOK(K, scripts, [cache EXCEPT !.seen = @ \cup learnt])
    BY RestFollows
  <2> QED BY <2>4, <2>5, <2>6, <2>7, TurnFollows
<1>6. ASSUME NEW s \in Sessions, ~cache.session[s].misread, receiveValue(s)
      PROVE  CacheOK(K, scripts, cache')
  <2>1. PICK ss : ss = cache.session[s]
    OBVIOUS
  <2>2. PICK needed : needed = AsSize(ss.valuelen - Len(ss.value))
    OBVIOUS
  <2>3. PICK avail : avail = Min({Len(ss.input), needed})
    OBVIOUS
  <2>4. PICK read : read = [ss EXCEPT !.input = Retrieve(@, avail), !.value = @ \o SubSeq(ss.input, 1, avail)]
    OBVIOUS
  <2>5. /\ ss.state = "kReceiveValue"
        /\ \/ avail < needed /\ Turn(s, cache, read)
           \/ /\ avail = needed
              /\ Turn(s, storeItem(cache, ss.command, read.value),
                      Finish(reply(read, StoreReply(cache.items, ss.command))))
           \/ avail = needed /\ Turn(s, cache, Finish(reply(read, "CLIENT_ERROR")))
    BY <1>6, <2>1, <2>2, <2>3, <2>4 DEF receiveValue
  <2>6. SessionOK(K, scripts[s], ss)
    BY <1>2, <1>6, <2>1
  <2>7. /\ avail < needed => SessionOK(K, scripts[s], read)
        /\ avail = needed => \E j \in AllCommands(scripts[s]) : Over(K, scripts[s], j, read)
    BY <1>2, <1>6, <2>2, <2>3, <2>4, <2>5, <2>6, ReceiveFollows
  <2>8. ASSUME avail = needed, NEW msg \in Replies PROVE SessionOK(K, scripts[s], Finish(reply(read, msg)))
    <3>1. PICK j \in AllCommands(scripts[s]) : Over(K, scripts[s], j, read)
      BY <2>7, <2>8
    <3>2. Over(K, scripts[s], j, reply(read, msg))
      BY <3>1, ReplyOver
    <3> QED BY <1>2, <1>6, <3>2, FinishOver
  <2>9. "CLIENT_ERROR" \in Replies /\ StoreReply(cache.items, ss.command) \in Replies
    BY DEF StoreReply, Replies
  <2>10. CacheOK(K, scripts, storeItem(cache, ss.command, read.value))
    BY StoreFollows
  <2>11. CASE avail < needed /\ Turn(s, cache, read)
    BY <2>7, <2>11, TurnFollows
  <2>12. CASE avail = needed /\ Turn(s, storeItem(cache, ss.command, read.value),
                                    Finish(reply(read, StoreReply(cache.items, ss.command))))
    BY <2>8, <2>9, <2>10, <2>12, TurnFollows
  <2>13. CASE avail = needed /\ Turn(s, cache, Finish(reply(read, "CLIENT_ERROR")))
    BY <2>8, <2>9, <2>13, TurnFollows
  <2> QED BY <2>5, <2>11, <2>12, <2>13
<1>7. ASSUME NEW s \in Sessions, ~cache.session[s].misread, discardValue(s)
      PROVE  CacheOK(K, scripts, cache')
  <2>1. PICK ss : ss = cache.session[s]
    OBVIOUS
  <2>2. ss.state = "kDiscardValue"
    BY <1>7, <2>1 DEF discardValue
  <2>3. IF Len(ss.input) < ss.bytesToDiscard
        THEN Turn(s, cache, [ss EXCEPT !.input = <<>>, !.bytesToDiscard = @ - Len(ss.input)])
        ELSE Turn(s, cache, Finish([ss EXCEPT !.input = Retrieve(@, ss.bytesToDiscard)]))
    BY <1>7, <2>1 DEF discardValue
  <2>4. IF Len(ss.input) < ss.bytesToDiscard
        THEN SessionOK(K, scripts[s], [ss EXCEPT !.input = <<>>, !.bytesToDiscard = @ - Len(ss.input)])
        ELSE SessionOK(K, scripts[s], Finish([ss EXCEPT !.input = Retrieve(@, ss.bytesToDiscard)]))
    BY <1>2, <1>7, <2>1, <2>2, DiscardFollows
  <2> QED BY <2>3, <2>4, TurnFollows
<1>8. ASSUME NEW s \in Sessions, ~cache.session[s].misread, Disconnected(s)
      PROVE  CacheOK(K, scripts, cache')
  <2>1. Turn(s, cache, [cache.session[s] EXCEPT !.alive = FALSE])
    BY <1>8 DEF Disconnected
  <2>2. SessionOK(K, scripts[s], [cache.session[s] EXCEPT !.alive = FALSE])
    BY <1>2, <1>8, LostFollows
  <2> QED BY <2>1, <2>2, TurnFollows
<1>9. ASSUME NEW s \in Sessions, ~cache.session[s].misread, lineTooLong(s)
       PROVE  CacheOK(K, scripts, cache')
  <2>1. Turn(s, cache, [cache.session[s] EXCEPT !.connected = FALSE])
    BY <1>9 DEF lineTooLong
  <2>2. SessionOK(K, scripts[s], [cache.session[s] EXCEPT !.connected = FALSE])
    BY <1>2, <1>9, LostFollows
  <2> QED BY <2>1, <2>2, TurnFollows
<1>10. CASE stopServer
  <2>1. cache' = [cache EXCEPT !.quit = TRUE]
    BY <1>10 DEF stopServer
  <2> QED BY <2>1, RestFollows
<1>11. ASSUME NEW s \in Sessions,
              \/ ReadMessage(s) \/ processRequest(s) \/ getItem(s) \/ receiveValue(s) \/ discardValue(s)
              \/ lineTooLong(s) \/ Disconnected(s)
       PROVE  CacheOK(K, scripts, cache')
  BY <1>3, <1>4, <1>5, <1>6, <1>7, <1>8, <1>9, <1>11, MisreadStep
<1> QED BY <1>1, <1>10, <1>11 DEF CacheNext

\* A session that has read all of its script has done all of its commands.
LEMMA AllDone ==
    ASSUME NEW K, NEW script \in Seq(Token(K)), Written(script), NEW ss, SessionOK(K, script, ss),
           ss.wire = <<>>,
           (ss.input = <<>> /\ ss.state # "get") \/ (ss.state = "kNewCommand" /\ findCRLF(ss.input) = 0)
    PROVE  Len(ss.done) = Count(script, Len(script))
<1>1. PICK p \in Nat : Follows(K, script, p, ss)
  BY DEF SessionOK
<1>2. ss \in SessionRecord(K) /\ At(script, p, ss.input, ss.wire)
  BY <1>1 DEF Follows
<1>3. PICK input \in Seq(Token(K)) : input = ss.input
  BY <1>2 DEF SessionRecord
<1>4. PICK wire \in Seq(Token(K)) : wire = ss.wire
  BY <1>2 DEF SessionRecord
<1>5. At(script, p, input, wire) /\ Len(wire) = 0
  BY <1>2, <1>3, <1>4
<1>6. p + Len(input) = Len(script) /\ Len(script) \in Nat
  BY <1>5 DEF At
<1>7. CASE ss.state # "kNewCommand"
  <2>1. PICK j \in AllCommands(script) : Within(script, p, j, ss)
    BY <1>1, <1>7 DEF Follows, Between
  <2>2. p < EndOf(script, j)
    BY <1>7, <2>1 DEF Within
  <2>3. EndOf(script, j) <= Len(script) /\ EndOf(script, j) \in Nat
    <3>1. ~Unfit(script[j])
      BY <2>1 DEF Within
    <3> QED BY <3>1, EndCounts, CommandsAre
  <2>4. Len(input) = 0
    BY <1>3, <1>7
  <2> QED BY <1>6, <2>2, <2>3, <2>4
<1>8. CASE ss.state = "kNewCommand"
  <2>1. Between(script, p, ss)
    BY <1>1, <1>8 DEF Follows, Within
  <2>2. Len(ss.done) = Count(script, p) /\ NextAfter(script, p)
    BY <2>1 DEF Between
  <2>3. CASE Len(input) = 0
    <3>1. p = Len(script)
      BY <1>6, <2>3
    <3> QED BY <2>2, <3>1
  <2>4. CASE findCRLF(input) = 0
    <3>1. Count(script, Len(script)) = Count(script, p)
      BY <1>5, <2>2, <2>4, NoLine
    <3> QED BY <2>2, <3>1
  <2> QED BY <1>3, <2>3, <2>4
<1> QED BY <1>7, <1>8

\* For any clients that write commands with their values, and however their streams are cut and the
\* sessions interleave: each session carries out the commands of its client in order, with the value
\* that was sent for each, takes no byte of a value for a command, and has done all when all is read,
\* unless it has read a size that an int does not hold with two more, which its client then did send
\* (Session.cc 53-406).
THEOREM CommandsAreAsSent ==
    ASSUME NEW CONSTANT K, NEW CONSTANT scripts \in [Sessions -> Seq(Token(K))],
           \A r \in Sessions : Written(scripts[r])
    PROVE  CacheStart(scripts) /\ [][CacheNext]_cache => []CommandsAsSent
<1>1. CacheStart(scripts) => CacheOK(K, scripts, cache)
  <2> SUFFICES ASSUME CacheStart(scripts) PROVE CacheOK(K, scripts, cache)
    OBVIOUS
  <2>1. /\ {"items", "g_cas", "stopping", "quit", "seen", "session"} \subseteq DOMAIN cache
        /\ cache.session = [s \in Sessions |-> NewSession(scripts[s])]
    BY DEF CacheStart
  <2>2. ASSUME NEW s \in Sessions PROVE SessionOK(K, scripts[s], cache.session[s])
    <3>1. scripts[s] \in Seq(Token(K)) /\ cache.session[s] = NewSession(scripts[s])
      BY <2>1
    <3> QED BY <3>1, SessionStarts
  <2>3. DOMAIN cache.session = Sessions
    BY <2>1
  <2> QED BY <2>1, <2>2, <2>3 DEF CacheOK
<1>2. CacheOK(K, scripts, cache) /\ [CacheNext]_cache => CacheOK(K, scripts, cache)'
  BY FollowStep
<1>3. CacheOK(K, scripts, cache) => CommandsAsSent
  <2> SUFFICES ASSUME CacheOK(K, scripts, cache), NEW s \in Sessions
               PROVE  LET ss == cache.session[s]
                          script == ss.sent
                          commands == CommandsUpTo(script, Len(script))
                      IN  IF ss.misread THEN \E j \in commands : Unfit(script[j])
                          ELSE /\ \A i \in DOMAIN ss.done : \E j \in commands :
                                   /\ Cardinality(CommandsUpTo(script, j)) = i
                                   /\ ss.done[i].command.op = script[j].op
                                   /\ ss.done[i].value = ValueSent(script, j)
                               /\ ss.wire = <<>> /\ ss.alive /\ Idle(s) /\ ~cache.quit =>
                                    Len(ss.done) = Cardinality(commands)
    BY DEF CommandsAsSent
  <2>1. PICK ss : ss = cache.session[s]
    OBVIOUS
  <2>2. PICK script \in Seq(Token(K)) : script = scripts[s]
    OBVIOUS
  <2>3. Misread(script, ss) \/ SessionOK(K, script, ss)
    BY <2>1, <2>2 DEF CacheOK
  <2>4. ss.sent = script
    BY <2>3 DEF Misread, SessionOK, Follows
  <2>5. ASSUME ss.misread PROVE \E j \in AllCommands(script) : Unfit(script[j])
    BY <2>3, <2>5 DEF Misread, SessionOK, Follows
  <2>6. ASSUME ~ss.misread PROVE SessionOK(K, script, ss) /\ DoneAs(script, ss.done)
    BY <2>3, <2>6 DEF Misread, SessionOK, Follows
  <2>7. ASSUME ~ss.misread, ss.wire = <<>>, Idle(s) PROVE Len(ss.done) = Count(script, Len(script))
    <3>1. (ss.input = <<>> /\ ss.state # "get") \/ (ss.state = "kNewCommand" /\ findCRLF(ss.input) = 0)
      BY <2>1, <2>7 DEF Idle
    <3>2. Written(script)
      BY <2>2
    <3> QED BY <2>6, <2>7, <3>1, <3>2, AllDone
  <2> QED BY <2>1, <2>4, <2>5, <2>6, <2>7 DEF DoneAs, AllCommands, Count
<1> QED BY <1>1, <1>2, <1>3, PTL
=============================================================================
