------------------------------- MODULE Buffer -------------------------------
(***************************************************************************)
(* cnet/net/Buffer.{h,cc}: a vector of bytes with a reader and a writer    *)
(* index.  A buffer is a record of the vector and the two indices, and an  *)
(* operation is an operator from buffers to buffers.  Byte i of buffer_,   *)
(* counted from 0 in the code, is data[i + 1].                             *)
(*                                                                         *)
(* The state machine at the end lets a user apply every operation to a     *)
(* buffer, within the preconditions that the code asserts, next to the     *)
(* sequence of bytes that it should hold.                                  *)
(***************************************************************************)
EXTENDS Naturals, Sequences, SequencesExt

CONSTANTS
    kCheapPrepend, kInitialSize,
    Base,       \* values of a byte, 0 .. Base - 1
    MaxUnread,  \* bound: bytes unread
    MaxVector   \* bound: bytes of buffer_

ASSUME BufferSizes == kCheapPrepend \in Nat /\ kInitialSize \in Nat /\ Base \in Nat \ {0, 1}

Bytes == 0 .. Base - 1
Zeros(n) == [i \in 1 .. n |-> 0]

NewBuffer(initialSize) ==
    [data |-> Zeros(kCheapPrepend + initialSize), reader |-> kCheapPrepend,
     writer |-> kCheapPrepend]

readableBytes(b) == b.writer - b.reader
writableBytes(b) == Len(b.data) - b.writer
prependableBytes(b) == b.reader
toStringPiece(b) == SubSeq(b.data, b.reader + 1, b.writer)

\* std::copy of bytes into the vector, the first to index at.
Copy(data, at, bytes) ==
    [i \in DOMAIN data |-> IF i \in at + 1 .. at + Len(bytes) THEN bytes[i - at] ELSE data[i]]

retrieveAll(b) == [b EXCEPT !.reader = kCheapPrepend, !.writer = kCheapPrepend]
retrieve(b, len) ==
    IF len < readableBytes(b) THEN [b EXCEPT !.reader = @ + len] ELSE retrieveAll(b)

\* The bytes and what is left of the buffer.
retrieveAsString(b, len) == [bytes |-> SubSeq(toStringPiece(b), 1, len), rest |-> retrieve(b, len)]

\* Without room for len more bytes: grow, or move the readable bytes to the front.
makeSpace_TooSmall(b, len) ==
    IF writableBytes(b) + prependableBytes(b) < len
    THEN [b EXCEPT !.data = @ \o Zeros(b.writer + len - Len(@))]
    ELSE [data |-> Copy(b.data, kCheapPrepend, toStringPiece(b)),
          reader |-> kCheapPrepend, writer |-> kCheapPrepend + readableBytes(b)]

makeSpace(b, len) ==
    IF writableBytes(b) + prependableBytes(b) < len + kCheapPrepend
    THEN [b EXCEPT !.data = @ \o Zeros(b.writer + len - Len(@))]
    ELSE [data |-> Copy(b.data, kCheapPrepend, toStringPiece(b)),
          reader |-> kCheapPrepend, writer |-> kCheapPrepend + readableBytes(b)]

enuserWritableBytes(b, len) == IF writableBytes(b) < len THEN makeSpace(b, len) ELSE b
hasWritten(b, len) == [b EXCEPT !.writer = @ + len]
unwrite(b, len) == [b EXCEPT !.writer = @ - len]

append(b, bytes) ==
    LET room == enuserWritableBytes(b, Len(bytes))
    IN  hasWritten([room EXCEPT !.data = Copy(@, room.writer, bytes)], Len(bytes))

prepend(b, bytes) ==
    [b EXCEPT !.reader = @ - Len(bytes), !.data = Copy(@, b.reader - Len(bytes), bytes)]

\* Into a new buffer with the reserve, which takes the old one's place.
shrink(b, reserve) ==
    append(enuserWritableBytes(NewBuffer(kInitialSize), readableBytes(b) + reserve),
           toStringPiece(b))

\* readv into the writable bytes and, what does not fit, into extrabuf, which is appended.
readFd(b, bytes) ==
    LET room == writableBytes(b)
        direct == [b EXCEPT !.data = Copy(@, b.writer, SubSeq(bytes, 1, room))]
    IN  IF Len(bytes) <= room
        THEN hasWritten([b EXCEPT !.data = Copy(@, b.writer, bytes)], Len(bytes))
        ELSE append(hasWritten(direct, room), SubSeq(bytes, room + 1, Len(bytes)))

(***************************************************************************)
(* Integers of width bytes, most significant byte first on the wire.       *)
(***************************************************************************)
hostToNetwork(x, width) == [i \in 1 .. width |-> (x \div Base^(width - i)) % Base]
networkToHost(bytes) ==
    FoldSeq(LAMBDA i, sum : sum + bytes[i] * Base^(Len(bytes) - i), 0, [i \in DOMAIN bytes |-> i])

appendInt(b, x, width) == append(b, hostToNetwork(x, width))
prependInt(b, x, width) == prepend(b, hostToNetwork(x, width))
peekInt(b, width) == networkToHost(SubSeq(toStringPiece(b), 1, width))
retrieveInt(b, width) == retrieve(b, width)
readInt(b, width) == [value |-> peekInt(b, width), rest |-> retrieveInt(b, width)]

-----------------------------------------------------------------------------
VARIABLES
    buffer,    \* the Buffer
    unread,    \* the bytes it should hold
    got        \* what the last read returned, and what it should have returned

BufferStart ==
    /\ buffer = NewBuffer(kInitialSize)
    /\ unread = <<>>
    /\ got = <<0, 0>>

\* Bytes of every length up to n.
Strings(n) == UNION {[1 .. k -> Bytes] : k \in 0 .. n}

Write ==
    /\ \E s \in Strings(2) :
        /\ unread' = unread \o s
        /\ buffer' \in {append(buffer, s), readFd(buffer, s)}
    /\ UNCHANGED got

WriteInt ==
    /\ \E width \in 1 .. 2 : \E x \in 0 .. Base^width - 1 :
        \/ buffer' = appendInt(buffer, x, width) /\ unread' = unread \o hostToNetwork(x, width)
        \/ /\ width <= prependableBytes(buffer)
           /\ buffer' = prependInt(buffer, x, width) /\ unread' = hostToNetwork(x, width) \o unread
    /\ UNCHANGED got

Read ==
    \E n \in 0 .. Len(unread) :
        LET result == retrieveAsString(buffer, n) IN
        /\ unread' = SubSeq(unread, n + 1, Len(unread))
        /\ buffer' = result.rest
        /\ got' = <<networkToHost(result.bytes), networkToHost(SubSeq(unread, 1, n))>>

ReadInt ==
    \E n \in 1 .. 2 :
        /\ n <= Len(unread)
        /\ buffer' = readInt(buffer, n).rest
        /\ unread' = SubSeq(unread, n + 1, Len(unread))
        /\ got' = <<readInt(buffer, n).value, networkToHost(SubSeq(unread, 1, n))>>

Unwrite ==
    /\ \E n \in 0 .. Len(unread) :
        unread' = SubSeq(unread, 1, Len(unread) - n) /\ buffer' = unwrite(buffer, n)
    /\ UNCHANGED got

Shrink ==
    /\ \E reserve \in 0 .. 1 : buffer' = shrink(buffer, reserve)
    /\ UNCHANGED <<unread, got>>

BufferNext ==
    /\ \/ Write \/ WriteInt \/ Read \/ ReadInt \/ Unwrite \/ Shrink
    /\ Len(unread') <= MaxUnread /\ Len(buffer'.data) <= MaxVector

-----------------------------------------------------------------------------
(***************************************************************************)
(* Whatever was appended, prepended, read from a socket, taken back or     *)
(* moved by makeSpace and shrink: the readable part of the vector is the   *)
(* unread bytes in their order, what a read returns is what was written,   *)
(* and the indices stay within the vector.                                 *)
(***************************************************************************)
HoldsUnread ==
    /\ buffer.reader <= buffer.writer /\ buffer.writer <= Len(buffer.data)
    /\ toStringPiece(buffer) = unread
    /\ got[1] = got[2]
=============================================================================
