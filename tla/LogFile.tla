------------------------------ MODULE LogFile ------------------------------
(***************************************************************************)
(* cnet/base/LogFile over FileUtil::AppendFile: a log that rolls to a new  *)
(* file by size and by day, and the line a Logger makes in its LogStream.  *)
(*                                                                         *)
(* A log file is a record: the seconds its files are named after, the      *)
(* lines on disk, those that stdio still holds (it writes them at a flush  *)
(* or a close at the latest), and the members of LogFile.  Lines are       *)
(* numbers, a piece of text is its length.                                 *)
(***************************************************************************)
EXTENDS Naturals, Sequences, Folds

CONSTANTS
    rollSize, flushInterval, checkEveryN, kRollPerSeconds,
    kSmallBuffer, kMaxNumericSize     \* room of a LogStream, and for a number in it

thisPeriod(now) == (now \div kRollPerSeconds) * kRollPerSeconds

\* file_->flush(), and the fclose() of the file that file_ leaves.
flush(f) == [f EXCEPT !.disk = @ \o f.held, !.held = <<>>]

rollFile(f, now) ==
    IF now > f.lastRoll
    THEN [flush(f) EXCEPT !.lastRoll = now, !.lastFlush = now, !.startOfPeriod = thisPeriod(now),
                          !.names = Append(@, now), !.written = 0]
    ELSE f

NewLogFile(now) ==
    rollFile([names |-> <<>>, disk |-> <<>>, held |-> <<>>, written |-> 0, count |-> 0,
              startOfPeriod |-> 0, lastRoll |-> 0, lastFlush |-> 0], now)

\* AppendFile::append: what fwrite takes in pieces arrives whole.
fileAppend(f, lines, len) == [f EXCEPT !.held = @ \o lines, !.written = @ + len]

check(f, now) ==
    IF thisPeriod(now) # f.startOfPeriod THEN rollFile(f, now)
    ELSE IF now - f.lastFlush > flushInterval THEN flush([f EXCEPT !.lastFlush = now])
    ELSE f

append_unlocked(f, lines, len, now) ==
    LET g == fileAppend(f, lines, len)
    IN  IF g.written > rollSize THEN rollFile(g, now)
        ELSE IF g.count + 1 >= checkEveryN THEN check([g EXCEPT !.count = 0], now)
        ELSE [g EXCEPT !.count = @ + 1]

-----------------------------------------------------------------------------
(***************************************************************************)
(* The front end: a piece that does not fit is left out, whole, and a      *)
(* number only if the longest one would not fit.                           *)
(***************************************************************************)
fixedAppend(length, size, piece) == IF size - length > piece THEN length + piece ELSE length
formatInteger(length, piece) ==
    IF kSmallBuffer - length >= kMaxNumericSize THEN length + piece ELSE length

\* Impl::Impl puts time, thread and level first, finish() the place and the line's end last.
finish(length) == fixedAppend(formatInteger(fixedAppend(length, kSmallBuffer, 2), 1), kSmallBuffer, 1)
LogLine(message) ==
    finish(fixedAppend(fixedAppend(0, kSmallBuffer, 3), kSmallBuffer, message))
=============================================================================
