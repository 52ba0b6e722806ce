---------------------------- MODULE AsyncLogging ----------------------------
(***************************************************************************)
(* cnet/base/AsyncLogging: threads append lines to buffers, and a back end *)
(* thread swaps the buffers out and writes them to a LogFile.              *)
(*                                                                         *)
(* Every use of mutex_ is one step: append(), and the part of threadFunc() *)
(* that takes the buffers (two steps if it waits in between).  The wait on *)
(* cond_ ends by a notification, by its timeout or for no reason, and      *)
(* nothing is tested after it, so the model only says that it ends.  A     *)
(* buffer is the sequence of its lines [id, size]; newBuffer1, newBuffer2  *)
(* and nextBuffer_ are empty ones that are there or not.                   *)
(***************************************************************************)
EXTENDS LogFile, Sequences, SequencesExt, FiniteSets

CONSTANTS
    kLargeBuffer, MaxBuffers,    \* room of a buffer; 25, how many may wait
    Messages,                    \* lengths of messages
    MaxLines, MaxTime            \* bounds: lines logged, seconds passed

\* A line fits into an empty buffer, two buffers are never too many, and a file has its period.
ASSUME LogSizes ==
    /\ kSmallBuffer <= kLargeBuffer /\ MaxBuffers \in Nat /\ MaxBuffers >= 2
    /\ Messages \subseteq Nat /\ kRollPerSeconds \in Nat \ {0}

VARIABLE log

LogStart ==
    log = [current |-> <<>>, next |-> TRUE, buffers |-> <<>>,
           pc |-> "none", new1 |-> TRUE, new2 |-> TRUE,
           toWrite |-> <<>>, written |-> 0,           \* buffersToWrite, and i of its loop
           running |-> FALSE, owner |-> "new",        \* running_; who calls start and stop
           output |-> <<>>,                           \* the LogFile, once threadFunc made it
           now |-> 1, lines |-> 0, dropped |-> {}]

Length(buffer) == FoldFunction(LAMBDA line, n : line.size + n, 0, buffer)
Ids(buffer) == [i \in DOMAIN buffer |-> buffer[i].id]

append(lg, line) ==
    IF kLargeBuffer - Length(lg.current) > line.size
    THEN [lg EXCEPT !.current = Append(@, line)]
    ELSE [lg EXCEPT !.buffers = Append(@, lg.current), !.current = <<line>>, !.next = FALSE]

\* A line of the front end, of Logger's destructor; after a FATAL one the process aborts, with
\* whatever is not on disk.
Log(message, level) ==
    LET line == [id |-> log.lines + 1, size |-> LogLine(message)]
        logged == [append(log, line) EXCEPT !.lines = @ + 1]
    IN  /\ log.lines < MaxLines /\ log.pc # "aborted"
        /\ log' = IF level = "FATAL" THEN [logged EXCEPT !.pc = "aborted", !.owner = "aborted"]
                  ELSE logged

-----------------------------------------------------------------------------
(***************************************************************************)
(* The owner: start() waits for the latch, stop() joins.                   *)
(***************************************************************************)
start ==
    /\ log.owner = "new"
    /\ log' = [log EXCEPT !.owner = "starting", !.running = TRUE, !.pc = "begin"]

LatchOpens ==
    /\ log.owner = "starting" /\ log.pc # "begin"
    /\ log' = [log EXCEPT !.owner = "up"]

stop == log.owner = "up" /\ log' = [log EXCEPT !.owner = "joining", !.running = FALSE]

Join ==
    /\ log.owner = "joining" /\ log.pc = "done"
    /\ log' = [log EXCEPT !.owner = "joined"]

-----------------------------------------------------------------------------
(***************************************************************************)
(* threadFunc().                                                           *)
(***************************************************************************)
Begin == log.pc = "begin" /\ log' = [log EXCEPT !.pc = "while", !.output = NewLogFile(log.now)]

While ==
    /\ log.pc = "while"
    /\ log' = IF log.running THEN [log EXCEPT !.pc = "take"]
              ELSE [log EXCEPT !.pc = "done", !.output = flush(@)]

TakeBuffers_LosesCurrent(lg) ==
    [lg EXCEPT !.pc = "drop", !.toWrite = lg.buffers, !.buffers = <<>>, !.current = <<>>, !.new1 = FALSE,
               !.next = TRUE, !.new2 = @ /\ lg.next]

TakeBuffers(lg) ==
    [lg EXCEPT !.pc = "drop", !.toWrite = Append(lg.buffers, lg.current), !.buffers = <<>>,
               !.current = <<>>, !.new1 = FALSE,
               !.next = TRUE, !.new2 = @ /\ lg.next]

Take ==
    /\ log.pc = "take"
    /\ log' = IF log.buffers = <<>> THEN [log EXCEPT !.pc = "wait"] ELSE TakeBuffers(log)

WaitEnds == log.pc = "wait" /\ log' = TakeBuffers(log)

\* Too much to write: a notice, and only the first two buffers.
Drop ==
    /\ log.pc = "drop"
    /\ log' = IF Len(log.toWrite) > MaxBuffers
              THEN [log EXCEPT !.pc = "write",
                               !.output = append_unlocked(@, <<0>>, 1, log.now),
                               !.toWrite = SubSeq(@, 1, 2),
                               !.dropped = @ \cup ToSet(Ids(FlattenSeq(SubSeq(log.toWrite, 3, Len(log.toWrite)))))]
              ELSE [log EXCEPT !.pc = "write"]

Write ==
    /\ log.pc = "write" /\ log.written < Len(log.toWrite)
    /\ LET buffer == log.toWrite[log.written + 1]
       IN  log' = [log EXCEPT !.written = @ + 1,
                              !.output = append_unlocked(@, Ids(buffer), Length(buffer), log.now)]

\* The buffers just written serve again, reset; the rest is deleted.
Refill ==
    /\ log.pc = "write" /\ log.written = Len(log.toWrite)
    /\ log' = [log EXCEPT !.pc = "flush", !.new1 = TRUE, !.new2 = TRUE, !.toWrite = <<>>, !.written = 0]

Flush_Skipped == log.pc = "flush" /\ log' = [log EXCEPT !.pc = "while"]
Flush == log.pc = "flush" /\ log' = [log EXCEPT !.pc = "while", !.output = flush(@)]

Tick == log.now < MaxTime /\ log.running /\ log.pc # "aborted" /\ log' = [log EXCEPT !.now = @ + 1]

BackEnd == Begin \/ While \/ Take \/ WaitEnds \/ Drop \/ Write \/ Refill \/ Flush
LogNext ==
    \/ \E message \in Messages, level \in {"INFO", "FATAL"} : Log(message, level)
    \/ start \/ LatchOpens \/ stop \/ Join
    \/ BackEnd
    \/ Tick

\* The threads run, and waitForSeconds() times out.
LogFairness == WF_log(BackEnd) /\ WF_log(LatchOpens \/ Join)

-----------------------------------------------------------------------------
OnDisk == IF log.output = <<>> THEN <<>> ELSE log.output.disk
Held == IF log.output = <<>> THEN <<>> ELSE log.output.held
Waiting ==
    Ids(FlattenSeq(SubSeq(log.toWrite, log.written + 1, Len(log.toWrite)) \o log.buffers)
        \o log.current)

\* AsyncLogging.cc 27-123: through the swaps of the buffers, recycled ones, dropped ones and
\* files that roll, the lines on disk, in stdio and in the buffers are the lines logged, in the
\* order of append(), each once and none lost but the dropped ones; the buffers just written
\* suffice to replace those that were taken (the assertions at 108 and 115); and no two files
\* have one name (LogFile.cc 94).
LinesInOrder ==
    /\ LET all == OnDisk \o Held \o Waiting
       IN  /\ \A i, j \in DOMAIN all : (i < j /\ all[i] # 0 /\ all[j] # 0) => all[i] < all[j]
           /\ ToSet(all) \ {0} = (1 .. log.lines) \ log.dropped
    /\ log.pc = "write" =>
         Len(log.toWrite) >= (IF log.new1 THEN 0 ELSE 1) + (IF log.new2 THEN 0 ELSE 1)
    /\ log.output # <<>> =>
         \A i, j \in DOMAIN log.output.names : i < j => log.output.names[i] < log.output.names[j]

\* AsyncLogging.cc 61-121: while the back end runs, every line logged, before start() too, is
\* flushed to disk or was dropped for want of speed, also when no buffer ever fills; and stop()
\* returns although its notification may come when nobody waits (a FATAL line aborts both).
LinesReachDisk ==
    /\ \A n \in 1 .. MaxLines :
         (n <= log.lines /\ log.running)
           ~> (n \in ToSet(OnDisk) \cup log.dropped \/ ~log.running \/ log.pc = "aborted")
    /\ (log.owner = "joining") ~> (log.owner \in {"joined", "aborted"})
=============================================================================
