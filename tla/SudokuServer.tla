---------------------------- MODULE SudokuServer ----------------------------
(***************************************************************************)
(* examples/sudoku/server_{basic,multiloop,threadpool,hybrid}.cc: one      *)
(* connection of a server, which solves in the loop of the connection or   *)
(* in a ThreadPool.  The connections of other loops (multiloop, hybrid)    *)
(* share only the pool with this one.                                      *)
(*                                                                         *)
(* A request line is a token with the size of its text, whether it has an  *)
(* id, and the length of the puzzle; clients put no CR into one.  The      *)
(* answer to request n is n.  A turn of the loop of onMessage is one step. *)
(***************************************************************************)
EXTENDS ThreadPool, Wire

CONSTANTS
    kCells,     \* 81
    MaxLine,    \* 100: longest input without a CR LF
    IoLoop      \* the loop of the connection, a producer of the pool

VARIABLE sudoku

\* Lines of requests; n numbers them from 1.  An answer is the number, or BadRequest.
BadRequest == 0
Ask(n, hasId, puzzle, size) ==
    <<[text |-> "request", n |-> n, hasId |-> hasId, puzzle |-> puzzle, size |-> size]>> \o CRLF

\* kind is the program; script is what the client writes.
SudokuStart(kind, script) ==
    sudoku = [kind |-> kind, wire |-> script, sent |-> script, input |-> <<>>,
              reading |-> FALSE,                     \* in the loop of onMessage
              connected |-> TRUE, fin |-> FALSE,     \* before shutdown(), after shutdownWrite()
              functors |-> <<>>,                     \* answers of other threads, queued to the loop
              taken |-> <<>>, out |-> <<>>]          \* good requests, and what was written

Size(input) == FoldSeq(LAMBDA x, sum : sum + IF x.text = "request" THEN x.size ELSE 1, 0, input)

\* conn->send in the loop, and from a worker: by sendInLoop, which the loop runs later.
SendInLoop(sk, answer) == [sk EXCEPT !.out = IF sk.fin THEN @ ELSE Append(@, answer)]
SendHere(sk, answer) == IF sk.connected THEN SendInLoop(sk, answer) ELSE sk
SendFromWorker(sk, answer) ==
    IF sk.connected THEN [sk EXCEPT !.functors = Append(@, answer)] ELSE sk

\* The answer to a line that is refused, shutdown() and the break.
Refuse(sk) == [SendHere(sk, BadRequest) EXCEPT !.connected = FALSE, !.reading = FALSE]

\* processRequest's verdict; hybrid wants an id when several threads solve.
GoodRequest_AnyId(line) == Len(line) = 1 /\ line[1].text = "request" /\ line[1].puzzle = kCells
GoodRequest(line) ==
    /\ Len(line) = 1 /\ line[1].text = "request" /\ line[1].puzzle = kCells
    /\ ~(sudoku.kind = "hybrid" /\ ~line[1].hasId /\ Cardinality(pool.threads) > 1)

\* A message arrives.
ReadMessage(n) ==
    /\ ~sudoku.reading
    /\ n <= Len(sudoku.wire)
    /\ sudoku' = [sudoku EXCEPT !.input = @ \o SubSeq(sudoku.wire, 1, n), !.wire = Retrieve(@, n),
                                !.reading = TRUE]
    /\ UNCHANGED pool

\* processRequest with a good request n: without a pool the loop solves it, with one a worker.
SolveHere(sk, n) == pool.threads = {} /\ sudoku' = SendHere(sk, n) /\ UNCHANGED pool
HandOver(sk, n) == pool.threads # {} /\ sudoku' = sk /\ pool' \in run(pool, IoLoop, n)

\* A turn of the loop with a whole line.
ProcessLine ==
    LET line == Line(sudoku.input)
        rest == [sudoku EXCEPT !.input = RetrieveLine(@)]
        good == [rest EXCEPT !.taken = Append(@, line[1].n)]
    IN  /\ sudoku.reading /\ Size(sudoku.input) >= kCells + 2 /\ findCRLF(sudoku.input) # 0
        /\ \/ ~GoodRequest(line) /\ sudoku' = Refuse(rest) /\ UNCHANGED pool
           \/ GoodRequest(line) /\ (SolveHere(good, line[1].n) \/ HandOver(good, line[1].n))

\* The loop ends without a line: too short, too long, or not all there.
EndMessage ==
    /\ sudoku.reading
    /\ \/ Size(sudoku.input) < kCells + 2 /\ sudoku' = [sudoku EXCEPT !.reading = FALSE]
       \/ /\ Size(sudoku.input) >= kCells + 2 /\ findCRLF(sudoku.input) = 0
          /\ sudoku' = IF Size(sudoku.input) > MaxLine THEN Refuse(sudoku)
                       ELSE [sudoku EXCEPT !.reading = FALSE]
    /\ UNCHANGED pool

\* A worker solves a puzzle and sends the answer.
solve(w) == TaskDone(w) /\ sudoku' = SendFromWorker(sudoku, pool.task[w])

\* Between messages the loop runs what was queued to it, and completes a shutdown.
RunSendInLoop ==
    /\ ~sudoku.reading /\ sudoku.functors # <<>>
    /\ sudoku' = [SendInLoop(sudoku, Head(sudoku.functors)) EXCEPT !.functors = Tail(@)]
    /\ UNCHANGED pool
FinishShutdown ==
    /\ ~sudoku.reading /\ ~sudoku.connected /\ ~sudoku.fin
    /\ sudoku' = [sudoku EXCEPT !.fin = TRUE] /\ UNCHANGED pool

SudokuNext ==
    \/ \E n \in 1 .. Len(sudoku.wire) : ReadMessage(n)
    \/ ProcessLine \/ EndMessage \/ RunSendInLoop \/ FinishShutdown
    \/ \E w \in Workers : solve(w) \/ (Take(w) /\ UNCHANGED sudoku)

-----------------------------------------------------------------------------
\* The request n has no id.
Anonymous(n) == \A x \in ToSet(sudoku.sent) : (x.text = "request" /\ x.n = n) => ~x.hasId

\* Nothing is under way any more.
Quiet ==
    /\ sudoku.wire = <<>> /\ ~sudoku.reading /\ sudoku.functors = <<>>
    /\ pool.queue = <<>> /\ \A w \in Workers : pool.task[w] = NoTask

(***************************************************************************)
(* A client that leaves out the ids can tell which answer belongs to which *)
(* request: without ids answers come in the order of the requests, except  *)
(* from server_threadpool with several threads.  No request is answered    *)
(* twice, and none stays unanswered unless the server refused a line.      *)
(***************************************************************************)
AnswersInOrder ==
    LET taken == sudoku.taken
        out == sudoku.out IN
    /\ ~(sudoku.kind = "threadpool" /\ Cardinality(pool.threads) > 1) =>
         \A i \in DOMAIN out, k \in DOMAIN taken : \A j \in 1 .. k - 1 :
            (out[i] = taken[k] /\ Anonymous(taken[j]) /\ Anonymous(taken[k]))
              => \E h \in 1 .. i - 1 : out[h] = taken[j]
    /\ \A i, j \in DOMAIN out : (out[i] = out[j] /\ out[i] # BadRequest) => i = j
    /\ ToSet(out) \ {BadRequest} \subseteq ToSet(taken)
    /\ Quiet /\ sudoku.connected => ToSet(taken) \subseteq ToSet(out)
=============================================================================
