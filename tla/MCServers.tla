------------------------------ MODULE MCServers ------------------------------
(***************************************************************************)
(* TLC instance of the servers and of what they are made of: TcpServer,    *)
(* ThreadPool, SudokuServer (with the pool), SudokuStat and SudokuSolver.  *)
(* A behaviour runs one of them, which the initial state chooses.          *)
(***************************************************************************)
EXTENDS SudokuServer, SudokuStat, SudokuSolver, TcpServer

VARIABLE system

\* What clients ask: with and without id, a puzzle too short, a line without end.
Kinds == {"anonymous", "id", "short", "endless"}
Asked(kind, n) ==
    CASE kind = "anonymous" -> Ask(n, FALSE, kCells, kCells)
      [] kind = "id" -> Ask(n, TRUE, kCells, kCells + 2)
      [] kind = "short" -> Ask(n, FALSE, kCells - 1, kCells - 1)
      [] kind = "endless" -> SubSeq(Ask(n, TRUE, kCells, MaxLine + 1), 1, 1)
Asks ==
    {FlattenSeq([n \in 1 .. 3 |-> Asked(kinds[n], n)]) :
        kinds \in {k \in [1 .. 3 -> Kinds] : k[1] \in {"anonymous", "id"} /\ k[2] # "endless"}}

\* The programs and the threads of their pools; without any, all behave as basic does.
Programs ==
    {<<"basic", {}>>, <<"hybrid", {CHOOSE w \in Workers : TRUE}>>,
     <<"hybrid", Workers>>, <<"threadpool", Workers>>}

\* Boards of 4 x 4 cells: a legal one, one with two equal digits in a row, each with any of
\* seven cells empty, and one with a digit that there is not.
Board(digits) == [i \in 0 .. 15 |-> digits[i + 1]]
LegalBoard == Board(<<1, 2, 3, 4, 3, 4, 1, 2, 2, 1, 4, 3, 4, 3, 2, 1>>)
Boards ==
    {[i \in 0 .. 15 |-> IF i \in blank THEN 0 ELSE board[i]] :
        blank \in SUBSET {0, 1, 4, 5, 10, 11, 14}, board \in {LegalBoard, [LegalBoard EXCEPT ![2] = 4]}}
    \cup {[LegalBoard EXCEPT ![7] = 5]}

\* A latency, and one measured across a clock that was set back.
MicroSeconds == {-1, 2}

allVars == <<system, pool, sudoku, stat, solver, server>>

Init ==
    /\ system \in {"ThreadPool", "SudokuServer", "SudokuStat", "SudokuSolver", "TcpServer"}
    /\ StatStart
    /\ IF system = "SudokuSolver" THEN SolverStart ELSE solver = [pc |-> "idle"]
    /\ IF system = "SudokuServer"
       THEN \E program \in Programs, script \in Asks :
                PoolStart(program[2], 0) /\ SudokuStart(program[1], script)
       ELSE /\ PoolStart(IF system = "ThreadPool" THEN Workers ELSE {}, 1)
            /\ SudokuStart("basic", <<>>)
    /\ \/ system = "TcpServer" /\ \E n \in {0, 2} : ServerStart(SubSeq(SetToSeq(IoLoops), 1, n))
       \/ system # "TcpServer" /\ ServerStart(<<>>)

Next ==
    \/ system = "ThreadPool" /\ PoolNext /\ UNCHANGED <<system, sudoku, stat, solver, server>>
    \/ system = "SudokuServer" /\ SudokuNext /\ UNCHANGED <<system, stat, solver, server>>
    \/ system = "SudokuStat" /\ StatNext /\ UNCHANGED <<system, pool, sudoku, solver, server>>
    \/ system = "SudokuSolver" /\ SolverNext /\ UNCHANGED <<system, pool, sudoku, stat, server>>
    \/ system = "TcpServer" /\ ServerNext /\ UNCHANGED <<system, pool, sudoku, stat, solver>>

Spec == Init /\ [][Next]_allVars /\ PoolFairness /\ ServerFairness
=============================================================================
