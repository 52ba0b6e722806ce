---------------------------- MODULE SudokuSolver ----------------------------
(***************************************************************************)
(* examples/sudoku/sudoku.cc: the search for an exact cover with dancing   *)
(* links.                                                                  *)
(*                                                                         *)
(* Nodes are numbered in the order of nodes_, the root is 1; links is the  *)
(* record of the functions left, right, up, down, col, name and size.  A   *)
(* loop that follows one link takes its nodes from Along: neither cover    *)
(* nor uncover changes the links it walks by.  The recursion of solve() is *)
(* a stack of frames, and a step covers or uncovers the columns of a row.  *)
(* A board is a function of its cells, with 0 where it is empty.           *)
(***************************************************************************)
EXTENDS Naturals, Sequences, FiniteSets, SequencesExt

CONSTANTS
    Box,           \* 3: a box has Box x Box cells, and a line Box boxes
    Puzzles        \* boards to solve, as the digits of a request

VARIABLE solver

Side == Box * Box
Values == 1 .. Side
Cells == 0 .. Side * Side - 1
Root == 1

rowOf(i) == i \div Side
colOf(i) == i % Side
boxOf(i) == (rowOf(i) \div Box) * Box + colOf(i) \div Box

\* The names of columns: cells, and the places of a value in a row, a column and a box.
kRow == 100
kCol == 200
kBox == 300
get_row_col(row, v) == kRow + row * 10 + v
get_col_col(col, v) == kCol + col * 10 + v
get_box_col(box, v) == kBox + box * 10 + v

-----------------------------------------------------------------------------
(***************************************************************************)
(* Lists.                                                                  *)
(***************************************************************************)
put_left(d, old, new) ==
    [d EXCEPT !.left = [@ EXCEPT ![new] = d.left[old], ![old] = new],
              !.right = [@ EXCEPT ![new] = old, ![d.left[old]] = new]]

put_up(d, old, new) ==
    [d EXCEPT !.up = [@ EXCEPT ![new] = d.up[old], ![old] = new],
              !.down = [@ EXCEPT ![new] = old, ![d.up[old]] = new],
              !.size[old] = @ + 1, !.col[new] = old]

\* A new node, linked to itself.
new_column(d, n) ==
    LET c == Len(d.name) + 1
    IN  [left |-> Append(d.left, c), right |-> Append(d.right, c), up |-> Append(d.up, c),
         down |-> Append(d.down, c), col |-> Append(d.col, c), name |-> Append(d.name, n),
         size |-> Append(d.size, 0)]

append_column(d, n) == put_left(new_column(d, n), Root, Len(d.name) + 1)

\* columns_[n]: headers are the nodes that are their own column.
columnOf(d, n) == CHOOSE c \in DOMAIN d.name : d.col[c] = c /\ d.name[c] = n /\ c # Root
new_row(d, n) == put_up(new_column(d, n), columnOf(d, n), Len(d.name) + 1)

NoNodes == [left |-> <<>>, right |-> <<>>, up |-> <<>>, down |-> <<>>, col |-> <<>>,
            name |-> <<>>, size |-> <<>>]

-----------------------------------------------------------------------------
(***************************************************************************)
(* The constructor: a column for each thing still to be placed, a row of   *)
(* four nodes for each value that a cell may still take.                   *)
(***************************************************************************)
Used(board, i, v) ==
    \E k \in Cells : board[k] = v /\ (rowOf(k) = rowOf(i) \/ colOf(k) = colOf(i) \/ boxOf(k) = boxOf(i))

Missing(board, f(_), n, v) == \A k \in Cells : f(k) = n => board[k] # v

ColumnNames(board) ==
    SelectSeq([i \in 1 .. Side * Side |-> i - 1], LAMBDA i : board[i] = 0)
    \o FlattenSeq([k \in 1 .. Side * Side |->
         LET i == (k - 1) \div Side
             v == ((k - 1) % Side) + 1
         IN  (IF Missing(board, rowOf, i, v) THEN <<get_row_col(i, v)>> ELSE <<>>)
             \o (IF Missing(board, colOf, i, v) THEN <<get_col_col(i, v)>> ELSE <<>>)
             \o (IF Missing(board, boxOf, i, v) THEN <<get_box_col(i, v)>> ELSE <<>>)])

Candidates(board) ==
    SelectSeq([k \in 1 .. Side * Side * Side |-> <<(k - 1) \div Side, ((k - 1) % Side) + 1>>],
              LAMBDA c : board[c[1]] = 0 /\ ~Used(board, c[1], c[2]))

\* The four nodes of a cell and a value for it.
rowNodes(d, choice) ==
    LET i == choice[1]
        v == choice[2]
        n0 == Len(d.name) + 1
        four == new_row(new_row(new_row(new_row(d, i), get_row_col(rowOf(i), v)),
                                get_col_col(colOf(i), v)), get_box_col(boxOf(i), v))
    IN  put_left(put_left(put_left(four, n0, n0 + 1), n0, n0 + 2), n0, n0 + 3)

-----------------------------------------------------------------------------
(***************************************************************************)
(* cover, uncover and the choice of a column.                              *)
(***************************************************************************)
RECURSIVE AlongFrom(_, _, _)
AlongFrom(link, node, end) == IF node = end THEN <<>> ELSE <<node>> \o AlongFrom(link, link[node], end)
Along(link, start) == AlongFrom(link, link[start], start)

\* The nodes of the rows of a column, without the column's own.
Beside(c, vertical, horizontal) ==
    FlattenSeq([i \in DOMAIN Along(vertical, c) |-> Along(horizontal, Along(vertical, c)[i])])

unlinkNode(d, j) ==
    [d EXCEPT !.up[d.down[j]] = d.up[j], !.down[d.up[j]] = d.down[j], !.size[d.col[j]] = @ - 1]

linkNode(d, j) == [d EXCEPT !.size[d.col[j]] = @ + 1, !.up[d.down[j]] = j, !.down[d.up[j]] = j]

cover(d, c) ==
    FoldLeft(unlinkNode, [d EXCEPT !.left[d.right[c]] = d.left[c], !.right[d.left[c]] = d.right[c]],
             Beside(c, d.down, d.right))

uncover_ForgetsSize(d, c) ==
    LET e == FoldLeft(LAMBDA x, j : [x EXCEPT !.up[x.down[j]] = j, !.down[x.up[j]] = j], d,
                      Beside(c, d.up, d.left))
    IN  [e EXCEPT !.left[e.right[c]] = c, !.right[e.left[c]] = c]

uncover(d, c) ==
    LET e == FoldLeft(linkNode, d, Beside(c, d.up, d.left))
    IN  [e EXCEPT !.left[e.right[c]] = c, !.right[e.left[c]] = c]

\* The first column of at most one row before which none is smaller, or else the first of the smallest.
get_min_column(d) ==
    LET columns == Along(d.right, Root)
        best(c, cc) == IF d.size[c] > 1 /\ d.size[c] > d.size[cc] THEN cc ELSE c
    IN  FoldLeft(best, columns[1], columns)

-----------------------------------------------------------------------------
(***************************************************************************)
(* solveSudoku and solve().                                                *)
(***************************************************************************)
Valid(puzzle) == \A i \in Cells : puzzle[i] \in 0 .. Side

SolverStart ==
    \E puzzle \in Puzzles :
        solver = [puzzle |-> puzzle, board |-> puzzle,
                  links |-> IF Valid(puzzle) THEN new_column(NoNodes, 0) ELSE NoNodes,
                  first |-> NoNodes,
                  columns |-> IF Valid(puzzle) THEN ColumnNames(puzzle) ELSE <<>>,
                  rows |-> IF Valid(puzzle) THEN Candidates(puzzle) ELSE <<>>,
                  frames |-> <<>>, stack |-> <<>>,
                  pc |-> IF Valid(puzzle) THEN "build" ELSE "none"]

\* The constructor, a column or a row a step.
AddColumn ==
    /\ solver.pc = "build" /\ solver.columns # <<>>
    /\ solver' = [solver EXCEPT !.links = append_column(@, Head(solver.columns)), !.columns = Tail(@)]

AddRow ==
    /\ solver.pc = "build" /\ solver.columns = <<>> /\ solver.rows # <<>>
    /\ solver' = [solver EXCEPT !.links = rowNodes(@, Head(solver.rows)), !.rows = Tail(@)]

\* It returns; first keeps the links as it left them.
Built ==
    /\ solver.pc = "build" /\ solver.columns = <<>> /\ solver.rows = <<>>
    /\ solver' = [solver EXCEPT !.first = solver.links, !.pc = "solve"]

top == Last(solver.frames)
others(d, row) == [i \in DOMAIN Along(d.right, row) |-> d.col[Along(d.right, row)[i]]]
othersBack(d, row) == [i \in DOMAIN Along(d.left, row) |-> d.col[Along(d.left, row)[i]]]

\* The cell and the value of a row.
CellOf(d, row) == CHOOSE n \in {d.name[j] : j \in ToSet(Along(d.right, row)) \cup {row}} : n < kRow
ValueOf(d, row) == (CHOOSE n \in {d.name[j] : j \in ToSet(Along(d.right, row)) \cup {row}} : n >= kRow) % 10

Solved ==
    /\ solver.pc = "solve" /\ solver.links.left[Root] = Root
    /\ LET d == solver.links
       IN  solver' = [solver EXCEPT
             !.pc = "found",
             !.board = [i \in Cells |->
                IF \E n \in DOMAIN solver.stack : CellOf(d, solver.stack[n]) = i
                THEN ValueOf(d, solver.stack[CHOOSE n \in DOMAIN solver.stack : CellOf(d, solver.stack[n]) = i])
                ELSE @[i]]]

ChooseColumn ==
    /\ solver.pc = "solve" /\ solver.links.left[Root] # Root
    /\ LET c == get_min_column(solver.links)
       IN  solver' = [solver EXCEPT !.links = cover(@, c), !.pc = "try",
                                    !.frames = Append(@, [col |-> c, row |-> solver.links.down[c]])]

TryRow ==
    /\ solver.pc = "try" /\ top.row # top.col
    /\ solver' = [solver EXCEPT !.links = FoldLeft(cover, @, others(@, top.row)),
                                !.stack = Append(@, top.row), !.pc = "solve"]

\* A row that led nowhere.
Backtrack ==
    /\ solver.pc = "back"
    /\ LET d == FoldLeft(uncover, solver.links, othersBack(solver.links, top.row))
       IN  solver' = [solver EXCEPT !.links = d, !.stack = Front(@), !.pc = "try",
                                    !.frames[Len(solver.frames)].row = d.down[top.row]]

\* return false.
GiveUp ==
    /\ solver.pc = "try" /\ top.row = top.col
    /\ solver' = [solver EXCEPT !.links = uncover(@, top.col), !.frames = Front(@),
                                !.pc = IF Len(solver.frames) = 1 THEN "none" ELSE "back"]

SolverNext == AddColumn \/ AddRow \/ Built \/ Solved \/ ChooseColumn \/ TryRow \/ Backtrack \/ GiveUp

-----------------------------------------------------------------------------
\* Boards that obey the rules, and those that complete a puzzle.
Legal(board) ==
    /\ \A i \in Cells : board[i] \in Values
    /\ \A i, k \in Cells :
        i # k /\ (rowOf(i) = rowOf(k) \/ colOf(i) = colOf(k) \/ boxOf(i) = boxOf(k)) => board[i] # board[k]
Completions(puzzle) ==
    LET blank == {i \in Cells : puzzle[i] = 0}
    IN  {[i \in Cells |-> IF i \in blank THEN fill[i] ELSE puzzle[i]] : fill \in [blank -> Values]}

\* The columns that the rows on the stack and the frames' columns occupy.
Taken ==
    {solver.first.col[j] : j \in UNION {ToSet(Along(solver.first.right, r)) \cup {r} : r \in ToSet(solver.stack)}}
    \cup {solver.frames[n].col : n \in DOMAIN solver.frames}

(***************************************************************************)
(* sudoku.cc 95-133 and 218-242: the columns still linked are those that   *)
(* the rows chosen so far do not occupy, a column's size is the length of  *)
(* its list, and when every choice has failed the links are what they were *)
(* before.  A board is returned exactly if the puzzle can be completed,    *)
(* contradictory puzzles included, and then it is a legal completion.      *)
(***************************************************************************)
SolverExact ==
    /\ solver.pc \in {"solve", "try"} =>
         LET live == ToSet(Along(solver.links.right, Root))
         IN  /\ live = {c \in DOMAIN solver.first.name : solver.first.col[c] = c} \ (Taken \cup {Root})
             /\ \A c \in live : solver.links.size[c] = Len(Along(solver.links.down, c))
    /\ solver.pc = "none" =>
         solver.links = solver.first /\ \A board \in Completions(solver.puzzle) : ~Legal(board)
    /\ solver.pc = "found" => solver.board \in Completions(solver.puzzle) /\ Legal(solver.board)
=============================================================================
