------------------------------- MODULE Sudoku -------------------------------
(***************************************************************************)
(* The sudoku example end to end: the form makes a puzzle and takes the    *)
(* prover's entries (sudoku-form.ts), toInputs makes the two grids of it   *)
(* (examples.ts), and the guest decides whether one completes the other    *)
(* (demo/guests/sudoku).  Cells are numbered from 0, row by row, as there. *)
(***************************************************************************)
EXTENDS Integers, FiniteSets, Functions

CONSTANTS
    Side,       \* the side of a box, 3 in the code
    Relabels,   \* the digit relabellings that are tried
    Clues,      \* the sets of cells that are tried as clues
    Forgeries,  \* the grids that a script may stage instead of the form's
    MaxEdits    \* bound: entries since the last new puzzle

Size == Side * Side
Index == 0..Size - 1
Cells == 0..Size * Size - 1
Digits == 1..Size
Blank == 0
Grids == [Cells -> {Blank} \cup Digits]

ASSUME SudokuAssumption ==
    /\ Side \in Nat \ {0}
    /\ Relabels \subseteq Bijection(Index, Index)
    /\ Clues \subseteq SUBSET Cells
    /\ Forgeries \subseteq [Cells -> 0..255]
    /\ MaxEdits \in Nat

VARIABLES
    solution,   \* the cells of the form, Blank if empty
    givens,     \* the cells that are clues
    staged,     \* what the script stages instead, if it does
    edits       \* entries since the puzzle was made

sudokuVars == <<solution, givens, staged, edits>>

SudokuTypeOK ==
    /\ solution \in Grids /\ givens \subseteq Cells
    /\ staged \subseteq Forgeries /\ Cardinality(staged) <= 1
    /\ edits \in 0..MaxEdits

-----------------------------------------------------------------------------
(* The form.                                                               *)

\* bandPerm: the bands in some order and the rows of each in some order.
BandPerms ==
    LET Shuffles == Bijection(0..Side - 1, 0..Side - 1)
    IN {[k \in Index |-> (Side * bands[k \div Side]) + rows[k \div Side][k % Side]] :
            bands \in Shuffles, rows \in [0..Side - 1 -> Shuffles]}

\* Mutant: each row is the one above shifted by one, whatever its band.
Pattern_unshifted(r, c) == (Side * (r % Side) + c) % Size

Pattern(r, c) == (Side * (r % Side) + (r \div Side) + c) % Size

\* generateSolution.
Generated ==
    {[cell \in Cells |->
        LET r == IF transpose THEN cell % Size ELSE cell \div Size
            c == IF transpose THEN cell \div Size ELSE cell % Size
        IN labels[Pattern(rows[r], columns[c])] + 1] :
     labels \in Relabels, rows \in BandPerms, columns \in BandPerms,
     transpose \in BOOLEAN}

SudokuInit ==
    /\ solution \in Generated
    /\ givens \in Clues
    /\ staged = {} /\ edits = 0

\* "new puzzle".
Regenerate ==
    /\ solution' \in Generated
    /\ givens' \in Clues
    /\ staged' = {} /\ edits' = 0

\* An entry of the prover; a clue is read-only.
Enter(i) ==
    /\ edits < MaxEdits /\ i \notin givens
    /\ \E v \in ({Blank} \cup Digits) \ {solution[i]} :
          solution' = [solution EXCEPT ![i] = v]
    /\ edits' = edits + 1 /\ UNCHANGED <<givens, staged>>

\* The orchestration script is the prover's to edit: it may stage any bytes.
Stage ==
    /\ edits < MaxEdits
    /\ \E grid \in Forgeries : staged' = {grid}
    /\ edits' = edits + 1 /\ UNCHANGED <<solution, givens>>

\* The public input: the clues, and blanks elsewhere.
Puzzle == [i \in Cells |-> IF i \in givens THEN solution[i] ELSE Blank]

\* The private input.
Staged == IF staged = {} THEN solution ELSE CHOOSE grid \in staged : TRUE

SudokuNext == Regenerate \/ (\E i \in Cells : Enter(i)) \/ Stage

SudokuSpec == SudokuInit /\ [][SudokuNext]_sudokuVars

-----------------------------------------------------------------------------
(* The guest.  It counts violations; a violation is a pair of numbers here *)
(* and counting is Cardinality.                                            *)

row_idx(r) == [k \in Index |-> r * Size + k]
col_idx(c) == [k \in Index |-> k * Size + c]

\* Mutant: the band of a box not scaled to its first row.
box_idx_unscaled(b) ==
    LET br == b \div Side
        bc == (b % Side) * Side
    IN [k \in Index |-> (br + k \div Side) * Size + bc + (k % Side)]

box_idx(b) ==
    LET br == (b \div Side) * Side
        bc == (b % Side) * Side
    IN [k \in Index |-> (br + k \div Side) * Size + bc + (k % Side)]

group_dups(grid, idx) ==
    Cardinality({pair \in Index \X Index :
        pair[1] < pair[2] /\ grid[idx[pair[1]]] = grid[idx[pair[2]]]})

\* The three counts are sums of terms that are not negative, and only whether
\* they are zero is used: `dups` is zero iff that of every group is.
validate(puzzle, grid) ==
    /\ Cardinality({i \in Cells : grid[i] < 1 \/ grid[i] > Size}) = 0
    /\ Cardinality({i \in Cells : puzzle[i] # 0 /\ grid[i] # puzzle[i]}) = 0
    /\ \A g \in Index :
          /\ group_dups(grid, row_idx(g)) = 0
          /\ group_dups(grid, col_idx(g)) = 0
          /\ group_dups(grid, box_idx(g)) = 0

-----------------------------------------------------------------------------
(* What it means to solve a sudoku, by rows, columns and boxes of cells.   *)

Row(i) == i \div Size
Column(i) == i % Size
Box(i) == <<Row(i) \div Side, Column(i) \div Side>>

Holds(grid, unit) == {grid[i] : i \in unit} = Digits

Completes(puzzle, grid) ==
    /\ \A i \in Cells : puzzle[i] # Blank => grid[i] = puzzle[i]
    /\ \A i \in Cells :
          /\ Holds(grid, {j \in Cells : Row(j) = Row(i)})
          /\ Holds(grid, {j \in Cells : Column(j) = Column(i)})
          /\ Holds(grid, {j \in Cells : Box(j) = Box(i)})

-----------------------------------------------------------------------------
(* Properties.                                                             *)

\* The guest's verdict is the sudoku rule: no violation is counted iff every
\* row, column and box holds each digit and the clues are kept.
\* (validate in demo/guests/sudoku/src/lib.rs.)
VerdictIsExact == validate(Puzzle, Staged) <=> Completes(Puzzle, Staged)

\* A puzzle the form has made and nobody has touched is proved valid, whatever
\* was shuffled.  (sudoku-form.ts, "so the example runs green out of the box".)
RunsGreen == edits = 0 => validate(Puzzle, Staged)
=============================================================================
