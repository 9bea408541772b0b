------------------------------ MODULE MCSudoku ------------------------------
(***************************************************************************)
(* A sudoku of four digits, with boxes of side 2.  With all relabellings   *)
(* the form generates 192 of the 288 valid grids, with SomeRelabels 128.   *)
(***************************************************************************)
EXTENDS Sudoku

SomeRelabels == {[k \in Index |-> k], [k \in Index |-> IF k < 2 THEN 1 - k ELSE k]}

SomeClues == {{0, 3, 6, 9}}

\* Grids whose rows are right, or whose columns are, and of these the ones that
\* hold each digit once in each row and column: only their boxes may be wrong.
SomeRows == {<<1, 2, 3, 4>>, <<2, 1, 4, 3>>, <<3, 4, 1, 2>>, <<4, 3, 2, 1>>,
             <<2, 3, 4, 1>>, <<3, 4, 2, 1>>, <<4, 1, 2, 3>>, <<3, 1, 4, 2>>}
ByRows ==
    {[i \in Cells |-> rows[(i \div Size) + 1][(i % Size) + 1]] :
        rows \in {<<1, 2, 3, 4>>} \X SomeRows \X SomeRows \X SomeRows}
ByColumns == {[i \in Cells |-> grid[((i % Size) * Size) + (i \div Size)]] : grid \in ByRows}
Latin == ByRows \cap ByColumns

\* What is not a digit in one cell.
NoDigits ==
    {[grid EXCEPT ![i] = b] : grid \in Latin, i \in Cells, b \in {0, Size + 1, 255}}

SomeGrids == ByRows \cup ByColumns \cup NoDigits
=============================================================================
