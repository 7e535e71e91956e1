------------------------------- MODULE Verify -------------------------------
(***************************************************************************)
(* p3Verify of Final/server.c: the error of a solution X of A X = B, with  *)
(* the matrix functions it calls, for the first of the three solutions. A  *)
(* matrix is stored as [column][row]; the root of the sum of squares is    *)
(* left out.                                                               *)
(***************************************************************************)
EXTENDS Integers, FiniteSetsExt

CONSTANTS
  MAX_SIZE_MATRIX,
  Numbers,        \* what rand may return
  Garbage         \* what nobody has assigned

Index == 0 .. MAX_SIZE_MATRIX - 1
VECTOR == 1

Array(Cell(_, _)) == [c \in Index |-> [r \in Index |-> Cell(c, r)]]

\* In the segment the client's zeros are left where nothing was generated.
First(n) == Array(LAMBDA c, r : IF c = 0 /\ r = 0 THEN n ELSE 0)

-----------------------------------------------------------------------------

\* result is cleared for the sizes of the other side of the product.
MultiplyMatrices(first, mCol1, pRow1, second, mCol2, pRow2, result) ==
  LET Sum(c, r) == LET terms == {<<first[k][r], second[c][k]>> : k \in 0 .. mCol1 - 1}
                   IN  IF \E t \in terms : Garbage \in {t[1], t[2]} THEN Garbage
                       ELSE MapThenSumSet(LAMBDA k : first[k][r] * second[c][k], 0 .. mCol1 - 1)
      Cleared(c, r) == IF c < mCol1 /\ r < pRow2 THEN 0 ELSE result[c][r]
  IN  [c \in Index |-> [r \in Index |->
        IF ~(r < pRow1 /\ c < mCol2) THEN Cleared(c, r)
        ELSE IF Garbage \in {Cleared(c, r), Sum(c, r)} THEN Garbage
        ELSE Cleared(c, r) + Sum(c, r)]]

\* [i][j] is cleared and [j][i] assigned.
SubstractMatrices(first, second, mCol, pRow, result) ==
  [c \in Index |-> [r \in Index |->
    IF r < mCol /\ c < pRow
    THEN IF Garbage \in {first[c][r], second[c][r]} THEN Garbage ELSE first[c][r] - second[c][r]
    ELSE IF c < mCol /\ r < pRow THEN 0 ELSE result[c][r]]]

TranposeMatrix(original, transpose, mCol, pRow) ==
  [c \in Index |-> [r \in Index |->
    IF c < mCol /\ r < pRow THEN original[r][c] ELSE transpose[c][r]]]

-----------------------------------------------------------------------------

VARIABLES
  pc,                       \* what p3Verify does next
  mCol, pRow, matrixA, matrixX, matrixB,                             \* the segment
  AXdMatrix, ErrorMatrix, ErrorTransMatrix, ErrorNormMatrix          \* the stack

given == <<mCol, pRow, matrixA, matrixX, matrixB>>
vars == <<pc, given, AXdMatrix, ErrorMatrix, ErrorTransMatrix, ErrorNormMatrix>>

\* The sizes come from the client.  P1 fills A, and then, with the same seed,
\* B, of which it generates a row instead of a column: the first cell is that
\* of A and the others belong to X and what follows.  P2 copies the same way:
\* only the first cell of X is a solution's.
Init ==
  /\ pc = "multiply"
  /\ mCol \in 1 .. MAX_SIZE_MATRIX /\ pRow \in 1 .. MAX_SIZE_MATRIX
  /\ \E cells \in [0 .. mCol - 1 -> [0 .. pRow - 1 -> Numbers]] :
       matrixA = Array(LAMBDA c, r : IF c < mCol /\ r < pRow THEN cells[c][r] ELSE 0)
  /\ matrixB = First(matrixA[0][0])
  /\ \E n \in Numbers : matrixX = First(n)
  /\ AXdMatrix = Array(LAMBDA c, r : Garbage)
  /\ ErrorMatrix = AXdMatrix /\ ErrorTransMatrix = AXdMatrix /\ ErrorNormMatrix = AXdMatrix

\* What follows the only column of B: X, and then the other solutions.
BAndBeyond ==
  Array(LAMBDA c, r : CASE c = 0 -> matrixB[0][r] [] c = 1 -> matrixX[0][r] [] OTHER -> Garbage)

Multiply ==
  /\ pc = "multiply"
  /\ AXdMatrix' = MultiplyMatrices(matrixA, mCol, pRow, matrixX, VECTOR, mCol, AXdMatrix)
  /\ pc' = "substract"
  /\ UNCHANGED <<given, ErrorMatrix, ErrorTransMatrix, ErrorNormMatrix>>

Substract ==
  /\ pc = "substract"
  /\ ErrorMatrix' = SubstractMatrices(AXdMatrix, BAndBeyond, VECTOR, pRow, ErrorMatrix)
  /\ pc' = "norm"
  /\ UNCHANGED <<given, AXdMatrix, ErrorTransMatrix, ErrorNormMatrix>>

Norm ==
  /\ pc = "norm"
  /\ ErrorTransMatrix' = TranposeMatrix(ErrorMatrix, ErrorTransMatrix, VECTOR, pRow)
  /\ ErrorNormMatrix' = MultiplyMatrices(ErrorMatrix, VECTOR, pRow, ErrorTransMatrix',
                                         pRow, VECTOR, ErrorNormMatrix)
  /\ pc' = "done"
  /\ UNCHANGED <<given, AXdMatrix, ErrorMatrix>>

Next == Multiply \/ Substract \/ Norm

Spec == Init /\ [][Next]_vars

-----------------------------------------------------------------------------
(***************************************************************************)
(* Properties.                                                             *)
(***************************************************************************)

\* "Find Error Norm": what p3Verify takes the root of is the sum of the
\* squares of A X - B, when the rows are no more than the columns, so that
\* the product has no uninitialised cell.
ErrorIsNorm ==
  pc = "done" /\ pRow <= mCol =>
    LET Row(r) == MapThenSumSet(LAMBDA k : matrixA[k][r] * matrixX[0][k], 0 .. mCol - 1)
                  - matrixB[0][r]
    IN  ErrorNormMatrix[0][0] = MapThenSumSet(LAMBDA r : Row(r) * Row(r), 0 .. pRow - 1)
=============================================================================
