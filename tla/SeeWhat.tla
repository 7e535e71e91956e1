------------------------------ MODULE SeeWhat -------------------------------
(***************************************************************************)
(* The computation of Midterm: the server generates matrices until the     *)
(* determinant of one is not 0.0 and sends it; the client compares this    *)
(* determinant with those of the shifted inverse and of a convolution, and *)
(* does so again after every SIGUSR1 it sends, with the same matrix.       *)
(* TimeServer has the processes and the messages.                          *)
(***************************************************************************)
EXTENDS Matrices, FiniteSetsExt, TLC

CONSTANTS
  Generated,      \* the matrices of integers that matrixGenerator may return
  Heap            \* what the cells that malloc returns may hold

ASSUME SeeWhatAssumption ==
  /\ Heap \subseteq -Limit .. Limit
  /\ \A M \in Generated : /\ Size(M) \in Nat \ {0} /\ Size(M) % 2 = 0
                          /\ M \in Square(Size(M), (-10 .. 10) \X {1})

VARIABLES
  pc,             \* what comes next
  dbPtrPtrM,      \* the client's matrix
  dbDeterminant,
  dbPtrPtrTemp,   \* the shifted inverse
  dbConvolution,  \* the convolution, less what was in its cells before
  dbResult1, dbResult2

computationVars == <<pc, dbPtrPtrM, dbDeterminant, dbPtrPtrTemp, dbConvolution, dbResult1, dbResult2>>

ComputationTypeOK ==
  /\ pc \in {"generate", "determinant", "shifted", "convolution", "crashed"}
  /\ dbPtrPtrM \in Generated \cup {NULL}
  /\ dbDeterminant \in Doubles /\ dbResult1 \in Doubles /\ dbResult2 \in Doubles
  /\ dbPtrPtrTemp \in {NULL} \cup Square(Size(dbPtrPtrM), Doubles)
  /\ dbConvolution \in {NULL} \cup Square(Size(dbPtrPtrM), Int)

ComputationInit ==
  /\ pc = "generate"
  /\ dbPtrPtrM = NULL /\ dbPtrPtrTemp = NULL /\ dbConvolution = NULL
  /\ dbDeterminant = NaN
  /\ dbResult1 = Zero /\ dbResult2 = Zero

-----------------------------------------------------------------------------

\* The condition of the server's loop.
Accepted(M) == ~Vanishes(M)

\* What the server generates last and the client receives.
Generate(M) ==
  /\ pc = "generate"
  /\ Accepted(M)
  /\ dbPtrPtrM' = M
  /\ pc' = "determinant"
  /\ UNCHANGED <<dbDeterminant, dbPtrPtrTemp, dbConvolution, dbResult1, dbResult2>>

\* Fault: the sign stays when rows have changed places.
ComputeDeterminantUnsigned ==
  /\ pc = "determinant"
  /\ dbDeterminant' = Times(Determinant(dbPtrPtrM),
                            IF dbPtrPtrM[1][1] = Zero THEN <<-1, 1>> ELSE One)
  /\ pc' = "shifted"
  /\ UNCHANGED <<dbPtrPtrM, dbPtrPtrTemp, dbConvolution, dbResult1, dbResult2>>

ComputeDeterminant ==
  /\ pc = "determinant"
  /\ dbDeterminant' = Determinant(dbPtrPtrM)
  /\ pc' = "shifted"
  /\ UNCHANGED <<dbPtrPtrM, dbPtrPtrTemp, dbConvolution, dbResult1, dbResult2>>

\* S is what shiftedInverse returns and M what it leaves of the matrix;
\* without a result dbResult1 keeps its value.
Shift(S, M) ==
  /\ pc = "shifted"
  /\ IF S = CRASH
     THEN pc' = "crashed" /\ UNCHANGED <<dbPtrPtrM, dbPtrPtrTemp, dbResult1>>
     ELSE /\ pc' = "convolution"
          /\ dbPtrPtrM' = M /\ dbPtrPtrTemp' = S
          /\ dbResult1' = IF S = NULL THEN dbResult1 ELSE Minus(dbDeterminant, Determinant(S))
  /\ UNCHANGED <<dbDeterminant, dbConvolution, dbResult2>>

\* Faults: the inverses are written over the quarters, as showResults.c does;
\* the cofactors are not transposed; the check of the quarters is left out.
ShiftInPlace ==
  LET S == ShiftedInverse(dbPtrPtrM) IN Shift(S, IF S = NULL THEN dbPtrPtrM ELSE S)
ShiftNotTransposed ==
  LET S == ShiftedInverse(dbPtrPtrM)
  IN  Shift(IF S \in {NULL, CRASH} THEN S ELSE Transpose(S), dbPtrPtrM)
ShiftUnchecked ==
  Shift(IF ShiftedInverse(dbPtrPtrM) = NULL THEN CRASH ELSE ShiftedInverse(dbPtrPtrM), dbPtrPtrM)

ComputeShifted == Shift(ShiftedInverse(dbPtrPtrM), dbPtrPtrM)

skewSymmetric == <<<<0, 1, -1>>, <<-1, 0, -1>>, <<1, 1, 0>>>>

\* The result of convolution with the kernel, and the next turn of the loop.
Convolve(kernel, heap) ==
  LET C == Convolution(dbPtrPtrM, kernel, heap) IN
  /\ pc = "convolution"
  /\ dbConvolution' = Matrix(Size(C), LAMBDA i, j : C[i][j][1] - heap)
  /\ dbResult2' = Minus(dbDeterminant, Determinant(C))
  /\ pc' = "determinant"
  /\ UNCHANGED <<dbPtrPtrM, dbDeterminant, dbPtrPtrTemp, dbResult1>>

\* Fault: the kernel is not flipped.
ComputeConvolutionUnflipped(heap) ==
  Convolve([k \in 1 .. 3 |-> [l \in 1 .. 3 |-> skewSymmetric[4 - k][4 - l]]], heap)

ComputeConvolution(heap) == Convolve(skewSymmetric, heap)

-----------------------------------------------------------------------------

ComputationNext ==
  \/ \E M \in Generated : Generate(M)
  \/ ComputeDeterminant \/ ComputeShifted
  \/ \E heap \in Heap : ComputeConvolution(heap)

Computation == ComputationInit /\ [][ComputationNext]_computationVars

-----------------------------------------------------------------------------
(***************************************************************************)
(* Properties.                                                             *)
(***************************************************************************)

\* The determinant of a matrix of integers, as a sum over permutations.
Leibniz(M) ==
  LET n == Size(M)
      Sign(p) == LET inversions == {ij \in (1 .. n) \X (1 .. n) :
                                      ij[1] < ij[2] /\ p[ij[1]] > p[ij[2]]}
                 IN  IF Cardinality(inversions) % 2 = 0 THEN 1 ELSE -1
      Product(p) == LET f[i \in 0 .. n] == IF i = 0 THEN Sign(p) ELSE f[i - 1] * M[i][p[i]][1]
                    IN  f[n]
  IN  MapThenSumSet(Product, Permutations(1 .. n))

\* Elimination that only ever looks for a pivot in the next row gives the
\* determinant, or NaN, as long as every step of it is exact in doubles.  Of a
\* determinant with a rounded step nothing is said: it need not even be 0.0
\* when the matrix is singular.
DeterminantExact ==
  pc \in {"shifted", "convolution"} =>
    dbDeterminant \in {NaN, Inexact, Fraction(Leibniz(dbPtrPtrM), 1)}

\* Every quarter of the shifted inverse is the inverse of that quarter of the
\* matrix, as far as nothing on the way is NaN or rounded.
InversesExact ==
  pc = "convolution" /\ dbPtrPtrTemp # NULL =>
    LET n == Size(dbPtrPtrM) \div 2 IN
    \A q \in Quarters :
      LET A == Quarter(dbPtrPtrM, q[1], q[2])
          B == Quarter(dbPtrPtrTemp, q[1], q[2])
          Entry(i, j) == LET f[k \in 0 .. n] ==
                               IF k = 0 THEN Zero
                               ELSE Minus(f[k - 1], Times(A[i][k], B[k][j]))
                         IN  f[n]
      IN  \A i, j \in 1 .. n : Entry(i, j) \in {NaN, Inexact, IF i = j THEN <<-1, 1>> ELSE Zero}

\* The client only dies of a quarter other than the first, which nobody has
\* looked at: a singular one, or one whose determinant was rounded to 0.0.  A
\* quarter in which no pivot was found has the determinant NaN and is harmless.
CrashMeansSingular ==
  pc = "crashed" =>
    \E q \in Quarters \ {<<1, 1>>} :
      LET Q == Quarter(dbPtrPtrM, q[1], q[2])
      IN  Leibniz(Q) = 0 \/ (Determinant(Q) = Inexact /\ Q \in RoundedToZero)

\* The convolution with the kernel written out: every cell is a sum of six of
\* its neighbours, of which those outside the matrix count as 0.
ConvolutionExact ==
  pc = "determinant" /\ dbConvolution # NULL =>
    LET n == Size(dbPtrPtrM)
        At(i, j) == IF i \in 1 .. n /\ j \in 1 .. n THEN dbPtrPtrM[i][j][1] ELSE 0
    IN  \A i, j \in 1 .. n :
          dbConvolution[i][j] =   At(i - 1, j) + At(i - 1, j + 1) - At(i, j - 1)
                                - At(i, j + 1) - At(i + 1, j - 1) + At(i + 1, j)

\* However often the client asks again, what it computes from its matrix
\* stays the same; only dbResult2 depends on the cells malloc returned.
SameEveryTime ==
  [][dbConvolution # NULL => /\ dbDeterminant' = dbDeterminant
                             /\ dbPtrPtrTemp' = dbPtrPtrTemp
                             /\ dbResult1' = dbResult1
                             /\ dbConvolution' = dbConvolution]_computationVars
=============================================================================
