------------------------------ MODULE Matrices ------------------------------
(***************************************************************************)
(* The matrix functions that timeServer.c, seeWhat.c and showResults.c of  *)
(* Midterm each have a copy of.  A double is a reduced fraction <<n, d>>   *)
(* with d > 0 as long as no operation has rounded, Inexact after one may   *)
(* have, or NaN.  An infinity only comes from a division by a zero pivot,  *)
(* which stays on the diagonal and makes the determinant 0 * inf, that is  *)
(* NaN.                                                                    *)
(***************************************************************************)
EXTENDS Integers, Sequences

CONSTANT RoundedToZero  \* the matrices whose Inexact determinant comes out as 0.0

NaN == <<0, 0>>
Inexact == <<1, 0>>     \* any double, 0.0 and NaN included
Zero == <<0, 1>>
One == <<1, 1>>

AbsOf(x) == IF x < 0 THEN -x ELSE x

Fraction(n, d) ==
  IF d = 0 THEN NaN
  ELSE LET g == CHOOSE k \in 1 .. AbsOf(d) :
                  /\ n % k = 0 /\ AbsOf(d) % k = 0
                  /\ \A l \in (k + 1) .. AbsOf(d) : n % l # 0 \/ AbsOf(d) % l # 0
       IN  <<(IF d < 0 THEN -n ELSE n) \div g, AbsOf(d) \div g>>

Doubles == {NaN, Inexact} \cup (Int \X (Nat \ {0}))

\* Numbers of 24 bits over a power of two fit into a double, with room to spare.
Limit == 16777216
Fits(x) == Limit % x[2] = 0 /\ AbsOf(x[1]) <= Limit

\* The result of an operation on p and q that is n / d when it is a number: a
\* double that fits is that very number.
Rounded(p, q, n, d) ==
  LET x == Fraction(n, d)
  IN  IF Inexact \notin {p, q} /\ (x = NaN \/ Fits(x)) THEN x ELSE Inexact

Times(p, q) == Rounded(p, q, p[1] * q[1], p[2] * q[2])
Minus(p, q) == Rounded(p, q, p[1] * q[2] - q[1] * p[2], p[2] * q[2])
Over(p, q) == Rounded(p, q, p[1] * q[2], IF q = NaN THEN 0 ELSE p[2] * q[1])

\* A matrix is a tuple of rows.
Size(M) == Len(M)
Matrix(n, cell(_, _)) == [i \in 1 .. n |-> [j \in 1 .. n |-> cell(i, j)]]
Square(n, S) == [1 .. n -> [1 .. n -> S]]

-----------------------------------------------------------------------------

\* Rows k and k+1 change places if the next diagonal element is not zero,
\* whatever is below the pivot.
SwapRows(M, k) ==
  IF k < Size(M) /\ M[k + 1][k + 1] # Zero
  THEN [M EXCEPT ![k] = M[k + 1], ![k + 1] = M[k]]
  ELSE M

Pivoted(M, k) == IF M[k][k] = Zero THEN SwapRows(M, k) ELSE M

Eliminated(M, k) ==
  Matrix(Size(M), LAMBDA i, j :
    IF i > k /\ j >= k
    THEN Minus(M[i][j], Times(Over(M[i][k], M[k][k]), M[k][j]))
    ELSE M[i][j])

\* One turn of the loop, with the product of the diagonal.
Turn(x, k) ==
  LET P == Pivoted(x.matrix, k)
      s == IF x.matrix[k][k] = Zero THEN <<-1, 1>> ELSE One
  IN  [matrix |-> Eliminated(P, k), det |-> Times(x.det, Times(s, P[k][k]))]

Determinant(M) ==
  LET turns[k \in 0 .. Size(M)] ==
        IF k = 0 THEN [matrix |-> M, det |-> One] ELSE Turn(turns[k - 1], k)
  IN  turns[Size(M)].det

\* determinantOfMatrix(M) == 0.0.
Vanishes(M) ==
  \/ Determinant(M) = Zero
  \/ Determinant(M) = Inexact /\ M \in RoundedToZero

-----------------------------------------------------------------------------

Transpose(M) == Matrix(Size(M), LAMBDA i, j : M[j][i])

\* M without row i and column j.
Minor(M, i, j) ==
  Matrix(Size(M) - 1, LAMBDA k, l : M[IF k < i THEN k ELSE k + 1][IF l < j THEN l ELSE l + 1])

CoFactor(M) ==
  Matrix(Size(M), LAMBDA i, j :
    Times(IF (i + j) % 2 = 0 THEN One ELSE <<-1, 1>>, Determinant(Minor(M, i, j))))

NULL == <<>>

InverseOfMatrix(M) ==
  LET det == Determinant(M)
      B == Transpose(CoFactor(M))
  IN  IF Vanishes(M) THEN NULL ELSE Matrix(Size(M), LAMBDA i, j : Over(B[i][j], det))

-----------------------------------------------------------------------------

\* The quarters of a matrix of even size, by row and column.
Quarter(M, r, c) ==
  LET n == Size(M) \div 2 IN Matrix(n, LAMBDA i, j : M[(r - 1) * n + i][(c - 1) * n + j])

Quarters == {1, 2} \X {1, 2}

\* The NULL of another quarter than the first is followed.
CRASH == <<<<>>>>

ShiftedInverse(M) ==
  LET n == Size(M) \div 2
      inverse == [q \in Quarters |-> InverseOfMatrix(Quarter(M, q[1], q[2]))]
  IN  CASE Vanishes(Quarter(M, 1, 1)) -> NULL
        [] \E q \in Quarters : inverse[q] = NULL /\ inverse[<<1, 1>>] # NULL -> CRASH
        [] OTHER -> Matrix(Size(M), LAMBDA i, j :
             inverse[<<1 + ((i - 1) \div n), 1 + ((j - 1) \div n)>>]
               [1 + ((i - 1) % n)][1 + ((j - 1) % n)])

\* The kernel is flipped and its centre laid on (i, j); what is outside the
\* matrix is ignored.  The sum is added to heap, what malloc returned.
Convolution(M, kernel, heap) ==
  LET n == Size(M)
      Term(i, j, r, c) == IF i + r - 2 \in 1 .. n /\ j + c - 2 \in 1 .. n
                          THEN M[i + r - 2][j + c - 2][1] * kernel[4 - r][4 - c]
                          ELSE 0
      Row(i, j, r) == Term(i, j, r, 1) + Term(i, j, r, 2) + Term(i, j, r, 3)
  IN  Matrix(n, LAMBDA i, j :
        Fraction(heap + Row(i, j, 1) + Row(i, j, 2) + Row(i, j, 3), 1))
=============================================================================
