----------------------------- MODULE MCSeeWhat ------------------------------
(***************************************************************************)
(* SeeWhat on every 2x2 matrix over -2 .. 2 and on the 4x4 matrices made   *)
(* of four 2x2 blocks: regular, singular, some of which the elimination    *)
(* finds no pivot for, and some whose elimination rounds.                  *)
(***************************************************************************)
EXTENDS SeeWhat

Whole(M) == Matrix(Len(M), LAMBDA i, j : <<M[i][j], 1>>)

Small == {Whole(<<<<a, b>>, <<c, d>>>>) : a, b, c, d \in -2 .. 2}

Block == {<<<<1, 2>>, <<3, 4>>>>, <<<<0, 1>>, <<1, 0>>>>, <<<<1, 1>>, <<1, 1>>>>,
          <<<<0, 1>>, <<-1, 2>>>>, <<<<2, 1>>, <<1, 0>>>>, <<<<-1, 0>>, <<3, 1>>>>}

Large == {Matrix(4, LAMBDA i, j :
            <<LET B == IF i <= 2 THEN IF j <= 2 THEN P ELSE Q ELSE IF j <= 2 THEN R ELSE S
              IN  B[1 + ((i - 1) % 2)][1 + ((j - 1) % 2)], 1>>) : P, Q, R, S \in Block}

\* Elimination rounds.  The first is singular and has the determinant 6.7e-16 in
\* doubles; in the others a quarter has a rounded determinant, the one of
\* 3 3 and 1 1 being 0.0.
Thirds == {Whole(M) : M \in
  {<<<<7, 8, 9, 0>>, <<1, 2, 3, 0>>, <<4, 5, 6, 0>>, <<0, 0, 0, 1>>>>,
   <<<<1, 2, 3, 3>>, <<3, 4, 1, 1>>, <<2, 1, 1, 0>>, <<1, 0, 0, 1>>>>,
   <<<<3, 3, 1, 2>>, <<1, 1, 3, 4>>, <<2, 1, 1, 0>>, <<1, 0, 0, 1>>>>,
   <<<<3, 1, 0, 1>>, <<1, 2, -1, 2>>, <<1, 2, -1, 0>>, <<3, 4, 3, 1>>>>}}

MCGenerated == Small \cup Large \cup Thirds

\* What doubles make of these matrices and of their quarters.
MCRoundedToZero ==
  {M \in Large : Leibniz(M) = 0} \cup {Whole(<<<<3, 3>>, <<1, 1>>>>)}
=============================================================================
