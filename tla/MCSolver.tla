----------------------------- MODULE MCSolver -----------------------------
(***************************************************************************)
(* Solver with two clients, whose requests can meet.  The exhaustive run   *)
(* has the method of matrix_X3, which is the first to leave the segment:   *)
(* with four rows, where P3 still stays in it, and with seven, where P3    *)
(* leaves it too.                                                          *)
(***************************************************************************)
EXTENDS Solver
=============================================================================
