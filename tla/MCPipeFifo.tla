----------------------------- MODULE MCPipeFifo -----------------------------
(***************************************************************************)
(* PipeFifo on r/f1, r/f2, r/a, r/a/b/f3, r/c: two totals for a pipe that  *)
(* holds one, and three levels that inherit it and make and unlink the     *)
(* FIFO.                                                                   *)
(***************************************************************************)
EXTENDS PipeFifo

MCDirs == {"r", "a", "b", "c"}
MCFiles == {"f1", "f2", "f3"}
MCParentDir == [d \in {"a", "b", "c"} |-> IF d = "b" THEN "a" ELSE "r"]
MCFileDir == [f \in MCFiles |-> IF f = "f3" THEN "b" ELSE "r"]
MCMatches == [f \in MCFiles |-> CASE f = "f1" -> 2 [] f = "f2" -> 3 [] f = "f3" -> 1]
=============================================================================
