----------------------------- MODULE MCListDir -----------------------------
(***************************************************************************)
(* ListDir on r/f1, r/a/f2, r/a/b/f3: a process waits for others that wait *)
(* themselves.                                                             *)
(***************************************************************************)
EXTENDS ListDir

MCDirs == {"r", "a", "b"}
MCFiles == {"f1", "f2", "f3"}
MCParentDir == [d \in {"a", "b"} |-> IF d = "a" THEN "r" ELSE "a"]
MCFileDir == [f \in MCFiles |-> CASE f = "f1" -> "r" [] f = "f2" -> "a" [] f = "f3" -> "b"]
MCMatches == [f \in MCFiles |-> CASE f = "f1" -> 2 [] f = "f2" -> 0 [] f = "f3" -> 1]
=============================================================================
