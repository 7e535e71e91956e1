----------------------------- MODULE MCGrepShm -----------------------------
(***************************************************************************)
(* GrepShm on small trees.                                                 *)
(***************************************************************************)
EXTENDS GrepShm

\* r/f1, r/f2, r/a/f3: two threads in one process, one in another.
MCDirs == {"r", "a"}
MCFiles == {"f1", "f2", "f3"}
MCParentDir == [d \in {"a"} |-> "r"]
MCFileDir == [f \in MCFiles |-> IF f = "f3" THEN "a" ELSE "r"]
MCMatches == [f \in MCFiles |-> CASE f = "f1" -> 2 [] f = "f2" -> 0 [] f = "f3" -> 1]

\* r/f1, r/a/b/f2, r/c: a process without files between two with one, and a
\* sibling.
MCTreeDirs == {"r", "a", "b", "c"}
MCTreeFiles == {"f1", "f2"}
MCTreeParentDir == [d \in {"a", "b", "c"} |-> IF d = "b" THEN "a" ELSE "r"]
MCTreeFileDir == [f \in MCTreeFiles |-> IF f = "f1" THEN "r" ELSE "b"]
MCTreeMatches == [f \in MCTreeFiles |-> 1]
=============================================================================
