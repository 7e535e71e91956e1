---------------------------- MODULE MCGrepThread ----------------------------
(***************************************************************************)
(* GrepThread on r/f1, r/f2, r/a/f3, r/b/f4: two threads of one process,   *)
(* and two children that search while their parent does.                   *)
(***************************************************************************)
EXTENDS GrepThread

MCDirs == {"r", "a", "b"}
MCFiles == {"f1", "f2", "f3", "f4"}
MCParentDir == [d \in {"a", "b"} |-> "r"]
MCFileDir == [f \in MCFiles |-> CASE f = "f3" -> "a" [] f = "f4" -> "b" [] OTHER -> "r"]
MCMatches == [f \in MCFiles |-> CASE f = "f1" -> 2 [] f = "f2" -> 0 [] OTHER -> 1]
=============================================================================
