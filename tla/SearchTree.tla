---------------------------- MODULE SearchTree ----------------------------
(***************************************************************************)
(* The tree of directories and files that the recursive searches of HW02   *)
(* to HW05 walk.  It does not change while a search runs and does not hold *)
(* the current directory, where the searches create their own files.       *)
(***************************************************************************)
EXTENDS Integers, Sequences, FiniteSets

CONSTANTS
  Dirs,           \* the directories of the searched tree
  Root,           \* the directory named on the command line
  Files,          \* the other entries of those directories
  parentDir,      \* the directory a directory other than Root is in
  fileDir,        \* the directory a file is in
  matches         \* how often searchInFile finds the string in a file

ERROR == -1                    \* also what searchInFile returns on an error

Subdirs(d) == {c \in Dirs \ {Root} : parentDir[c] = d}
FilesOf(d) == {f \in Files : fileDir[f] = d}

\* d and every directory inside it.
Below(d) == {c \in Dirs : \A D \in SUBSET Dirs :
               d \in D /\ (\A e \in D : Subdirs(e) \subseteq D) => c \in D}

\* The sum of the values of the elements of S, which are numbers of matches or
\* ERROR, by counting: one unit for each match, minus one for each ERROR.
Units(S, value) == UNION {{x} \X (1 .. value[x]) : x \in S}
SumOver(S, value) == Cardinality(Units(S, value)) - Cardinality({x \in S : value[x] = ERROR})

\* How many matches the files of S have together.
MatchesOf(S) == SumOver(S, matches)

\* Directories form a tree: what holds of Root and passes from a directory
\* to its subdirectories holds of all of them.
ASSUME TreeAssumption ==
  /\ IsFiniteSet(Dirs)
  /\ Root \in Dirs
  /\ parentDir \in [Dirs \ {Root} -> Dirs]
  /\ \A D \in SUBSET Dirs :
       Root \in D /\ (\A d \in D : Subdirs(d) \subseteq D) => D = Dirs

ASSUME FilesAssumption ==
  /\ IsFiniteSet(Files)
  /\ Files \cap Dirs = {}
  /\ fileDir \in [Files -> Dirs]
  /\ matches \in [Files -> Nat]
=============================================================================
