------------------------------ MODULE ListDir ------------------------------
(***************************************************************************)
(* HW02/hw2.c (listdir): a recursive text search with a process for every  *)
(* directory and for every file.  The process of a file appends its        *)
(* matches to log.log and leaves with their number as its exit status.     *)
(* The parents wait, throw the statuses away, and main counts the lines of *)
(* the log.                                                                *)
(***************************************************************************)
EXTENDS SearchTree

CONSTANTS
  MayFail,        \* the system calls that may fail
  NoResult        \* nothing has been printed

ASSUME ListDirAssumption ==
  /\ MayFail \subseteq {"opendir", "fork", "fopen"}
  /\ NoResult \notin Int

-----------------------------------------------------------------------------

VARIABLES
  pc,             \* per directory, where its process is
  todo,           \* per directory, entries its readdir loop has not returned
  fpc,            \* per file, where its process is
  status,         \* per file, the status its process leaves with
  lines,          \* the number of lines in the log
  printed,        \* what main printed after "Total: "
  counter,        \* the number of lines main counted
  skipped         \* history: entries that could not be opened or forked for

vars == <<pc, todo, fpc, status, lines, printed, counter, skipped>>

TypeOK ==
  /\ pc \in [Dirs -> {"absent", "explore", "scan", "wait", "count", "exited", "reaped"}]
  /\ todo \in [Dirs -> SUBSET (Files \cup Dirs)]
  /\ fpc \in [Files -> {"absent", "search", "exited", "reaped"}]
  /\ status \in [Files -> 0 .. 255]
  /\ lines \in Nat
  /\ printed \in {0, ERROR, NoResult}
  /\ counter \in Nat \cup {NoResult}
  /\ skipped \subseteq Files \cup Dirs

\* main has removed the log.
Init ==
  /\ pc = [d \in Dirs |-> IF d = Root THEN "explore" ELSE "absent"]
  /\ todo = [d \in Dirs |-> {}]
  /\ fpc = [f \in Files |-> "absent"]
  /\ status = [f \in Files |-> 0]
  /\ lines = 0
  /\ printed = NoResult
  /\ counter = NoResult
  /\ skipped = {}

\* explorePath returns n: main prints it, a child drops it and exits.
\* totalMatches is assigned in the processes of files only, so that the
\* others return the 0 it was initialised with.
Return(d, n) ==
  /\ pc' = [pc EXCEPT ![d] = IF d = Root THEN "count" ELSE "exited"]
  /\ printed' = IF d = Root THEN n ELSE printed

Explore(d) ==
  /\ pc[d] = "explore"
  /\ todo' = [todo EXCEPT ![d] = FilesOf(d) \cup Subdirs(d)]
  /\ pc' = [pc EXCEPT ![d] = "scan"]
  /\ UNCHANGED <<fpc, status, lines, printed, counter, skipped>>

ExploreFails(d) ==
  /\ pc[d] = "explore"
  /\ "opendir" \in MayFail
  /\ Return(d, ERROR)
  /\ skipped' = skipped \cup {d}
  /\ UNCHANGED <<todo, fpc, status, lines, counter>>

Fork(d, e) ==
  /\ pc[d] = "scan"
  /\ e \in todo[d]
  /\ todo' = [todo EXCEPT ![d] = @ \ {e}]
  /\ \/ /\ e \in Dirs
        /\ pc' = [pc EXCEPT ![e] = "explore"]
        /\ UNCHANGED fpc
     \/ /\ e \in Files
        /\ fpc' = [fpc EXCEPT ![e] = "search"]
        /\ UNCHANGED pc
  /\ UNCHANGED <<status, lines, printed, counter, skipped>>

ForkFails(d, e) ==
  /\ pc[d] = "scan"
  /\ "fork" \in MayFail
  /\ e \in todo[d]
  /\ todo' = [todo EXCEPT ![d] = @ \ {e}]
  /\ skipped' = skipped \cup {e}
  /\ UNCHANGED <<pc, fpc, status, lines, printed, counter>>

ScanDone(d) ==
  /\ pc[d] = "scan"
  /\ todo[d] = {}
  /\ pc' = [pc EXCEPT ![d] = "wait"]
  /\ UNCHANGED <<todo, fpc, status, lines, printed, counter, skipped>>

\* The process of a file.  Its lines are in the log when searchInFile has
\* closed it; an exit status has eight bits.
Search(f) ==
  /\ fpc[f] = "search"
  /\ lines' = lines + matches[f]
  /\ status' = [status EXCEPT ![f] = matches[f] % 256]
  /\ fpc' = [fpc EXCEPT ![f] = "exited"]
  /\ UNCHANGED <<pc, todo, printed, counter, skipped>>

\* Fault: the status keeps all its bits.
SearchFailsRaw(f) ==
  /\ fpc[f] = "search"
  /\ "fopen" \in MayFail
  /\ status' = [status EXCEPT ![f] = ERROR]
  /\ fpc' = [fpc EXCEPT ![f] = "exited"]
  /\ skipped' = skipped \cup {f}
  /\ UNCHANGED <<pc, todo, lines, printed, counter>>

SearchFails(f) ==
  /\ fpc[f] = "search"
  /\ "fopen" \in MayFail
  /\ status' = [status EXCEPT ![f] = ERROR % 256]
  /\ fpc' = [fpc EXCEPT ![f] = "exited"]
  /\ skipped' = skipped \cup {f}
  /\ UNCHANGED <<pc, todo, lines, printed, counter>>

\* wait(&status) returns a child; status is not looked at.
Reap(d, e) ==
  /\ pc[d] = "wait"
  /\ \/ /\ e \in Subdirs(d)
        /\ pc[e] = "exited"
        /\ pc' = [pc EXCEPT ![e] = "reaped"]
        /\ UNCHANGED fpc
     \/ /\ e \in FilesOf(d)
        /\ fpc[e] = "exited"
        /\ fpc' = [fpc EXCEPT ![e] = "reaped"]
        /\ UNCHANGED pc
  /\ UNCHANGED <<todo, status, lines, printed, counter, skipped>>

\* Fault: only the processes of files are waited for.
WaitFilesOnly(d) ==
  /\ pc[d] = "wait"
  /\ \A f \in FilesOf(d) : fpc[f] \in {"absent", "reaped"}
  /\ Return(d, 0)
  /\ UNCHANGED <<todo, fpc, status, lines, counter, skipped>>

\* Fault: the loop of waits ends when the last child has exited with status 0.
WaitZero(d) ==
  /\ pc[d] = "wait"
  /\ \A c \in Subdirs(d) : pc[c] \in {"absent", "reaped"}
  /\ \A f \in FilesOf(d) : fpc[f] = "absent" \/ (fpc[f] = "reaped" /\ status[f] = 0)
  /\ Return(d, 0)
  /\ UNCHANGED <<todo, fpc, status, lines, counter, skipped>>

\* wait() returns -1: there is no child left.
WaitDone(d) ==
  /\ pc[d] = "wait"
  /\ \A c \in Subdirs(d) : pc[c] \in {"absent", "reaped"}
  /\ \A f \in FilesOf(d) : fpc[f] \in {"absent", "reaped"}
  /\ Return(d, 0)
  /\ UNCHANGED <<todo, fpc, status, lines, counter, skipped>>

\* The end of main, which counts the lines and adds one of its own.
CountLines ==
  /\ pc[Root] = "count"
  /\ counter' = lines
  /\ lines' = lines + 1
  /\ pc' = [pc EXCEPT ![Root] = "exited"]
  /\ UNCHANGED <<todo, fpc, status, printed, skipped>>

-----------------------------------------------------------------------------

DirStep(d) ==
  \/ Explore(d) \/ ExploreFails(d) \/ ScanDone(d) \/ WaitDone(d)
  \/ \E e \in Files \cup Dirs : Fork(d, e) \/ ForkFails(d, e) \/ Reap(d, e)

FileStep(f) == Search(f) \/ SearchFails(f)

Next ==
  \/ CountLines
  \/ \E d \in Dirs : DirStep(d)
  \/ \E f \in Files : FileStep(f)

Spec == Init /\ [][Next]_vars

\* The operating system schedules every runnable process.
FairSpec ==
  /\ Spec
  /\ WF_vars(CountLines)
  /\ \A d \in Dirs : WF_vars(DirStep(d))
  /\ \A f \in Files : WF_vars(FileStep(f))

-----------------------------------------------------------------------------
(***************************************************************************)
(* Properties.                                                             *)
(***************************************************************************)

\* f could not be read, or it or a directory on the way to it could not be
\* opened or forked for.
Missed(f) == f \in skipped \/ \E d \in skipped \cap Dirs : fileDir[f] \in Below(d)

\* What main counts are the matches of all the files it could reach, each
\* once, and nobody writes to the log any more.
LinesExact ==
  counter # NoResult =>
    /\ \A f \in Files : fpc[f] \in {"absent", "reaped"}
    /\ counter = MatchesOf({f \in Files : ~Missed(f)})

\* The search ends and leaves no process.
Terminates ==
  <>(/\ counter # NoResult
     /\ \A d \in Dirs : pc[d] \in {"absent", "exited", "reaped"}
     /\ \A f \in Files : fpc[f] # "search")
=============================================================================
