----------------------------- MODULE GrepThread -----------------------------
(***************************************************************************)
(* HW04/hw4.c (grepTh): a recursive text search with a process for every   *)
(* directory and a thread for every file.  A process hands each thread the *)
(* one threadArgs of its stack and joins it before it goes on.  The loop   *)
(* that waits for the child processes reads a descriptor nobody has        *)
(* assigned.  The totals of the children are dropped: main counts the      *)
(* lines of the log.                                                       *)
(***************************************************************************)
EXTENDS SearchTree

CONSTANTS
  MayFail,        \* the system calls that may fail
  Descriptors,    \* what the uninitialised fd[0] may be: "bad", "stdin"
  None            \* no file, and no result of main yet

ASSUME GrepThreadAssumption ==
  /\ MayFail \subseteq {"opendir", "fork", "fopen"}
  /\ Descriptors \subseteq {"bad", "stdin"} /\ Descriptors # {}
  /\ None \notin Files \cup Nat

-----------------------------------------------------------------------------

VARIABLES
  pc,             \* per directory, where its process is
  todo,           \* per directory, entries its readdir loop has not returned
  threadArgs,     \* per directory, the path in the argument of its threads
  semID,          \* per directory, the semaphore of its process
  fd,             \* per directory, what fd[0] is
  tpc,            \* per file, where the thread created for it is
  path,           \* per file, what that thread has copied from threadArgs
  stdin,          \* standard input has not ended
  lines,          \* the number of lines in the log
  totall,         \* the number of lines main counted
  skipped         \* history: entries that could not be opened or forked for

threads == <<tpc, path>>
results == <<lines, totall>>
vars == <<pc, todo, threadArgs, semID, fd, threads, stdin, results, skipped>>

TypeOK ==
  /\ pc \in [Dirs -> {"absent", "explore", "scan", "join", "wait", "read", "count",
                      "exited", "reaped"}]
  /\ todo \in [Dirs -> SUBSET (Files \cup Dirs)]
  /\ threadArgs \in [Dirs -> Files \cup {None}]
  /\ semID \in [Dirs -> {0, 1}]
  /\ fd \in [Dirs -> Descriptors]
  /\ tpc \in [Files -> {"absent", "created", "search", "exited", "joined"}]
  /\ path \in [Files -> Files \cup {None}]
  /\ stdin \in BOOLEAN
  /\ lines \in Nat
  /\ totall \in Nat \cup {None}
  /\ skipped \subseteq Files \cup Dirs

\* main has removed the log.
Init ==
  /\ pc = [d \in Dirs |-> IF d = Root THEN "explore" ELSE "absent"]
  /\ todo = [d \in Dirs |-> {}]
  /\ threadArgs = [d \in Dirs |-> None]
  /\ semID = [d \in Dirs |-> 0]
  /\ fd \in [Dirs -> Descriptors]
  /\ tpc = [f \in Files |-> "absent"]
  /\ path = [f \in Files |-> None]
  /\ stdin = TRUE
  /\ lines = 0 /\ totall = None
  /\ skipped = {}

\* What explorePath returns is used by nobody.
Return(d) == pc' = [pc EXCEPT ![d] = IF d = Root THEN "count" ELSE "exited"]

-----------------------------------------------------------------------------
(***************************************************************************)
(* explorePath in the process of directory d.                              *)
(***************************************************************************)

Explore(d) ==
  /\ pc[d] = "explore"
  /\ pc' = [pc EXCEPT ![d] = "scan"]
  /\ todo' = [todo EXCEPT ![d] = FilesOf(d) \cup Subdirs(d)]
  /\ UNCHANGED <<threadArgs, semID, fd, threads, stdin, results, skipped>>

ExploreFails(d) ==
  /\ pc[d] = "explore"
  /\ "opendir" \in MayFail
  /\ Return(d)
  /\ skipped' = skipped \cup {d}
  /\ UNCHANGED <<todo, threadArgs, semID, fd, threads, stdin, results>>

ForkDir(d, c) ==
  /\ pc[d] = "scan" /\ c \in todo[d] \cap Dirs
  /\ todo' = [todo EXCEPT ![d] = @ \ {c}]
  /\ pc' = [pc EXCEPT ![c] = "explore"]
  /\ UNCHANGED <<threadArgs, semID, fd, threads, stdin, results, skipped>>

ForkFails(d, c) ==
  /\ pc[d] = "scan" /\ c \in todo[d] \cap Dirs
  /\ "fork" \in MayFail
  /\ todo' = [todo EXCEPT ![d] = @ \ {c}]
  /\ skipped' = skipped \cup {c}
  /\ UNCHANGED <<pc, threadArgs, semID, fd, threads, stdin, results>>

\* sem_init(value), the argument, pthread_create.
NewThread(d, f, value) ==
  /\ pc[d] = "scan" /\ f \in todo[d] \cap Files
  /\ todo' = [todo EXCEPT ![d] = @ \ {f}]
  /\ semID' = [semID EXCEPT ![d] = value]
  /\ threadArgs' = [threadArgs EXCEPT ![d] = f]
  /\ tpc' = [tpc EXCEPT ![f] = "created"]
  /\ pc' = [pc EXCEPT ![d] = "join"]
  /\ UNCHANGED <<fd, path, stdin, results, skipped>>

\* Fault: the semaphore starts at 0.
CreateThreadZero(d, f) == NewThread(d, f, 0)

CreateThread(d, f) == NewThread(d, f, 1)

Join(d) ==
  /\ pc[d] = "join" /\ tpc[threadArgs[d]] = "exited"
  /\ tpc' = [tpc EXCEPT ![threadArgs[d]] = "joined"]
  /\ pc' = [pc EXCEPT ![d] = "scan"]
  /\ UNCHANGED <<todo, threadArgs, semID, fd, path, stdin, results, skipped>>

ScanDone(d) ==
  /\ pc[d] = "scan" /\ todo[d] = {}
  /\ pc' = [pc EXCEPT ![d] = "wait"]
  /\ UNCHANGED <<todo, threadArgs, semID, fd, threads, stdin, results, skipped>>

\* wait returns a child.
Reap(d, c) ==
  /\ pc[d] = "wait" /\ c \in Subdirs(d) /\ pc[c] = "exited"
  /\ pc' = [pc EXCEPT ![c] = "reaped", ![d] = "read"]
  /\ UNCHANGED <<todo, threadArgs, semID, fd, threads, stdin, results, skipped>>

\* The loop of reads ends, at once if fd[0] is no open file; what was read is
\* added to a total that nobody uses.
ReadEnd(d) ==
  /\ pc[d] = "read"
  /\ fd[d] = "stdin" => ~stdin
  /\ pc' = [pc EXCEPT ![d] = "wait"]
  /\ UNCHANGED <<todo, threadArgs, semID, fd, threads, stdin, results, skipped>>

\* Fault: the loop ends when the child that wait returned was the first.
WaitOnce(d) ==
  /\ pc[d] = "wait"
  /\ Subdirs(d) # {} => \E c \in Subdirs(d) : pc[c] \in {"absent", "reaped"}
  /\ Return(d)
  /\ UNCHANGED <<todo, threadArgs, semID, fd, threads, stdin, results, skipped>>

\* wait returns -1: there is no child left.
WaitDone(d) ==
  /\ pc[d] = "wait"
  /\ \A c \in Subdirs(d) : pc[c] \in {"absent", "reaped"}
  /\ Return(d)
  /\ UNCHANGED <<todo, threadArgs, semID, fd, threads, stdin, results, skipped>>

\* The end of main, which adds a line of its own.
CountLines ==
  /\ pc[Root] = "count"
  /\ totall' = lines
  /\ lines' = lines + 1
  /\ pc' = [pc EXCEPT ![Root] = "exited"]
  /\ UNCHANGED <<todo, threadArgs, semID, fd, threads, stdin, skipped>>

\* The user ends the input.
StdinEnds ==
  /\ stdin
  /\ stdin' = FALSE
  /\ UNCHANGED <<pc, todo, threadArgs, semID, fd, threads, results, skipped>>

-----------------------------------------------------------------------------
(***************************************************************************)
(* threadFunction in the thread created for f.                             *)
(***************************************************************************)

\* Fault: no sem_wait.
StartNoWait(f) ==
  /\ tpc[f] = "created"
  /\ path' = [path EXCEPT ![f] = threadArgs[fileDir[f]]]
  /\ tpc' = [tpc EXCEPT ![f] = "search"]
  /\ UNCHANGED <<pc, todo, threadArgs, semID, fd, stdin, results, skipped>>

\* sem_wait, and the copy of the argument.
Start(f) ==
  LET d == fileDir[f] IN
  /\ tpc[f] = "created" /\ semID[d] > 0
  /\ semID' = [semID EXCEPT ![d] = @ - 1]
  /\ path' = [path EXCEPT ![f] = threadArgs[d]]
  /\ tpc' = [tpc EXCEPT ![f] = "search"]
  /\ UNCHANGED <<pc, todo, threadArgs, fd, stdin, results, skipped>>

\* searchInFile has closed the log; sem_post and pthread_exit.
End(f) ==
  /\ tpc[f] = "search"
  /\ semID' = [semID EXCEPT ![fileDir[f]] = @ + 1]
  /\ tpc' = [tpc EXCEPT ![f] = "exited"]
  /\ UNCHANGED <<pc, todo, threadArgs, fd, path, stdin, totall>>

Search(f) ==
  /\ End(f)
  /\ lines' = lines + matches[path[f]]
  /\ UNCHANGED skipped

SearchFails(f) ==
  /\ "fopen" \in MayFail
  /\ End(f)
  /\ skipped' = skipped \cup {path[f]}
  /\ UNCHANGED lines

-----------------------------------------------------------------------------

DirStep(d) ==
  \/ Explore(d) \/ ExploreFails(d) \/ Join(d) \/ ScanDone(d) \/ ReadEnd(d) \/ WaitDone(d)
  \/ \E c \in Dirs : ForkDir(d, c) \/ ForkFails(d, c) \/ Reap(d, c)
  \/ \E f \in Files : CreateThread(d, f)

ThreadStep(f) == Start(f) \/ Search(f) \/ SearchFails(f)

Next ==
  \/ CountLines \/ StdinEnds
  \/ \E d \in Dirs : DirStep(d)
  \/ \E f \in Files : ThreadStep(f)

Spec == Init /\ [][Next]_vars

\* The operating system schedules every process and thread that can go on;
\* nobody promises to end the input.
FairSpec ==
  /\ Spec
  /\ WF_vars(CountLines)
  /\ \A d \in Dirs : WF_vars(DirStep(d))
  /\ \A f \in Files : WF_vars(ThreadStep(f))

-----------------------------------------------------------------------------
(***************************************************************************)
(* Properties.                                                             *)
(***************************************************************************)

\* f could not be read, or a directory on the way to it could not be opened
\* or forked for.
Missed(f) == f \in skipped \/ \E d \in skipped \cap Dirs : fileDir[f] \in Below(d)

\* What main counts are the matches of all the files it could reach, each
\* once: no thread searched another's file and nobody is still writing.
LinesExact ==
  totall # None =>
    /\ \A f \in Files : tpc[f] \in {"absent", "joined"}
    /\ totall = MatchesOf({f \in Files : ~Missed(f)})

\* The search ends and leaves nobody behind, unless a process reads an
\* unassigned descriptor that happens to be an input that never ends.
Terminates ==
  \/ <>(/\ totall # None
        /\ \A d \in Dirs : pc[d] \in {"absent", "exited", "reaped"}
        /\ \A f \in Files : tpc[f] \in {"absent", "joined"})
  \/ <>[](stdin /\ \E d \in Dirs : pc[d] = "read" /\ fd[d] = "stdin")
=============================================================================
