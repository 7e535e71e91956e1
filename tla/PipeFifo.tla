----------------------------- MODULE PipeFifo -----------------------------
(***************************************************************************)
(* HW03/hw3.c (withPipeandFIFO): a recursive text search with a process    *)
(* for every directory and for every file.  Each directory has a pipe on   *)
(* which the processes of its files send their totals; forking hands the   *)
(* pipe's write end on to everything below the directory, and the reader   *)
(* sees the end of file when the last copy is closed.  What main prints is *)
(* the number of lines the processes of the files wrote to the log.        *)
(***************************************************************************)
EXTENDS SearchTree

CONSTANTS
  MayFail,        \* the system calls that may fail
  Capacity,       \* how many totals a pipe holds
  NoResult        \* main has not counted the lines of the log

ASSUME PipeAssumption ==
  /\ MayFail \subseteq {"opendir", "pipe", "fork", "fopen"}
  /\ Capacity \in Nat \ {0}
  /\ NoResult \notin Int

-----------------------------------------------------------------------------

VARIABLES
  \* One process per directory:
  pc,             \* where it is
  todo,           \* entries its readdir loop has not returned yet
  closed,         \* it has closed its write end, fd[1]
  totalMatches,   \* the sum of what it read
  \* One process per file:
  fpc,            \* where it is
  total,          \* what searchInFile returned
  \* Shared:
  pipe,           \* per directory, the totals in its pipe
  fifo,           \* the name fifo.fifo exists
  lines,          \* the number of lines in the log
  totall,         \* the number of lines main counted
  skipped         \* history: entries that could not be opened or forked for

vars == <<pc, todo, closed, totalMatches, fpc, total, pipe, fifo, lines, totall, skipped>>

TypeOK ==
  /\ pc \in [Dirs -> {"absent", "explore", "scan", "wait", "read", "unlink",
                      "count", "exited", "reaped"}]
  /\ todo \in [Dirs -> SUBSET (Files \cup Dirs)]
  /\ closed \in [Dirs -> BOOLEAN]
  /\ totalMatches \in [Dirs -> Int]
  /\ fpc \in [Files -> {"absent", "search", "write", "close", "exit", "exited", "reaped"}]
  /\ total \in [Files -> Nat \cup {ERROR}]
  /\ pipe \in [Dirs -> Seq(Nat \cup {ERROR})]
  /\ \A d \in Dirs : Len(pipe[d]) <= Capacity
  /\ fifo \in BOOLEAN
  /\ lines \in Nat
  /\ totall \in Nat \cup {NoResult}
  /\ skipped \subseteq Files \cup Dirs

\* main has removed the log; an earlier run may have left the FIFO.
Init ==
  /\ pc = [d \in Dirs |-> IF d = Root THEN "explore" ELSE "absent"]
  /\ todo = [d \in Dirs |-> {}]
  /\ closed = [d \in Dirs |-> FALSE]
  /\ totalMatches = [d \in Dirs |-> 0]
  /\ fpc = [f \in Files |-> "absent"]
  /\ total = [f \in Files |-> 0]
  /\ pipe = [d \in Dirs |-> <<>>]
  /\ fifo \in BOOLEAN
  /\ lines = 0
  /\ totall = NoResult
  /\ skipped = {}

LiveDir(d) == pc[d] \notin {"absent", "exited", "reaped"}
LiveFile(f) == fpc[f] \notin {"absent", "exited", "reaped"}

\* Who can still write to the pipe of d: its own process, the processes of
\* its files until they close fd[1], and everything that was forked below d,
\* which inherits the descriptor, knows nothing of it and closes it at exit.
HasWriter(d) ==
  \/ LiveDir(d) /\ ~closed[d]
  \/ \E f \in FilesOf(d) : fpc[f] \in {"search", "write", "close"}
  \/ \E e \in Below(d) \ {d} : LiveDir(e) \/ \E f \in FilesOf(e) : LiveFile(f)

\* Entries of d whose process has not been waited for.
Children(d) ==
  {c \in Subdirs(d) : LiveDir(c) \/ pc[c] = "exited"}
    \cup {f \in FilesOf(d) : LiveFile(f) \/ fpc[f] = "exited"}

-----------------------------------------------------------------------------
(***************************************************************************)
(* explorePath, in the process of directory d.                             *)
(***************************************************************************)

\* Where explorePath returns to.
Return(d) == pc' = [pc EXCEPT ![d] = IF d = Root THEN "count" ELSE "unlink"]

Explore(d) ==
  /\ pc[d] = "explore"
  /\ todo' = [todo EXCEPT ![d] = FilesOf(d) \cup Subdirs(d)]
  /\ pc' = [pc EXCEPT ![d] = "scan"]
  /\ UNCHANGED <<closed, totalMatches, fpc, total, pipe, fifo, lines, totall, skipped>>

ExploreFails(d) ==
  /\ pc[d] = "explore"
  /\ MayFail \cap {"opendir", "pipe"} # {}
  /\ Return(d)
  /\ totalMatches' = [totalMatches EXCEPT ![d] = ERROR]
  /\ closed' = [closed EXCEPT ![d] = TRUE]
  /\ skipped' = skipped \cup {d}
  /\ UNCHANGED <<todo, fpc, total, pipe, fifo, lines, totall>>

ForkFile(d, f) ==
  /\ pc[d] = "scan"
  /\ f \in todo[d] \cap Files
  /\ todo' = [todo EXCEPT ![d] = @ \ {f}]
  /\ fpc' = [fpc EXCEPT ![f] = "search"]
  /\ UNCHANGED <<pc, closed, totalMatches, total, pipe, fifo, lines, totall, skipped>>

\* mkfifo, whose failure is not noticed because it is compared with FAIL,
\* then fork.
ForkDir(d, c) ==
  /\ pc[d] = "scan"
  /\ c \in todo[d] \cap Dirs
  /\ todo' = [todo EXCEPT ![d] = @ \ {c}]
  /\ fifo' = TRUE
  /\ pc' = [pc EXCEPT ![c] = "explore"]
  /\ UNCHANGED <<closed, totalMatches, fpc, total, pipe, lines, totall, skipped>>

ForkFails(d, e) ==
  /\ pc[d] = "scan"
  /\ "fork" \in MayFail
  /\ e \in todo[d]
  /\ todo' = [todo EXCEPT ![d] = @ \ {e}]
  /\ fifo' = (fifo \/ e \in Dirs)
  /\ skipped' = skipped \cup {e}
  /\ UNCHANGED <<pc, closed, totalMatches, fpc, total, pipe, lines, totall>>

ScanDone(d) ==
  /\ pc[d] = "scan"
  /\ todo[d] = {}
  /\ pc' = [pc EXCEPT ![d] = "wait"]
  /\ UNCHANGED <<todo, closed, totalMatches, fpc, total, pipe, fifo, lines, totall, skipped>>

\* wait() returns the identifier of a child that has exited.
Reap(d) ==
  \/ \E c \in Subdirs(d) :
       /\ pc[c] = "exited"
       /\ pc' = [pc EXCEPT ![c] = "reaped", ![d] = "read"]
       /\ UNCHANGED fpc
  \/ \E f \in FilesOf(d) :
       /\ fpc[f] = "exited"
       /\ fpc' = [fpc EXCEPT ![f] = "reaped"]
       /\ pc' = [pc EXCEPT ![d] = "read"]

\* Fault: fd[1] stays open.
WaitKeepOpen(d) ==
  /\ pc[d] = "wait"
  /\ Reap(d)
  /\ UNCHANGED <<todo, closed, totalMatches, total, pipe, fifo, lines, totall, skipped>>

Wait(d) ==
  /\ pc[d] = "wait"
  /\ Reap(d)
  /\ closed' = [closed EXCEPT ![d] = TRUE]
  /\ UNCHANGED <<todo, totalMatches, total, pipe, fifo, lines, totall, skipped>>

Read(d) ==
  /\ pc[d] = "read"
  /\ pipe[d] # <<>>
  /\ totalMatches' = [totalMatches EXCEPT ![d] = @ + Head(pipe[d])]
  /\ pipe' = [pipe EXCEPT ![d] = Tail(@)]
  /\ UNCHANGED <<pc, todo, closed, fpc, total, fifo, lines, totall, skipped>>

ReadEnd(d) ==
  /\ pc[d] = "read"
  /\ pipe[d] = <<>>
  /\ ~HasWriter(d)
  /\ pc' = [pc EXCEPT ![d] = "wait"]
  /\ UNCHANGED <<todo, closed, totalMatches, fpc, total, pipe, fifo, lines, totall, skipped>>

\* Fault: nobody is waited for.
WaitSkipped(d) ==
  /\ pc[d] = "wait"
  /\ Return(d)
  /\ UNCHANGED <<todo, closed, totalMatches, fpc, total, pipe, fifo, lines, totall, skipped>>

\* wait() returns -1.
WaitDone(d) ==
  /\ pc[d] = "wait"
  /\ Children(d) = {}
  /\ Return(d)
  /\ UNCHANGED <<todo, closed, totalMatches, fpc, total, pipe, fifo, lines, totall, skipped>>

\* Fault: the child does not unlink the FIFO.
LeaveFifo(d) ==
  /\ pc[d] = "unlink"
  /\ pc' = [pc EXCEPT ![d] = "exited"]
  /\ UNCHANGED <<todo, closed, totalMatches, fpc, total, pipe, fifo, lines, totall, skipped>>

\* The end of a child: unlink, exit(1).  The total is dropped.
UnlinkFifo(d) ==
  /\ pc[d] = "unlink"
  /\ fifo' = FALSE
  /\ pc' = [pc EXCEPT ![d] = "exited"]
  /\ UNCHANGED <<todo, closed, totalMatches, fpc, total, pipe, lines, totall, skipped>>

\* The end of main.
CountLines ==
  /\ pc[Root] = "count"
  /\ totall' = lines
  /\ lines' = lines + 1
  /\ pc' = [pc EXCEPT ![Root] = "exited"]
  /\ UNCHANGED <<todo, closed, totalMatches, fpc, total, pipe, fifo, skipped>>

-----------------------------------------------------------------------------
(***************************************************************************)
(* The process of file f.                                                  *)
(***************************************************************************)

\* The lines are in the log when searchInFile has closed it.
Search(f) ==
  /\ fpc[f] = "search"
  /\ total' = [total EXCEPT ![f] = matches[f]]
  /\ lines' = lines + matches[f]
  /\ fpc' = [fpc EXCEPT ![f] = "write"]
  /\ UNCHANGED <<pc, todo, closed, totalMatches, pipe, fifo, totall, skipped>>

SearchFails(f) ==
  /\ fpc[f] = "search"
  /\ "fopen" \in MayFail
  /\ total' = [total EXCEPT ![f] = ERROR]
  /\ fpc' = [fpc EXCEPT ![f] = "write"]
  /\ UNCHANGED <<pc, todo, closed, totalMatches, pipe, fifo, lines, totall, skipped>>

\* Fault: the write does not wait for room in the pipe.
WriteNoWait(f) ==
  /\ fpc[f] = "write"
  /\ pipe' = [pipe EXCEPT ![fileDir[f]] = IF Len(@) < Capacity THEN Append(@, total[f]) ELSE @]
  /\ fpc' = [fpc EXCEPT ![f] = "close"]
  /\ UNCHANGED <<pc, todo, closed, totalMatches, total, fifo, lines, totall, skipped>>

\* Fault: the total goes into a full pipe.
WriteUnbounded(f) ==
  /\ fpc[f] = "write"
  /\ pipe' = [pipe EXCEPT ![fileDir[f]] = Append(@, total[f])]
  /\ fpc' = [fpc EXCEPT ![f] = "close"]
  /\ UNCHANGED <<pc, todo, closed, totalMatches, total, fifo, lines, totall, skipped>>

Write(f) ==
  /\ fpc[f] = "write"
  /\ Len(pipe[fileDir[f]]) < Capacity
  /\ pipe' = [pipe EXCEPT ![fileDir[f]] = Append(@, total[f])]
  /\ fpc' = [fpc EXCEPT ![f] = "close"]
  /\ UNCHANGED <<pc, todo, closed, totalMatches, total, fifo, lines, totall, skipped>>

Close(f) ==
  /\ fpc[f] = "close"
  /\ fpc' = [fpc EXCEPT ![f] = "exit"]
  /\ UNCHANGED <<pc, todo, closed, totalMatches, total, pipe, fifo, lines, totall, skipped>>

Exit(f) ==
  /\ fpc[f] = "exit"
  /\ fpc' = [fpc EXCEPT ![f] = "exited"]
  /\ UNCHANGED <<pc, todo, closed, totalMatches, total, pipe, fifo, lines, totall, skipped>>

-----------------------------------------------------------------------------

DirStep(d) ==
  \/ Explore(d) \/ ExploreFails(d) \/ ScanDone(d)
  \/ \E f \in Files : ForkFile(d, f)
  \/ \E c \in Dirs : ForkDir(d, c)
  \/ \E e \in Files \cup Dirs : ForkFails(d, e)
  \/ Wait(d) \/ Read(d) \/ ReadEnd(d) \/ WaitDone(d) \/ UnlinkFifo(d)

FileStep(f) == Search(f) \/ SearchFails(f) \/ Write(f) \/ Close(f) \/ Exit(f)

Next ==
  \/ CountLines
  \/ \E d \in Dirs : DirStep(d)
  \/ \E f \in Files : FileStep(f)

Spec == Init /\ [][Next]_vars

\* The operating system schedules every runnable process.
FairSpec ==
  /\ Spec
  /\ WF_vars(CountLines)
  /\ \A d \in Dirs : WF_vars(DirStep(d))
  /\ \A f \in Files : WF_vars(FileStep(f))

-----------------------------------------------------------------------------
(***************************************************************************)
(* Properties.                                                             *)
(***************************************************************************)

Written(d) == {f \in FilesOf(d) : fpc[f] \in {"close", "exit", "exited", "reaped"}}

\* No total is lost or read twice: what a directory's process has added up
\* and what is still in its pipe are the totals its files have written.
NoTotalLost ==
  \A d \in Dirs \ skipped :
    totalMatches[d] + SumOver(DOMAIN pipe[d], pipe[d])
      = SumOver(Written(d), total)

\* When explorePath returns it has the total of every file it forked for.
ReturnsTotal ==
  \A d \in Dirs \ skipped : pc[d] \in {"count", "unlink", "exited", "reaped"} =>
    totalMatches[d] = SumOver(FilesOf(d) \ skipped, total)

\* A directory on the way to f, or f itself, could not be opened or forked for.
Unreachable(f) == f \in skipped \/ \E d \in skipped \cap Dirs : fileDir[f] \in Below(d)

\* The lines main counts are all the matches of all the files it could reach:
\* nobody writes to the log any more.
LinesExact ==
  totall # NoResult =>
    /\ \A f \in Files : fpc[f] = "reaped" \/ Unreachable(f)
    /\ totall = SumOver({f \in Files : total[f] > 0}, total)

\* After a search with a subdirectory in which every fork went well the FIFO
\* is gone, although any process may unlink the one another has just made.
FifoRemoved ==
  pc[Root] = "exited" /\ skipped = {} /\ Subdirs(Root) # {} => ~fifo

\* The search ends and leaves no process, even if every pipe holds one total.
Terminates ==
  <>(totall # NoResult /\ \A d \in Dirs : ~LiveDir(d) /\ \A f \in Files : ~LiveFile(f))
=============================================================================
