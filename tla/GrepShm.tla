------------------------------ MODULE GrepShm ------------------------------
(***************************************************************************)
(* HW05/main.c (grepThwShandMQ): a recursive text search in which every    *)
(* directory is explored by a process of its own (fork) and every file is  *)
(* searched by a thread of its own (pthread_create).  All of them add the  *)
(* number of matches they found to one integer in System V shared memory,  *)
(* under a named semaphore shared by the processes, and append the matches *)
(* to one log file.  The root process waits for everybody and reports.     *)
(***************************************************************************)
EXTENDS SearchTree

CONSTANTS
  MayFail,        \* the system calls that may fail
  StaleSem,       \* values an earlier run may have left in SEM_LOG_NAME
  StaleShm,       \* values an earlier run may have left in the shared memory
  MaxSignals,     \* bound of the model: how often ^C is pressed
  NoResult        \* no total has been computed

SEM_LOG_NAME == "/myLog.sem"

ASSUME EnvironmentAssumption ==
  /\ SEM_LOG_NAME \notin Files
  /\ MayFail \subseteq {"shmat", "opendir", "fork", "fopen"}
  /\ StaleSem \subseteq {0, 1}
  /\ StaleShm \subseteq Int
  /\ MaxSignals \in Nat
  /\ NoResult \notin Int

-----------------------------------------------------------------------------

VARIABLES
  \* One process per directory:
  pc,             \* where its main thread is
  todo,           \* entries its readdir loop has not returned yet
  threadIDs,      \* the threads it created and has not joined, in order
  semID,          \* its private semaphore, a global that fork copies
  buffered,       \* files whose log line is in its copy of a stdio buffer
  exitCondition,  \* its copy of the global: "normal", "error" or "signal"
  totalNumOfFile, \* its copy of the global
  totalNumOfDir,  \* its copy of the global
  \* One thread per file:
  tpc,            \* where it is in threadFunction
  total,          \* its local variable: what searchInFile returned
  loaded,         \* the value of *shmData it read to add to
  \* Shared by all the processes:
  semForLog,      \* the value of the named semaphore SEM_LOG_NAME
  semNames,       \* names in the semaphore directory; a file stands for the
                  \* name its thread makes of pthread_self() and getpid()
  shm,            \* the integer in the shared memory segment
  log,            \* per file, how many copies of its match lines log.txt has
  signals,        \* how often ^C was pressed; signalFlag is signals > 0
  result,         \* what the root's explorePath returned
  skipped         \* history: directories that could not be opened or forked

processVars == <<todo, threadIDs, semID, totalNumOfFile, totalNumOfDir>>
threadVars == <<tpc, total, loaded>>
sharedVars == <<semForLog, semNames, shm>>
vars == <<pc, todo, threadIDs, semID, buffered, exitCondition, totalNumOfFile,
          totalNumOfDir, tpc, total, loaded, semForLog, semNames, shm, log,
          signals, result, skipped>>

ProcessStates == {"absent", "main", "quit", "explore", "scan", "join",
                  "joining", "wait", "sum", "report", "exited", "reaped"}
ThreadStates == {"none", "semID", "log", "search", "flush", "load", "store",
                 "post", "postLog", "exited", "joined"}

TypeOK ==
  /\ pc \in [Dirs -> ProcessStates]
  /\ todo \in [Dirs -> SUBSET (Files \cup Dirs)]
  /\ threadIDs \in [Dirs -> Seq(Files)]
  /\ semID \in [Dirs -> Nat]
  /\ buffered \in [Dirs -> SUBSET Files]
  /\ exitCondition \in [Dirs -> {"normal", "error", "signal"}]
  /\ totalNumOfFile \in [Dirs -> Nat]
  /\ totalNumOfDir \in [Dirs -> Nat]
  /\ tpc \in [Files -> ThreadStates]
  /\ total \in [Files -> Nat \cup {ERROR}]
  /\ loaded \in [Files -> Int]
  /\ semForLog \in Nat
  /\ semNames \subseteq Files \cup {SEM_LOG_NAME}
  /\ shm \in Int
  /\ log \in [Files -> Nat]
  /\ signals \in 0 .. MaxSignals
  /\ result \in Int \cup {NoResult}
  /\ skipped \subseteq Dirs

\* main has installed the handler (lines 140-144) and is about to test
\* signalFlag.  An earlier run may have left the segment, which nothing
\* removes, and the name SEM_LOG_NAME with any value.
Init ==
  /\ pc = [d \in Dirs |-> IF d = Root THEN "main" ELSE "absent"]
  /\ todo = [d \in Dirs |-> {}]
  /\ threadIDs = [d \in Dirs |-> <<>>]
  /\ semID = [d \in Dirs |-> 0]
  /\ buffered = [d \in Dirs |-> {}]
  /\ exitCondition = [d \in Dirs |-> "normal"]
  /\ totalNumOfFile = [d \in Dirs |-> 0]
  /\ totalNumOfDir = [d \in Dirs |-> 0]
  /\ tpc = [f \in Files |-> "none"]
  /\ total = [f \in Files |-> 0]
  /\ loaded = [f \in Files |-> 0]
  /\ \/ semForLog = 0 /\ semNames = {}
     \/ semForLog \in StaleSem /\ semNames = {SEM_LOG_NAME}
  /\ shm \in StaleShm
  /\ log = [f \in Files |-> 0]
  /\ signals = 0
  /\ result = NoResult
  /\ skipped = {}

Live(d) == pc[d] \notin {"absent", "quit", "exited", "reaped"}

\* exit() flushes every open stream of the process; the process stays a
\* zombie until its parent waits for it.
ExitProcess(d) ==
  /\ pc' = [pc EXCEPT ![d] = "exited"]
  /\ log' = [f \in Files |-> IF f \in buffered[d] THEN log[f] + 1 ELSE log[f]]
  /\ buffered' = [buffered EXCEPT ![d] = {}]

(***************************************************************************)
(* main and performSearch, up to the call of explorePath.  getnamed opens  *)
(* an existing semaphore as it is; only a new one gets the value 1.        *)
(***************************************************************************)
Start ==
  /\ pc[Root] = "main"
  /\ signals = 0
  /\ semForLog' = IF SEM_LOG_NAME \in semNames THEN semForLog ELSE 1
  /\ semNames' = semNames \cup {SEM_LOG_NAME}
  /\ log' = [f \in Files |-> 0]
  /\ shm' = 0
  /\ pc' = [pc EXCEPT ![Root] = "explore"]
  /\ UNCHANGED <<processVars, buffered, exitCondition, threadVars, signals, result, skipped>>

StartFails ==
  /\ pc[Root] = "main"
  /\ signals = 0
  /\ "shmat" \in MayFail
  /\ semForLog' = IF SEM_LOG_NAME \in semNames THEN semForLog ELSE 1
  /\ semNames' = semNames \cup {SEM_LOG_NAME}
  /\ log' = [f \in Files |-> 0]
  /\ exitCondition' = [exitCondition EXCEPT ![Root] = "error"]
  /\ pc' = [pc EXCEPT ![Root] = "quit"]
  /\ UNCHANGED <<processVars, buffered, threadVars, shm, signals, result, skipped>>

\* ^C before the search: main returns without searching.
SignalledAtStart ==
  /\ pc[Root] = "main"
  /\ signals > 0
  /\ pc' = [pc EXCEPT ![Root] = "quit"]
  /\ UNCHANGED <<processVars, buffered, exitCondition, threadVars, sharedVars,
                 log, signals, result, skipped>>

(***************************************************************************)
(* explorePath.                                                            *)
(***************************************************************************)
Explore(d) ==
  /\ pc[d] = "explore"
  /\ todo' = [todo EXCEPT ![d] = FilesOf(d) \cup Subdirs(d)]
  /\ totalNumOfFile' = [totalNumOfFile EXCEPT ![d] = @ + Cardinality(FilesOf(d))]
  /\ totalNumOfDir' = [totalNumOfDir EXCEPT ![d] = @ + Cardinality(Subdirs(d))]
  /\ semID' = [semID EXCEPT ![d] = 1]
  /\ pc' = [pc EXCEPT ![d] = "scan"]
  /\ UNCHANGED <<threadIDs, buffered, exitCondition, threadVars, sharedVars,
                 log, signals, result, skipped>>

OpendirFails(d) ==
  /\ pc[d] = "explore"
  /\ "opendir" \in MayFail
  /\ exitCondition' = [exitCondition EXCEPT ![d] = "error"]
  /\ skipped' = skipped \cup {d}
  /\ IF d = Root
       THEN /\ result' = ERROR
            /\ pc' = [pc EXCEPT ![d] = "report"]
            /\ UNCHANGED <<log, buffered>>
       ELSE /\ ExitProcess(d)
            /\ UNCHANGED result
  /\ UNCHANGED <<processVars, threadVars, sharedVars, signals>>

CreateThread(d, f) ==
  /\ pc[d] = "scan"
  /\ f \in todo[d] \cap Files
  /\ todo' = [todo EXCEPT ![d] = @ \ {f}]
  /\ threadIDs' = [threadIDs EXCEPT ![d] = Append(@, f)]
  /\ tpc' = [tpc EXCEPT ![f] = "semID"]
  /\ UNCHANGED <<pc, semID, buffered, exitCondition, totalNumOfFile, totalNumOfDir,
                 total, loaded, sharedVars, log, signals, result, skipped>>

\* The child has copies of the parent's globals and of its stdio buffers,
\* and none of its threads.
ForkDir(d, c) ==
  /\ pc[d] = "scan"
  /\ c \in todo[d] \cap Dirs
  /\ todo' = [todo EXCEPT ![d] = @ \ {c}]
  /\ pc' = [pc EXCEPT ![c] = "explore"]
  /\ semID' = [semID EXCEPT ![c] = semID[d]]
  /\ buffered' = [buffered EXCEPT ![c] = buffered[d]]
  /\ exitCondition' = [exitCondition EXCEPT ![c] = exitCondition[d]]
  /\ totalNumOfFile' = [totalNumOfFile EXCEPT ![c] = totalNumOfFile[d]]
  /\ totalNumOfDir' = [totalNumOfDir EXCEPT ![c] = totalNumOfDir[d]]
  /\ UNCHANGED <<threadIDs, threadVars, sharedVars, log, signals, result, skipped>>

ForkFails(d, c) ==
  /\ pc[d] = "scan"
  /\ "fork" \in MayFail
  /\ c \in todo[d] \cap Dirs
  /\ todo' = [todo EXCEPT ![d] = @ \ {c}]
  /\ exitCondition' = [exitCondition EXCEPT ![d] = "error"]
  /\ skipped' = skipped \cup {c}
  /\ UNCHANGED <<pc, threadIDs, semID, buffered, totalNumOfFile, totalNumOfDir,
                 threadVars, sharedVars, log, signals, result>>

ScanDone(d) ==
  /\ pc[d] = "scan"
  /\ todo[d] = {}
  /\ pc' = [pc EXCEPT ![d] = "join"]
  /\ UNCHANGED <<processVars, buffered, exitCondition, threadVars, sharedVars,
                 log, signals, result, skipped>>

\* The thread's name is unlinked before the thread is waited for: a name the
\* thread creates later stays.
JoinBegin(d) ==
  /\ pc[d] = "join"
  /\ threadIDs[d] # <<>>
  /\ semNames' = semNames \ {Head(threadIDs[d])}
  /\ pc' = [pc EXCEPT ![d] = "joining"]
  /\ UNCHANGED <<processVars, buffered, exitCondition, threadVars, semForLog,
                 shm, log, signals, result, skipped>>

\* Fault: the thread is unlinked and not joined.
JoinEndNoWait(d) ==
  /\ pc[d] = "joining"
  /\ threadIDs' = [threadIDs EXCEPT ![d] = Tail(@)]
  /\ pc' = [pc EXCEPT ![d] = "join"]
  /\ UNCHANGED <<todo, semID, buffered, exitCondition, totalNumOfFile, totalNumOfDir,
                 threadVars, sharedVars, log, signals, result, skipped>>

JoinEnd(d) ==
  /\ pc[d] = "joining"
  /\ tpc[Head(threadIDs[d])] = "exited"
  /\ tpc' = [tpc EXCEPT ![Head(threadIDs[d])] = "joined"]
  /\ threadIDs' = [threadIDs EXCEPT ![d] = Tail(@)]
  /\ pc' = [pc EXCEPT ![d] = "join"]
  /\ UNCHANGED <<todo, semID, buffered, exitCondition, totalNumOfFile, totalNumOfDir,
                 total, loaded, sharedVars, log, signals, result, skipped>>

JoinDone(d) ==
  /\ pc[d] = "join"
  /\ threadIDs[d] = <<>>
  /\ pc' = [pc EXCEPT ![d] = "wait"]
  /\ UNCHANGED <<processVars, buffered, exitCondition, threadVars, sharedVars,
                 log, signals, result, skipped>>

Reap(d, c) ==
  /\ pc[d] = "wait"
  /\ c \in Subdirs(d)
  /\ pc[c] = "exited"
  /\ pc' = [pc EXCEPT ![c] = "reaped"]
  /\ UNCHANGED <<processVars, buffered, exitCondition, threadVars, sharedVars,
                 log, signals, result, skipped>>

\* Fault: one wait() in place of the loop.
WaitOnce(d) ==
  /\ pc[d] = "wait"
  /\ \/ \E c \in Subdirs(d) : pc[c] = "reaped"
     \/ \A c \in Subdirs(d) : pc[c] = "absent"
  /\ pc' = [pc EXCEPT ![d] = "sum"]
  /\ UNCHANGED <<processVars, buffered, exitCondition, threadVars, sharedVars,
                 log, signals, result, skipped>>

\* wait() returns -1: there is no child left.
WaitDone(d) ==
  /\ pc[d] = "wait"
  /\ \A c \in Subdirs(d) : pc[c] \in {"absent", "reaped"}
  /\ pc' = [pc EXCEPT ![d] = "sum"]
  /\ UNCHANGED <<processVars, buffered, exitCondition, threadVars, sharedVars,
                 log, signals, result, skipped>>

\* The last lines of explorePath.  A child drops the value and exits.
ReadTotal(d) ==
  /\ pc[d] = "sum"
  /\ IF d = Root
       THEN /\ result' = shm
            /\ pc' = [pc EXCEPT ![d] = "report"]
            /\ UNCHANGED <<log, buffered>>
       ELSE /\ ExitProcess(d)
            /\ UNCHANGED result
  /\ UNCHANGED <<processVars, exitCondition, threadVars, sharedVars, signals, skipped>>

(***************************************************************************)
(* performSearch after explorePath: counts the entries of the root again,  *)
(* prints, and unlinks SEM_LOG_NAME.                                       *)
(***************************************************************************)
Report ==
  /\ pc[Root] = "report"
  /\ \/ /\ totalNumOfFile' = [totalNumOfFile EXCEPT ![Root] = @ + Cardinality(FilesOf(Root))]
        /\ totalNumOfDir' = [totalNumOfDir EXCEPT ![Root] = @ + Cardinality(Subdirs(Root))]
     \/ /\ "opendir" \in MayFail
        /\ UNCHANGED <<totalNumOfFile, totalNumOfDir>>
  /\ semNames' = semNames \ {SEM_LOG_NAME}
  /\ ExitProcess(Root)
  /\ UNCHANGED <<todo, threadIDs, semID, exitCondition, threadVars, semForLog,
                 shm, signals, result, skipped>>

(***************************************************************************)
(* threadFunction, for the thread that searches file f.                    *)
(***************************************************************************)
TakeSemID(f) ==
  /\ tpc[f] = "semID"
  /\ semID[fileDir[f]] > 0
  /\ semID' = [semID EXCEPT ![fileDir[f]] = @ - 1]
  /\ semNames' = semNames \cup {f}
  /\ tpc' = [tpc EXCEPT ![f] = "log"]
  /\ UNCHANGED <<pc, todo, threadIDs, buffered, exitCondition, totalNumOfFile, totalNumOfDir,
                 total, loaded, semForLog, shm, log, signals, result, skipped>>

\* Fault: the semaphore is decremented without waiting for it.
TakeLogNoWait(f) ==
  /\ tpc[f] = "log"
  /\ semForLog' = semForLog - 1
  /\ tpc' = [tpc EXCEPT ![f] = "search"]
  /\ UNCHANGED <<pc, processVars, buffered, exitCondition, total, loaded,
                 semNames, shm, log, signals, result, skipped>>

TakeLog(f) ==
  /\ tpc[f] = "log"
  /\ semForLog > 0
  /\ semForLog' = semForLog - 1
  /\ tpc' = [tpc EXCEPT ![f] = "search"]
  /\ UNCHANGED <<pc, processVars, buffered, exitCondition, total, loaded,
                 semNames, shm, log, signals, result, skipped>>

\* searchInFile.  Its fprintf puts the line into the stdio buffer; fflush is
\* a step of its own because the main thread may fork in between.
Search(f) ==
  /\ tpc[f] = "search"
  /\ total' = [total EXCEPT ![f] = matches[f]]
  /\ IF matches[f] > 0
       THEN /\ buffered' = [buffered EXCEPT ![fileDir[f]] = @ \cup {f}]
            /\ tpc' = [tpc EXCEPT ![f] = "flush"]
       ELSE /\ tpc' = [tpc EXCEPT ![f] = "load"]
            /\ UNCHANGED buffered
  /\ UNCHANGED <<pc, processVars, exitCondition, loaded, sharedVars, log,
                 signals, result, skipped>>

SearchFails(f) ==
  /\ tpc[f] = "search"
  /\ "fopen" \in MayFail
  /\ total' = [total EXCEPT ![f] = ERROR]
  /\ exitCondition' = [exitCondition EXCEPT ![fileDir[f]] = "error"]
  /\ tpc' = [tpc EXCEPT ![f] = "load"]
  /\ UNCHANGED <<pc, processVars, buffered, loaded, sharedVars, log, signals, result, skipped>>

\* Fault: no fflush after the fprintf.
FlushSkipped(f) ==
  /\ tpc[f] = "flush"
  /\ tpc' = [tpc EXCEPT ![f] = "load"]
  /\ UNCHANGED <<pc, processVars, buffered, exitCondition, total, loaded, sharedVars,
                 log, signals, result, skipped>>

Flush(f) ==
  /\ tpc[f] = "flush"
  /\ buffered' = [buffered EXCEPT ![fileDir[f]] = @ \ {f}]
  /\ log' = [log EXCEPT ![f] = @ + 1]
  /\ tpc' = [tpc EXCEPT ![f] = "load"]
  /\ UNCHANGED <<pc, processVars, exitCondition, total, loaded, sharedVars,
                 signals, result, skipped>>

\* *shmData = (*shmData)+total reads and writes the segment in two steps.
Load(f) ==
  /\ tpc[f] = "load"
  /\ loaded' = [loaded EXCEPT ![f] = shm]
  /\ tpc' = [tpc EXCEPT ![f] = "store"]
  /\ UNCHANGED <<pc, processVars, buffered, exitCondition, total, sharedVars,
                 log, signals, result, skipped>>

Store(f) ==
  /\ tpc[f] = "store"
  /\ shm' = loaded[f] + total[f]
  /\ tpc' = [tpc EXCEPT ![f] = "post"]
  /\ UNCHANGED <<pc, processVars, buffered, exitCondition, total, loaded, semForLog,
                 semNames, log, signals, result, skipped>>

PostSemID(f) ==
  /\ tpc[f] = "post"
  /\ semID' = [semID EXCEPT ![fileDir[f]] = @ + 1]
  /\ tpc' = [tpc EXCEPT ![f] = "postLog"]
  /\ UNCHANGED <<pc, todo, threadIDs, buffered, exitCondition, totalNumOfFile, totalNumOfDir,
                 total, loaded, sharedVars, log, signals, result, skipped>>

\* Fault: sem_post(semForLog) is left out.
PostLogDropped(f) ==
  /\ tpc[f] = "postLog"
  /\ tpc' = [tpc EXCEPT ![f] = "exited"]
  /\ UNCHANGED <<pc, processVars, buffered, exitCondition, total, loaded, sharedVars,
                 log, signals, result, skipped>>

PostLog(f) ==
  /\ tpc[f] = "postLog"
  /\ semForLog' = semForLog + 1
  /\ tpc' = [tpc EXCEPT ![f] = "exited"]
  /\ UNCHANGED <<pc, processVars, buffered, exitCondition, total, loaded, semNames,
                 shm, log, signals, result, skipped>>

(***************************************************************************)
(* ^C reaches every process of the terminal's foreground group.  The       *)
(* handler is installed without SA_RESTART, so a wait() that is blocked    *)
(* returns -1 with EINTR, which the loop of explorePath takes for "no      *)
(* child left"; a process that has not entered wait() yet goes on to it.   *)
(***************************************************************************)
Blocked(d) ==
  /\ pc[d] = "wait"
  /\ \E c \in Subdirs(d) : Live(c)
  /\ \A c \in Subdirs(d) : pc[c] # "exited"

CtrlC(S) ==
  /\ signals < MaxSignals
  /\ Live(Root)
  /\ S \subseteq {d \in Dirs : Blocked(d)}
  /\ signals' = signals + 1
  /\ exitCondition' = [d \in Dirs |-> IF Live(d) THEN "signal" ELSE exitCondition[d]]
  /\ pc' = [d \in Dirs |-> IF d \in S THEN "sum" ELSE pc[d]]
  /\ UNCHANGED <<processVars, buffered, threadVars, sharedVars, log, result, skipped>>

-----------------------------------------------------------------------------

ProcessStep(d) ==
  \/ Explore(d) \/ OpendirFails(d) \/ ScanDone(d)
  \/ \E f \in Files : CreateThread(d, f)
  \/ \E c \in Dirs : ForkDir(d, c) \/ ForkFails(d, c) \/ Reap(d, c)
  \/ JoinBegin(d) \/ JoinEnd(d) \/ JoinDone(d)
  \/ WaitDone(d) \/ ReadTotal(d)

RootStep == Start \/ StartFails \/ SignalledAtStart \/ Report

ThreadStep(f) ==
  \/ TakeSemID(f) \/ TakeLog(f) \/ Search(f) \/ SearchFails(f) \/ Flush(f)
  \/ Load(f) \/ Store(f) \/ PostSemID(f) \/ PostLog(f)

Interrupt == \E S \in SUBSET Dirs : CtrlC(S)

Next ==
  \/ RootStep
  \/ \E d \in Dirs : ProcessStep(d)
  \/ \E f \in Files : ThreadStep(f)
  \/ Interrupt

Spec == Init /\ [][Next]_vars

\* The operating system schedules every runnable process and thread.
Fairness ==
  /\ WF_vars(RootStep)
  /\ \A d \in Dirs : WF_vars(ProcessStep(d))
  /\ \A f \in Files : WF_vars(ThreadStep(f))

FairSpec == Spec /\ Fairness

-----------------------------------------------------------------------------
(***************************************************************************)
(* Properties.                                                             *)
(***************************************************************************)

InLog(f) == tpc[f] \in {"search", "flush", "load", "store", "post", "postLog"}
Stored(f) == tpc[f] \in {"post", "postLog", "exited", "joined"}

\* A directory on the way to f could not be opened or forked for.
Unreachable(f) == \E d \in skipped : fileDir[f] \in Below(d)

\* The search has begun: the shared integer is this run's.
Started == pc[Root] \notin {"main", "quit"}

\* At most one thread of all the processes is between sem_wait(semForLog) and
\* sem_post(semForLog), although each process posts its own semID first,
\* and although an earlier run may have left the name with any value.
LogMutex == \A f, g \in Files : InLog(f) /\ InLog(g) => f = g

\* No addition to the shared integer is lost, doubled or made to a stale
\* value: at any moment it is the sum over the threads that have stored.
NoLostUpdate == Started => shm = SumOver({f \in Files : Stored(f)}, total)

\* Unless ^C was pressed, what the root returns covers every file it could
\* reach, and nobody adds to the shared integer afterwards.
ReportExact ==
  signals = 0 /\ result # NoResult /\ Root \notin skipped =>
    /\ \A f \in Files : Stored(f) \/ Unreachable(f)
    /\ result = shm

\* Unless ^C was pressed, a process that is past its wait() loop leaves no
\* process behind in any directory below its own.
NoOrphans ==
  signals = 0 =>
    \A d \in Dirs : pc[d] \in {"sum", "report", "exited", "reaped"} =>
      \A c \in Below(d) \ {d} : pc[c] \in {"absent", "reaped"}

\* Once a search has stored its total, log.txt has its match lines.  It may
\* have them more than once, when the main thread forked before fflush, but
\* not more often than there are processes below the file's directory.
LogLines ==
  \A f \in Files : Stored(f) =>
    IF total[f] > 0 THEN log[f] \in 1 .. Cardinality(Below(fileDir[f]))
                    ELSE log[f] = 0

\* The threads, processes and semaphores implement the counting of every file
\* exactly once that CountOnce specifies.
Abstract == INSTANCE CountOnce WITH
  counted <- {f \in Files : Stored(f)},
  excused <- {f \in Files : Unreachable(f)},
  sum <- IF Started THEN shm ELSE 0,
  interrupted <- signals > 0,
  answer <- result
CountsOnce == Abstract!Spec

\* If SEM_LOG_NAME was not left at 0 by an earlier run, the search ends and
\* every process of it ends, whatever fails and whenever ^C is pressed.
UsableSemaphore == SEM_LOG_NAME \in semNames => semForLog > 0
Terminates ==
  (pc[Root] = "main" /\ UsableSemaphore) ~> (\A d \in Dirs : ~Live(d))

\* What "Exit Condition: normal" is printed for: the search of every
\* directory and file went well, in whichever process it ran.
NormalMeansComplete ==
  pc[Root] = "exited" /\ exitCondition[Root] = "normal" =>
    \A f \in Files : ~Unreachable(f) /\ total[f] # ERROR
=============================================================================
