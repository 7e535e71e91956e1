--------------------------- MODULE GrepShmProofs ---------------------------
(***************************************************************************)
(* Theorems about GrepShm, for every tree, every file content and every    *)
(* set of failures: mutual exclusion, that no addition to the shared       *)
(* integer is lost, whom a process has waited for, that the root's total   *)
(* is complete and final, that the log has the lines, and that the program *)
(* implements CountOnce.  The invariants follow one directory and its      *)
(* entries; the statements about everything below a directory follow from  *)
(* them along the tree.                                                    *)
(***************************************************************************)
EXTENDS GrepShm, SearchTreeProofs

(***************************************************************************)
(* Types.                                                                  *)
(***************************************************************************)

\* The head and the tail that JoinEnd takes exist.
JoiningHasThread == \A d \in Dirs : pc[d] = "joining" => threadIDs[d] # <<>>

TypeInv == TypeOK /\ JoiningHasThread

\* The initial states are well typed.
LEMMA TypeInit == Init => TypeInv
<1> SUFFICES ASSUME Init PROVE TypeInv
  OBVIOUS
<1>1. semForLog \in Nat /\ semNames \subseteq Files \cup {SEM_LOG_NAME}
  <2>1. \/ semForLog = 0 /\ semNames = {}
        \/ semForLog \in StaleSem /\ semNames = {SEM_LOG_NAME}
    BY DEF Init
  <2>2. semForLog = 0 \/ semForLog \in {0, 1}
    BY <2>1, EnvironmentAssumption
  <2>3. semNames = {} \/ semNames = {SEM_LOG_NAME}
    BY <2>1
  <2> QED
    BY <2>2, <2>3
<1>2. shm \in Int /\ signals \in 0 .. MaxSignals
  BY EnvironmentAssumption DEF Init
<1> QED
  BY <1>1, <1>2 DEF Init, TypeInv, TypeOK, JoiningHasThread, ProcessStates, ThreadStates

\* A directory holds a finite number of files and (where it is used, by
\* assumption) of directories.
LEMMA CountsAreNat ==
  ASSUME NEW d PROVE Cardinality(FilesOf(d)) \in Nat /\ Cardinality(Subdirs(d)) \in Nat
<1>1. FilesOf(d) \subseteq Files /\ Subdirs(d) \subseteq Dirs
  BY DEF FilesOf, Subdirs
<1> QED
  BY <1>1, FilesAssumption, TreeAssumption, FS_Subset, FS_CardinalityType

\* The directory of a file and its number of matches.
LEMMA FileTypes ==
  ASSUME NEW f \in Files PROVE fileDir[f] \in Dirs /\ matches[f] \in Nat
  BY FilesAssumption

\* exit() keeps the types of what it changes.
LEMMA ExitTypes ==
  ASSUME TypeOK, NEW d \in Dirs, ExitProcess(d)
  PROVE  /\ pc' \in [Dirs -> ProcessStates]
         /\ log' \in [Files -> Nat]
         /\ buffered' \in [Dirs -> SUBSET Files]
  BY DEF TypeOK, ExitProcess, ProcessStates

\* Every step of the program keeps the types.
LEMMA TypeStep == TypeInv /\ [Next]_vars => TypeInv'
<1> SUFFICES ASSUME TypeInv, [Next]_vars PROVE TypeInv'
  OBVIOUS
<1>1. CASE Start
  BY <1>1, TreeAssumption
  DEF TypeInv, TypeOK, JoiningHasThread, ProcessStates, ThreadStates,
      processVars, threadVars, sharedVars, Start
<1>2. CASE StartFails
  BY <1>2
  DEF TypeInv, TypeOK, JoiningHasThread, ProcessStates, ThreadStates,
      processVars, threadVars, sharedVars, StartFails
<1>3. CASE SignalledAtStart
  BY <1>3
  DEF TypeInv, TypeOK, JoiningHasThread, ProcessStates, ThreadStates,
      processVars, threadVars, sharedVars, SignalledAtStart
<1>4. CASE Report
  <2>1. /\ pc' \in [Dirs -> ProcessStates]
        /\ log' \in [Files -> Nat]
        /\ buffered' \in [Dirs -> SUBSET Files]
    BY <1>4, ExitTypes, TreeAssumption DEF TypeInv, Report
  <2>2. totalNumOfFile' \in [Dirs -> Nat] /\ totalNumOfDir' \in [Dirs -> Nat]
    <3>1. Cardinality(FilesOf(Root)) \in Nat /\ Cardinality(Subdirs(Root)) \in Nat
      BY CountsAreNat
    <3>2. \/ /\ totalNumOfFile' = [totalNumOfFile EXCEPT ![Root] = @ + Cardinality(FilesOf(Root))]
             /\ totalNumOfDir' = [totalNumOfDir EXCEPT ![Root] = @ + Cardinality(Subdirs(Root))]
          \/ UNCHANGED <<totalNumOfFile, totalNumOfDir>>
      BY <1>4 DEF Report
    <3>3. totalNumOfFile \in [Dirs -> Nat] /\ totalNumOfDir \in [Dirs -> Nat]
      BY DEF TypeInv, TypeOK
    <3> QED
      BY <3>1, <3>2, <3>3, TreeAssumption
  <2>3. JoiningHasThread'
    BY <1>4 DEF TypeInv, TypeOK, JoiningHasThread, Report, ExitProcess
  <2> QED
    BY <1>4, <2>1, <2>2, <2>3
    DEF TypeInv, TypeOK, Report, threadVars
<1>5. ASSUME NEW d \in Dirs, Explore(d) PROVE TypeInv'
  <2>1. totalNumOfFile' \in [Dirs -> Nat] /\ totalNumOfDir' \in [Dirs -> Nat]
    BY <1>5, CountsAreNat DEF TypeInv, TypeOK, Explore
  <2>2. todo' \in [Dirs -> SUBSET (Files \cup Dirs)]
    BY <1>5 DEF TypeInv, TypeOK, Explore, FilesOf, Subdirs
  <2> QED
    BY <1>5, <2>1, <2>2
    DEF TypeInv, TypeOK, JoiningHasThread, ProcessStates, ThreadStates,
         processVars, threadVars, sharedVars, Explore
<1>6. ASSUME NEW d \in Dirs, OpendirFails(d) PROVE TypeInv'
  <2>1. /\ pc' \in [Dirs -> ProcessStates]
        /\ log' \in [Files -> Nat]
        /\ buffered' \in [Dirs -> SUBSET Files]
        /\ result' \in Int \cup {NoResult}
    <3>1. CASE d = Root
      <4>1. pc' = [pc EXCEPT ![d] = "report"] /\ result' = -1 /\ UNCHANGED <<log, buffered>>
        BY <1>6, <3>1 DEF OpendirFails, ERROR
      <4>2. /\ pc \in [Dirs -> ProcessStates]
            /\ log \in [Files -> Nat]
            /\ buffered \in [Dirs -> SUBSET Files]
        BY DEF TypeInv, TypeOK
      <4> QED
        BY <4>1, <4>2 DEF ProcessStates
    <3>2. CASE d # Root
      <4>1. ExitProcess(d) /\ UNCHANGED result
        BY <1>6, <3>2 DEF OpendirFails
      <4>2. TypeOK /\ result' \in Int \cup {NoResult}
        BY <4>1 DEF TypeInv, TypeOK
      <4> QED
        BY <4>1, <4>2, ExitTypes
    <3> QED
      BY <3>1, <3>2
  <2>2. JoiningHasThread'
    BY <1>6 DEF TypeInv, TypeOK, JoiningHasThread, OpendirFails, ExitProcess, processVars
  <2> QED
    BY <1>6, <2>1, <2>2
    DEF TypeInv, TypeOK, OpendirFails, processVars, threadVars, sharedVars
<1>7. ASSUME NEW d \in Dirs, ScanDone(d) PROVE TypeInv'
  BY <1>7
  DEF TypeInv, TypeOK, JoiningHasThread, ProcessStates, ThreadStates,
      processVars, threadVars, sharedVars, ScanDone
<1>8. ASSUME NEW d \in Dirs, JoinBegin(d) PROVE TypeInv'
  BY <1>8
  DEF TypeInv, TypeOK, JoiningHasThread, ProcessStates, ThreadStates,
      processVars, threadVars, sharedVars, JoinBegin
<1>9. ASSUME NEW d \in Dirs, JoinEnd(d) PROVE TypeInv'
  BY <1>9
  DEF TypeInv, TypeOK, JoiningHasThread, ProcessStates, ThreadStates,
      processVars, threadVars, sharedVars, JoinEnd
<1>10. ASSUME NEW d \in Dirs, JoinDone(d) PROVE TypeInv'
  BY <1>10
  DEF TypeInv, TypeOK, JoiningHasThread, ProcessStates, ThreadStates,
      processVars, threadVars, sharedVars, JoinDone
<1>11. ASSUME NEW d \in Dirs, WaitDone(d) PROVE TypeInv'
  BY <1>11
  DEF TypeInv, TypeOK, JoiningHasThread, ProcessStates, ThreadStates,
      processVars, threadVars, sharedVars, WaitDone
<1>12. ASSUME NEW d \in Dirs, ReadTotal(d) PROVE TypeInv'
  BY <1>12, ExitTypes
  DEF TypeInv, TypeOK, JoiningHasThread, ProcessStates, ThreadStates,
      processVars, threadVars, sharedVars, ReadTotal, ExitProcess
<1>13. ASSUME NEW d \in Dirs, NEW f \in Files, CreateThread(d, f) PROVE TypeInv'
  BY <1>13
  DEF TypeInv, TypeOK, JoiningHasThread, ProcessStates, ThreadStates,
      processVars, threadVars, sharedVars, CreateThread
<1>14. ASSUME NEW d \in Dirs, NEW c \in Dirs, ForkDir(d, c) PROVE TypeInv'
  BY <1>14
  DEF TypeInv, TypeOK, JoiningHasThread, ProcessStates, ThreadStates,
      processVars, threadVars, sharedVars, ForkDir
<1>15. ASSUME NEW d \in Dirs, NEW c \in Dirs, ForkFails(d, c) PROVE TypeInv'
  BY <1>15
  DEF TypeInv, TypeOK, JoiningHasThread, ProcessStates, ThreadStates,
      processVars, threadVars, sharedVars, ForkFails
<1>16. ASSUME NEW d \in Dirs, NEW c \in Dirs, Reap(d, c) PROVE TypeInv'
  BY <1>16
  DEF TypeInv, TypeOK, JoiningHasThread, ProcessStates, ThreadStates,
      processVars, threadVars, sharedVars, Reap
<1>17. ASSUME NEW f \in Files, TakeSemID(f) PROVE TypeInv'
  <2>1. semID' \in [Dirs -> Nat]
    BY <1>17, FileTypes DEF TypeInv, TypeOK, TakeSemID
  <2>2. tpc' \in [Files -> ThreadStates]
    BY <1>17 DEF TypeInv, TypeOK, TakeSemID, ThreadStates
  <2>3. semNames' \subseteq Files \cup {SEM_LOG_NAME}
    BY <1>17 DEF TypeInv, TypeOK, TakeSemID
  <2> QED
    BY <1>17, <2>1, <2>2, <2>3
    DEF TypeInv, TypeOK, JoiningHasThread, TakeSemID
<1>18. ASSUME NEW f \in Files, TakeLog(f) PROVE TypeInv'
  BY <1>18
  DEF TypeInv, TypeOK, JoiningHasThread, ProcessStates, ThreadStates,
      processVars, threadVars, sharedVars, TakeLog
<1>19. ASSUME NEW f \in Files, Search(f) PROVE TypeInv'
  <2>1. buffered' \in [Dirs -> SUBSET Files]
    <3>1. buffered \in [Dirs -> SUBSET Files] /\ fileDir[f] \in Dirs
      BY FileTypes DEF TypeInv, TypeOK
    <3>2. \/ buffered' = [buffered EXCEPT ![fileDir[f]] = @ \cup {f}]
          \/ buffered' = buffered
      BY <1>19 DEF Search
    <3> QED
      BY <3>1, <3>2
  <2>2. tpc' \in [Files -> ThreadStates]
    BY <1>19 DEF TypeInv, TypeOK, Search, ThreadStates
  <2> QED
    BY <1>19, <2>1, <2>2, FileTypes
    DEF TypeInv, TypeOK, JoiningHasThread, Search, processVars, sharedVars
<1>20. ASSUME NEW f \in Files, SearchFails(f) PROVE TypeInv'
  <2>1. total' \in [Files -> Nat \cup {ERROR}]
    BY <1>20 DEF TypeInv, TypeOK, SearchFails
  <2>2. exitCondition' \in [Dirs -> {"normal", "error", "signal"}]
    BY <1>20, FileTypes DEF TypeInv, TypeOK, SearchFails
  <2>3. tpc' \in [Files -> ThreadStates]
    BY <1>20 DEF TypeInv, TypeOK, SearchFails, ThreadStates
  <2> QED
    BY <1>20, <2>1, <2>2, <2>3
    DEF TypeInv, TypeOK, JoiningHasThread, SearchFails, processVars, sharedVars
<1>21. ASSUME NEW f \in Files, Flush(f) PROVE TypeInv'
  <2>1. buffered' \in [Dirs -> SUBSET Files]
    BY <1>21, FileTypes DEF TypeInv, TypeOK, Flush
  <2>2. log' \in [Files -> Nat]
    BY <1>21 DEF TypeInv, TypeOK, Flush
  <2>3. tpc' \in [Files -> ThreadStates]
    BY <1>21 DEF TypeInv, TypeOK, Flush, ThreadStates
  <2> QED
    BY <1>21, <2>1, <2>2, <2>3
    DEF TypeInv, TypeOK, JoiningHasThread, Flush, processVars, sharedVars
<1>22. ASSUME NEW f \in Files, Load(f) PROVE TypeInv'
  BY <1>22
  DEF TypeInv, TypeOK, JoiningHasThread, ProcessStates, ThreadStates,
      processVars, threadVars, sharedVars, Load
<1>23. ASSUME NEW f \in Files, Store(f) PROVE TypeInv'
  <2>1. shm' \in Int
    BY <1>23 DEF TypeInv, TypeOK, Store, ERROR
  <2>2. tpc' \in [Files -> ThreadStates]
    BY <1>23 DEF TypeInv, TypeOK, Store, ThreadStates
  <2> QED
    BY <1>23, <2>1, <2>2
    DEF TypeInv, TypeOK, JoiningHasThread, Store, processVars
<1>24. ASSUME NEW f \in Files, PostSemID(f) PROVE TypeInv'
  <2>1. semID' \in [Dirs -> Nat]
    BY <1>24, FileTypes DEF TypeInv, TypeOK, PostSemID
  <2>2. tpc' \in [Files -> ThreadStates]
    BY <1>24 DEF TypeInv, TypeOK, PostSemID, ThreadStates
  <2> QED
    BY <1>24, <2>1, <2>2
    DEF TypeInv, TypeOK, JoiningHasThread, PostSemID, sharedVars
<1>25. ASSUME NEW f \in Files, PostLog(f) PROVE TypeInv'
  BY <1>25
  DEF TypeInv, TypeOK, JoiningHasThread, ProcessStates, ThreadStates,
      processVars, threadVars, sharedVars, PostLog
<1>26. ASSUME NEW S \in SUBSET Dirs, CtrlC(S) PROVE TypeInv'
  BY <1>26, EnvironmentAssumption
  DEF TypeInv, TypeOK, JoiningHasThread, ProcessStates, ThreadStates,
      processVars, threadVars, sharedVars, CtrlC, Live, Blocked
<1>27. CASE UNCHANGED vars
  BY <1>27
  DEF TypeInv, TypeOK, JoiningHasThread, ProcessStates, ThreadStates,
      processVars, threadVars, sharedVars, vars
<1> QED
  BY <1>1, <1>2, <1>3, <1>4, <1>5, <1>6, <1>7, <1>8, <1>9,
     <1>10, <1>11, <1>12, <1>13, <1>14, <1>15, <1>16, <1>17, <1>18,
     <1>19, <1>20, <1>21, <1>22, <1>23, <1>24, <1>25, <1>26, <1>27
  DEF Next, RootStep, ProcessStep, ThreadStep, Interrupt

\* In every reachable state every variable has its type.
THEOREM TypeCorrect == Spec => []TypeOK
<1>1. Spec => []TypeInv
  BY TypeInit, TypeStep, PTL DEF Spec
<1>2. TypeInv => TypeOK
  BY DEF TypeInv
<1> QED
  BY <1>1, <1>2, PTL

(***************************************************************************)
(* Mutual exclusion on the log semaphore.                                  *)
(***************************************************************************)

\* Until performSearch runs there are no threads and no other processes.
BeforeStart ==
  pc[Root] \in {"main", "quit"} =>
    /\ \A d \in Dirs \ {Root} : pc[d] = "absent"
    /\ \A f \in Files : tpc[f] = "none"

\* The semaphore is 1 only while no thread holds it, and at most one does.
LogInv ==
  /\ semForLog = 0 \/ semForLog = 1
  /\ semForLog = 1 => \A f \in Files : ~InLog(f)
  /\ LogMutex

\* The initial states, with or without a semaphore left by an earlier run.
LEMMA MutexInit == Init => BeforeStart /\ LogInv
<1> SUFFICES ASSUME Init PROVE BeforeStart /\ LogInv
  OBVIOUS
<1>1. semForLog = 0 \/ semForLog = 1
  BY EnvironmentAssumption DEF Init
<1>2. \A f \in Files : tpc[f] = "none"
  BY DEF Init
<1> QED
  BY <1>1, <1>2 DEF Init, BeforeStart, LogInv, LogMutex, InLog

\* Until main has called performSearch nothing runs.
LEMMA BeforeStartStep == TypeInv /\ BeforeStart /\ [Next]_vars => BeforeStart'
<1> SUFFICES ASSUME TypeInv, BeforeStart, [Next]_vars PROVE BeforeStart'
  OBVIOUS
<1>0. Root \in Dirs /\ pc \in [Dirs -> ProcessStates] /\ tpc \in [Files -> ThreadStates]
  BY TreeAssumption DEF TypeInv, TypeOK
<1>1. CASE Start
  BY <1>1, <1>0
  DEF BeforeStart, processVars, threadVars, sharedVars, Start
<1>2. CASE StartFails
  BY <1>2, <1>0
  DEF BeforeStart, processVars, threadVars, sharedVars, StartFails
<1>3. CASE SignalledAtStart
  BY <1>3, <1>0
  DEF BeforeStart, processVars, threadVars, sharedVars, SignalledAtStart
<1>4. CASE Report
  BY <1>4, <1>0
  DEF BeforeStart, processVars, threadVars, sharedVars, Report, ExitProcess
<1>5. ASSUME NEW d \in Dirs, Explore(d) PROVE BeforeStart'
  BY <1>5, <1>0
  DEF BeforeStart, processVars, threadVars, sharedVars, Explore
<1>6. ASSUME NEW d \in Dirs, OpendirFails(d) PROVE BeforeStart'
  BY <1>6, <1>0
  DEF BeforeStart, processVars, threadVars, sharedVars, OpendirFails, ExitProcess
<1>7. ASSUME NEW d \in Dirs, ScanDone(d) PROVE BeforeStart'
  BY <1>7, <1>0
  DEF BeforeStart, processVars, threadVars, sharedVars, ScanDone
<1>8. ASSUME NEW d \in Dirs, JoinBegin(d) PROVE BeforeStart'
  BY <1>8, <1>0
  DEF BeforeStart, processVars, threadVars, sharedVars, JoinBegin
<1>9. ASSUME NEW d \in Dirs, JoinEnd(d) PROVE BeforeStart'
  BY <1>9, <1>0
  DEF BeforeStart, processVars, threadVars, sharedVars, JoinEnd
<1>10. ASSUME NEW d \in Dirs, JoinDone(d) PROVE BeforeStart'
  BY <1>10, <1>0
  DEF BeforeStart, processVars, threadVars, sharedVars, JoinDone
<1>11. ASSUME NEW d \in Dirs, WaitDone(d) PROVE BeforeStart'
  BY <1>11, <1>0
  DEF BeforeStart, processVars, threadVars, sharedVars, WaitDone
<1>12. ASSUME NEW d \in Dirs, ReadTotal(d) PROVE BeforeStart'
  BY <1>12, <1>0
  DEF BeforeStart, processVars, threadVars, sharedVars, ReadTotal, ExitProcess
<1>13. ASSUME NEW d \in Dirs, NEW f \in Files, CreateThread(d, f) PROVE BeforeStart'
  BY <1>13, <1>0
  DEF BeforeStart, processVars, threadVars, sharedVars, CreateThread
<1>14. ASSUME NEW d \in Dirs, NEW c \in Dirs, ForkDir(d, c) PROVE BeforeStart'
  BY <1>14, <1>0
  DEF BeforeStart, processVars, threadVars, sharedVars, ForkDir
<1>15. ASSUME NEW d \in Dirs, NEW c \in Dirs, ForkFails(d, c) PROVE BeforeStart'
  BY <1>15, <1>0
  DEF BeforeStart, processVars, threadVars, sharedVars, ForkFails
<1>16. ASSUME NEW d \in Dirs, NEW c \in Dirs, Reap(d, c) PROVE BeforeStart'
  BY <1>16, <1>0
  DEF BeforeStart, processVars, threadVars, sharedVars, Reap
<1>17. ASSUME NEW f \in Files, TakeSemID(f) PROVE BeforeStart'
  BY <1>17, <1>0
  DEF BeforeStart, processVars, threadVars, sharedVars, TakeSemID
<1>18. ASSUME NEW f \in Files, TakeLog(f) PROVE BeforeStart'
  BY <1>18, <1>0
  DEF BeforeStart, processVars, threadVars, sharedVars, TakeLog
<1>19. ASSUME NEW f \in Files, Search(f) PROVE BeforeStart'
  BY <1>19, <1>0
  DEF BeforeStart, processVars, threadVars, sharedVars, Search
<1>20. ASSUME NEW f \in Files, SearchFails(f) PROVE BeforeStart'
  BY <1>20, <1>0
  DEF BeforeStart, processVars, threadVars, sharedVars, SearchFails
<1>21. ASSUME NEW f \in Files, Flush(f) PROVE BeforeStart'
  BY <1>21, <1>0
  DEF BeforeStart, processVars, threadVars, sharedVars, Flush
<1>22. ASSUME NEW f \in Files, Load(f) PROVE BeforeStart'
  BY <1>22, <1>0
  DEF BeforeStart, processVars, threadVars, sharedVars, Load
<1>23. ASSUME NEW f \in Files, Store(f) PROVE BeforeStart'
  BY <1>23, <1>0
  DEF BeforeStart, processVars, threadVars, sharedVars, Store
<1>24. ASSUME NEW f \in Files, PostSemID(f) PROVE BeforeStart'
  BY <1>24, <1>0
  DEF BeforeStart, processVars, threadVars, sharedVars, PostSemID
<1>25. ASSUME NEW f \in Files, PostLog(f) PROVE BeforeStart'
  BY <1>25, <1>0
  DEF BeforeStart, processVars, threadVars, sharedVars, PostLog
<1>26. ASSUME NEW S \in SUBSET Dirs, CtrlC(S) PROVE BeforeStart'
  BY <1>26, <1>0
  DEF BeforeStart, processVars, threadVars, sharedVars, CtrlC, Live, Blocked
<1>27. CASE UNCHANGED vars
  BY <1>27, <1>0
  DEF BeforeStart, processVars, threadVars, sharedVars, vars
<1> QED
  BY <1>1, <1>2, <1>3, <1>4, <1>5, <1>6, <1>7, <1>8, <1>9,
     <1>10, <1>11, <1>12, <1>13, <1>14, <1>15, <1>16, <1>17, <1>18,
     <1>19, <1>20, <1>21, <1>22, <1>23, <1>24, <1>25, <1>26, <1>27
  DEF Next, RootStep, ProcessStep, ThreadStep, Interrupt

\* What a step does to the semaphore and to the threads that hold it: it
\* enters with the semaphore taken from 1 to 0, leaves giving it back, or
\* leaves both alone.
LEMMA LogInvStep == TypeInv /\ BeforeStart /\ LogInv /\ [Next]_vars => LogInv'
<1> SUFFICES ASSUME TypeInv, BeforeStart, LogInv, [Next]_vars PROVE LogInv'
  OBVIOUS
<1>0. Root \in Dirs /\ pc \in [Dirs -> ProcessStates] /\ tpc \in [Files -> ThreadStates]
  BY TreeAssumption DEF TypeInv, TypeOK
<1>1. CASE Start
  BY <1>1, <1>0
  DEF LogInv, LogMutex, InLog, processVars, threadVars, sharedVars, Start, BeforeStart
<1>2. CASE StartFails
  BY <1>2, <1>0
  DEF LogInv, LogMutex, InLog, processVars, threadVars, sharedVars, StartFails, BeforeStart
<1>3. CASE SignalledAtStart
  BY <1>3, <1>0
  DEF LogInv, LogMutex, InLog, processVars, threadVars, sharedVars, SignalledAtStart
<1>4. CASE Report
  BY <1>4, <1>0
  DEF LogInv, LogMutex, InLog, processVars, threadVars, sharedVars, Report, ExitProcess
<1>5. ASSUME NEW d \in Dirs, Explore(d) PROVE LogInv'
  BY <1>5, <1>0
  DEF LogInv, LogMutex, InLog, processVars, threadVars, sharedVars, Explore
<1>6. ASSUME NEW d \in Dirs, OpendirFails(d) PROVE LogInv'
  BY <1>6, <1>0
  DEF LogInv, LogMutex, InLog, processVars, threadVars, sharedVars, OpendirFails, ExitProcess
<1>7. ASSUME NEW d \in Dirs, ScanDone(d) PROVE LogInv'
  BY <1>7, <1>0
  DEF LogInv, LogMutex, InLog, processVars, threadVars, sharedVars, ScanDone
<1>8. ASSUME NEW d \in Dirs, JoinBegin(d) PROVE LogInv'
  BY <1>8, <1>0
  DEF LogInv, LogMutex, InLog, processVars, threadVars, sharedVars, JoinBegin
<1>9. ASSUME NEW d \in Dirs, JoinEnd(d) PROVE LogInv'
  BY <1>9, <1>0
  DEF LogInv, LogMutex, InLog, processVars, threadVars, sharedVars, JoinEnd
<1>10. ASSUME NEW d \in Dirs, JoinDone(d) PROVE LogInv'
  BY <1>10, <1>0
  DEF LogInv, LogMutex, InLog, processVars, threadVars, sharedVars, JoinDone
<1>11. ASSUME NEW d \in Dirs, WaitDone(d) PROVE LogInv'
  BY <1>11, <1>0
  DEF LogInv, LogMutex, InLog, processVars, threadVars, sharedVars, WaitDone
<1>12. ASSUME NEW d \in Dirs, ReadTotal(d) PROVE LogInv'
  BY <1>12, <1>0
  DEF LogInv, LogMutex, InLog, processVars, threadVars, sharedVars, ReadTotal, ExitProcess
<1>13. ASSUME NEW d \in Dirs, NEW f \in Files, CreateThread(d, f) PROVE LogInv'
  BY <1>13, <1>0
  DEF LogInv, LogMutex, InLog, processVars, threadVars, sharedVars, CreateThread
<1>14. ASSUME NEW d \in Dirs, NEW c \in Dirs, ForkDir(d, c) PROVE LogInv'
  BY <1>14, <1>0
  DEF LogInv, LogMutex, InLog, processVars, threadVars, sharedVars, ForkDir
<1>15. ASSUME NEW d \in Dirs, NEW c \in Dirs, ForkFails(d, c) PROVE LogInv'
  BY <1>15, <1>0
  DEF LogInv, LogMutex, InLog, processVars, threadVars, sharedVars, ForkFails
<1>16. ASSUME NEW d \in Dirs, NEW c \in Dirs, Reap(d, c) PROVE LogInv'
  BY <1>16, <1>0
  DEF LogInv, LogMutex, InLog, processVars, threadVars, sharedVars, Reap
<1>17. ASSUME NEW f \in Files, TakeSemID(f) PROVE LogInv'
  BY <1>17, <1>0
  DEF LogInv, LogMutex, InLog, processVars, threadVars, sharedVars, TakeSemID
<1>18. ASSUME NEW f \in Files, TakeLog(f) PROVE LogInv'
  BY <1>18, <1>0
  DEF LogInv, LogMutex, InLog, processVars, threadVars, sharedVars, TakeLog
<1>19. ASSUME NEW f \in Files, Search(f) PROVE LogInv'
  BY <1>19, <1>0
  DEF LogInv, LogMutex, InLog, processVars, threadVars, sharedVars, Search
<1>20. ASSUME NEW f \in Files, SearchFails(f) PROVE LogInv'
  BY <1>20, <1>0
  DEF LogInv, LogMutex, InLog, processVars, threadVars, sharedVars, SearchFails
<1>21. ASSUME NEW f \in Files, Flush(f) PROVE LogInv'
  BY <1>21, <1>0
  DEF LogInv, LogMutex, InLog, processVars, threadVars, sharedVars, Flush
<1>22. ASSUME NEW f \in Files, Load(f) PROVE LogInv'
  BY <1>22, <1>0
  DEF LogInv, LogMutex, InLog, processVars, threadVars, sharedVars, Load
<1>23. ASSUME NEW f \in Files, Store(f) PROVE LogInv'
  BY <1>23, <1>0
  DEF LogInv, LogMutex, InLog, processVars, threadVars, sharedVars, Store
<1>24. ASSUME NEW f \in Files, PostSemID(f) PROVE LogInv'
  BY <1>24, <1>0
  DEF LogInv, LogMutex, InLog, processVars, threadVars, sharedVars, PostSemID
<1>25. ASSUME NEW f \in Files, PostLog(f) PROVE LogInv'
  BY <1>25, <1>0
  DEF LogInv, LogMutex, InLog, processVars, threadVars, sharedVars, PostLog
<1>26. ASSUME NEW S \in SUBSET Dirs, CtrlC(S) PROVE LogInv'
  BY <1>26, <1>0
  DEF LogInv, LogMutex, InLog, processVars, threadVars, sharedVars, CtrlC, Live, Blocked
<1>27. CASE UNCHANGED vars
  BY <1>27, <1>0
  DEF LogInv, LogMutex, InLog, processVars, threadVars, sharedVars, vars
<1> QED
  BY <1>1, <1>2, <1>3, <1>4, <1>5, <1>6, <1>7, <1>8, <1>9,
     <1>10, <1>11, <1>12, <1>13, <1>14, <1>15, <1>16, <1>17, <1>18,
     <1>19, <1>20, <1>21, <1>22, <1>23, <1>24, <1>25, <1>26, <1>27
  DEF Next, RootStep, ProcessStep, ThreadStep, Interrupt

\* At most one thread of all the processes is between sem_wait(semForLog) and
\* sem_post(semForLog), for every tree and whatever earlier runs left behind.
THEOREM MutualExclusion == Spec => []LogMutex
<1>1. Spec => [](TypeInv /\ BeforeStart /\ LogInv)
  BY TypeInit, TypeStep, MutexInit, BeforeStartStep, LogInvStep, PTL DEF Spec
<1>2. LogInv => LogMutex
  BY DEF LogInv
<1> QED
  BY <1>1, <1>2, PTL

(***************************************************************************)
(* What a readdir loop has not reached yet.                                *)
(***************************************************************************)

\* A process that has not begun its readdir loop has no threads and no
\* children; in the loop, an entry it has not reached has no thread or
\* process.
ScanInv ==
  /\ \A d \in Dirs : pc[d] \in {"absent", "main", "quit", "explore"} =>
       /\ \A c \in Subdirs(d) : pc[c] = "absent"
       /\ \A f \in FilesOf(d) : tpc[f] = "none"
  /\ \A d \in Dirs : pc[d] = "scan" =>
       /\ todo[d] \subseteq FilesOf(d) \cup Subdirs(d)
       /\ \A c \in todo[d] \cap Dirs : pc[c] = "absent"
       /\ \A f \in todo[d] \cap Files : f \in FilesOf(d) /\ tpc[f] = "none"

\* No directory has been read yet.
LEMMA ScanInit == Init => ScanInv
  BY DEF Init, ScanInv, Subdirs, FilesOf

\* A step takes an entry out of todo exactly when it starts the entry's
\* thread or process.
LEMMA ScanStep == TypeInv /\ ScanInv /\ [Next]_vars => ScanInv'
<1> SUFFICES ASSUME TypeInv, ScanInv, [Next]_vars PROVE ScanInv'
  OBVIOUS
<1>0. /\ Root \in Dirs /\ pc \in [Dirs -> ProcessStates] /\ tpc \in [Files -> ThreadStates]
      /\ todo \in [Dirs -> SUBSET (Files \cup Dirs)]
      /\ Files \cap Dirs = {}
  BY TreeAssumption, FilesAssumption DEF TypeInv, TypeOK
<1>1. CASE Start
  BY <1>1, <1>0
  DEF ScanInv, Subdirs, FilesOf, processVars, threadVars, sharedVars, Start
<1>2. CASE StartFails
  BY <1>2, <1>0
  DEF ScanInv, Subdirs, FilesOf, processVars, threadVars, sharedVars, StartFails
<1>3. CASE SignalledAtStart
  BY <1>3, <1>0
  DEF ScanInv, Subdirs, FilesOf, processVars, threadVars, sharedVars, SignalledAtStart
<1>4. CASE Report
  BY <1>4, <1>0
  DEF ScanInv, Subdirs, FilesOf, processVars, threadVars, sharedVars, Report, ExitProcess
<1>5. ASSUME NEW d \in Dirs, Explore(d) PROVE ScanInv'
  BY <1>5, <1>0
  DEF ScanInv, Subdirs, FilesOf, processVars, threadVars, sharedVars, Explore
<1>6. ASSUME NEW d \in Dirs, OpendirFails(d) PROVE ScanInv'
  BY <1>6, <1>0
  DEF ScanInv, Subdirs, FilesOf, processVars, threadVars, sharedVars, OpendirFails, ExitProcess
<1>7. ASSUME NEW d \in Dirs, ScanDone(d) PROVE ScanInv'
  BY <1>7, <1>0
  DEF ScanInv, Subdirs, FilesOf, processVars, threadVars, sharedVars, ScanDone
<1>8. ASSUME NEW d \in Dirs, JoinBegin(d) PROVE ScanInv'
  BY <1>8, <1>0
  DEF ScanInv, Subdirs, FilesOf, processVars, threadVars, sharedVars, JoinBegin
<1>9. ASSUME NEW d \in Dirs, JoinEnd(d) PROVE ScanInv'
  BY <1>9, <1>0
  DEF ScanInv, Subdirs, FilesOf, processVars, threadVars, sharedVars, JoinEnd
<1>10. ASSUME NEW d \in Dirs, JoinDone(d) PROVE ScanInv'
  BY <1>10, <1>0
  DEF ScanInv, Subdirs, FilesOf, processVars, threadVars, sharedVars, JoinDone
<1>11. ASSUME NEW d \in Dirs, WaitDone(d) PROVE ScanInv'
  BY <1>11, <1>0
  DEF ScanInv, Subdirs, FilesOf, processVars, threadVars, sharedVars, WaitDone
<1>12. ASSUME NEW d \in Dirs, ReadTotal(d) PROVE ScanInv'
  BY <1>12, <1>0
  DEF ScanInv, Subdirs, FilesOf, processVars, threadVars, sharedVars, ReadTotal, ExitProcess
<1>13. ASSUME NEW d \in Dirs, NEW f \in Files, CreateThread(d, f) PROVE ScanInv'
  BY <1>13, <1>0
  DEF ScanInv, Subdirs, FilesOf, processVars, threadVars, sharedVars, CreateThread
<1>14. ASSUME NEW d \in Dirs, NEW c \in Dirs, ForkDir(d, c) PROVE ScanInv'
  BY <1>14, <1>0
  DEF ScanInv, Subdirs, FilesOf, processVars, threadVars, sharedVars, ForkDir
<1>15. ASSUME NEW d \in Dirs, NEW c \in Dirs, ForkFails(d, c) PROVE ScanInv'
  BY <1>15, <1>0
  DEF ScanInv, Subdirs, FilesOf, processVars, threadVars, sharedVars, ForkFails
<1>16. ASSUME NEW d \in Dirs, NEW c \in Dirs, Reap(d, c) PROVE ScanInv'
  BY <1>16, <1>0
  DEF ScanInv, Subdirs, FilesOf, processVars, threadVars, sharedVars, Reap
<1>17. ASSUME NEW f \in Files, TakeSemID(f) PROVE ScanInv'
  BY <1>17, <1>0
  DEF ScanInv, Subdirs, FilesOf, processVars, threadVars, sharedVars, TakeSemID
<1>18. ASSUME NEW f \in Files, TakeLog(f) PROVE ScanInv'
  BY <1>18, <1>0
  DEF ScanInv, Subdirs, FilesOf, processVars, threadVars, sharedVars, TakeLog
<1>19. ASSUME NEW f \in Files, Search(f) PROVE ScanInv'
  BY <1>19, <1>0
  DEF ScanInv, Subdirs, FilesOf, processVars, threadVars, sharedVars, Search
<1>20. ASSUME NEW f \in Files, SearchFails(f) PROVE ScanInv'
  BY <1>20, <1>0
  DEF ScanInv, Subdirs, FilesOf, processVars, threadVars, sharedVars, SearchFails
<1>21. ASSUME NEW f \in Files, Flush(f) PROVE ScanInv'
  BY <1>21, <1>0
  DEF ScanInv, Subdirs, FilesOf, processVars, threadVars, sharedVars, Flush
<1>22. ASSUME NEW f \in Files, Load(f) PROVE ScanInv'
  BY <1>22, <1>0
  DEF ScanInv, Subdirs, FilesOf, processVars, threadVars, sharedVars, Load
<1>23. ASSUME NEW f \in Files, Store(f) PROVE ScanInv'
  BY <1>23, <1>0
  DEF ScanInv, Subdirs, FilesOf, processVars, threadVars, sharedVars, Store
<1>24. ASSUME NEW f \in Files, PostSemID(f) PROVE ScanInv'
  BY <1>24, <1>0
  DEF ScanInv, Subdirs, FilesOf, processVars, threadVars, sharedVars, PostSemID
<1>25. ASSUME NEW f \in Files, PostLog(f) PROVE ScanInv'
  BY <1>25, <1>0
  DEF ScanInv, Subdirs, FilesOf, processVars, threadVars, sharedVars, PostLog
<1>26. ASSUME NEW S \in SUBSET Dirs, CtrlC(S) PROVE ScanInv'
  BY <1>26, <1>0
  DEF ScanInv, Subdirs, FilesOf, processVars, threadVars, sharedVars, CtrlC, Live, Blocked
<1>27. CASE UNCHANGED vars
  BY <1>27, <1>0
  DEF ScanInv, Subdirs, FilesOf, processVars, threadVars, sharedVars, vars
<1> QED
  BY <1>1, <1>2, <1>3, <1>4, <1>5, <1>6, <1>7, <1>8, <1>9,
     <1>10, <1>11, <1>12, <1>13, <1>14, <1>15, <1>16, <1>17, <1>18,
     <1>19, <1>20, <1>21, <1>22, <1>23, <1>24, <1>25, <1>26, <1>27
  DEF Next, RootStep, ProcessStep, ThreadStep, Interrupt

(***************************************************************************)
(* The shared integer is the sum of what was stored.                       *)
(***************************************************************************)

\* A thread about to store has read the integer's present value, and the
\* integer is the sum over the threads that have stored.
SumInv ==
  /\ \A f \in Files : tpc[f] = "store" => loaded[f] = shm
  /\ NoLostUpdate

\* Before the search nothing is claimed about the shared integer.
LEMMA SumInit == Init => SumInv
  BY TreeAssumption DEF Init, SumInv, NoLostUpdate, Started

\* Only Store changes the shared integer or the set of stored files; it adds
\* its own total to a value nobody has changed since it was read.
LEMMA SumStep ==
  TypeInv /\ BeforeStart /\ ScanInv /\ LogInv /\ SumInv /\ [Next]_vars => SumInv'
<1> SUFFICES ASSUME TypeInv, BeforeStart, ScanInv, LogInv, SumInv, [Next]_vars PROVE SumInv'
  OBVIOUS
<1>0. /\ Root \in Dirs /\ pc \in [Dirs -> ProcessStates]
      /\ tpc \in [Files -> ThreadStates]
      /\ total \in [Files -> Nat \cup {ERROR}] /\ loaded \in [Files -> Int] /\ shm \in Int
      /\ BeforeStart
  BY TreeAssumption DEF TypeInv, TypeOK
\* Steps that leave the sum and what has been stored alone.
<1>a. ASSUME UNCHANGED <<shm, loaded>>, Started' => Started,
             \A f \in Files : tpc'[f] = "store" => tpc[f] = "store",
             \A f \in Files : Stored(f)' <=> Stored(f),
             \A f \in Files : Stored(f) => total'[f] = total[f]
      PROVE  SumInv'
  <2> DEFINE S == {f \in Files : Stored(f)}
  <2>1. S' = S /\ \A f \in S : total'[f] = total[f]
    BY <1>a
  <2>2. SumOver(S, total') = SumOver(S, total)
    <3> HIDE DEF S
    <3> QED
      BY <2>1, SumSame
  <2> QED
    BY <1>a, <2>1, <2>2 DEF SumInv, NoLostUpdate
<1>1. CASE Start
  <2>1. {f \in Files : Stored(f)}' = {}
    BY <1>1, <1>0 DEF Start, BeforeStart, Stored, threadVars
  <2>2. SumOver({f \in Files : Stored(f)}', total') = 0
    BY <2>1, SumOfNone
  <2>3. shm' = 0 /\ \A f \in Files : tpc'[f] # "store"
    BY <1>1, <1>0 DEF Start, BeforeStart, threadVars
  <2> QED
    BY <2>2, <2>3 DEF SumInv, NoLostUpdate
<1>2. CASE StartFails
  BY <1>2, <1>0, <1>a
  DEF BeforeStart, Started, Stored, processVars, threadVars, sharedVars, StartFails
<1>3. CASE SignalledAtStart
  BY <1>3, <1>0, <1>a
  DEF Started, Stored, processVars, threadVars, sharedVars, SignalledAtStart
<1>4. CASE Report
  BY <1>4, <1>0, <1>a
  DEF Started, Stored, processVars, threadVars, sharedVars, Report, ExitProcess
<1>5. ASSUME NEW d \in Dirs, Explore(d) PROVE SumInv'
  BY <1>5, <1>0, <1>a
  DEF Started, Stored, processVars, threadVars, sharedVars, Explore
<1>6. ASSUME NEW d \in Dirs, OpendirFails(d) PROVE SumInv'
  BY <1>6, <1>0, <1>a
  DEF Started, Stored, processVars, threadVars, sharedVars, OpendirFails, ExitProcess
<1>7. ASSUME NEW d \in Dirs, ScanDone(d) PROVE SumInv'
  BY <1>7, <1>0, <1>a
  DEF Started, Stored, processVars, threadVars, sharedVars, ScanDone
<1>8. ASSUME NEW d \in Dirs, JoinBegin(d) PROVE SumInv'
  BY <1>8, <1>0, <1>a
  DEF Started, Stored, processVars, threadVars, sharedVars, JoinBegin
<1>9. ASSUME NEW d \in Dirs, JoinEnd(d) PROVE SumInv'
  BY <1>9, <1>0, <1>a
  DEF Started, Stored, processVars, threadVars, sharedVars, JoinEnd
<1>10. ASSUME NEW d \in Dirs, JoinDone(d) PROVE SumInv'
  BY <1>10, <1>0, <1>a
  DEF Started, Stored, processVars, threadVars, sharedVars, JoinDone
<1>11. ASSUME NEW d \in Dirs, WaitDone(d) PROVE SumInv'
  BY <1>11, <1>0, <1>a
  DEF Started, Stored, processVars, threadVars, sharedVars, WaitDone
<1>12. ASSUME NEW d \in Dirs, ReadTotal(d) PROVE SumInv'
  BY <1>12, <1>0, <1>a
  DEF Started, Stored, processVars, threadVars, sharedVars, ReadTotal, ExitProcess
<1>13. ASSUME NEW d \in Dirs, NEW f \in Files, CreateThread(d, f) PROVE SumInv'
  <2>1. f \in FilesOf(d) /\ tpc[f] = "none"
    BY <1>13 DEF CreateThread, ScanInv
  <2> QED
    BY <1>13, <1>0, <1>a, <2>1
    DEF Started, Stored, sharedVars, CreateThread
<1>14. ASSUME NEW d \in Dirs, NEW c \in Dirs, ForkDir(d, c) PROVE SumInv'
  <2>1. c # Root
    BY <1>14, FilesAssumption DEF ForkDir, ScanInv, Subdirs, FilesOf
  <2> QED
    BY <1>14, <1>0, <1>a, <2>1
    DEF Started, Stored, threadVars, sharedVars, ForkDir
<1>15. ASSUME NEW d \in Dirs, NEW c \in Dirs, ForkFails(d, c) PROVE SumInv'
  BY <1>15, <1>0, <1>a
  DEF Started, Stored, processVars, threadVars, sharedVars, ForkFails
<1>16. ASSUME NEW d \in Dirs, NEW c \in Dirs, Reap(d, c) PROVE SumInv'
  BY <1>16, <1>0, <1>a
  DEF Started, Stored, processVars, threadVars, sharedVars, Reap
<1>17. ASSUME NEW f \in Files, TakeSemID(f) PROVE SumInv'
  BY <1>17, <1>0, <1>a
  DEF Started, Stored, processVars, threadVars, sharedVars, TakeSemID
<1>18. ASSUME NEW f \in Files, TakeLog(f) PROVE SumInv'
  BY <1>18, <1>0, <1>a
  DEF Started, Stored, processVars, threadVars, sharedVars, TakeLog
<1>19. ASSUME NEW f \in Files, Search(f) PROVE SumInv'
  BY <1>19, <1>0, <1>a
  DEF Started, Stored, processVars, threadVars, sharedVars, Search
<1>20. ASSUME NEW f \in Files, SearchFails(f) PROVE SumInv'
  BY <1>20, <1>0, <1>a
  DEF Started, Stored, processVars, threadVars, sharedVars, SearchFails
<1>21. ASSUME NEW f \in Files, Flush(f) PROVE SumInv'
  BY <1>21, <1>0, <1>a
  DEF Started, Stored, processVars, threadVars, sharedVars, Flush
<1>22. ASSUME NEW f \in Files, Load(f) PROVE SumInv'
  <2>1. \A g \in Files : tpc[g] = "store" => g = f
    BY <1>22, <1>0 DEF LogInv, LogMutex, InLog, Load
  <2>2. \A g \in Files : tpc'[g] = "store" => loaded'[g] = shm'
    BY <1>22, <1>0, <2>1 DEF Load, sharedVars
  <2>3. {g \in Files : Stored(g)}' = {g \in Files : Stored(g)}
    BY <1>22, <1>0 DEF Load, Stored
  <2>4. SumOver({g \in Files : Stored(g)}', total') = SumOver({g \in Files : Stored(g)}, total)
    BY <1>22, <2>3 DEF Load
  <2> QED
    BY <1>22, <2>2, <2>4 DEF SumInv, NoLostUpdate, Load, Started, sharedVars
<1>23. ASSUME NEW f \in Files, Store(f) PROVE SumInv'
  <2> DEFINE S == {g \in Files : Stored(g)}
  <2>1. S' = S \cup {f} /\ f \notin S /\ S \in SUBSET Files
    BY <1>23, <1>0 DEF Store, Stored
  <2>2. \A g \in Files : tpc'[g] # "store"
    BY <1>23, <1>0 DEF LogInv, LogMutex, InLog, Store
  <2>3. SumOver(S \cup {f}, total) = SumOver(S, total) + total[f]
    <3> HIDE DEF S
    <3>1. IsFiniteSet(S) /\ \A g \in S \cup {f} : total[g] \in Totals
      BY <2>1, <1>0, FilesAssumption, FS_Subset DEF Totals
    <3> QED
      BY <2>1, <3>1, SumAdds
  <2>4. SumOver(S', total') = SumOver(S \cup {f}, total)
    BY <1>23, <2>1 DEF Store
  <2>5. Started
    BY <1>23, <1>0 DEF BeforeStart, Started, Store
  <2>6. shm = SumOver(S, total) /\ loaded[f] = shm
    BY <1>23, <2>5 DEF SumInv, NoLostUpdate, Store
  <2>7. shm' = loaded[f] + total[f]
    BY <1>23 DEF Store
  <2>8. shm' = SumOver(S', total')
    BY <2>3, <2>4, <2>6, <2>7
  <2> QED
    BY <2>2, <2>8 DEF SumInv, NoLostUpdate
<1>24. ASSUME NEW f \in Files, PostSemID(f) PROVE SumInv'
  BY <1>24, <1>0, <1>a
  DEF Started, Stored, processVars, threadVars, sharedVars, PostSemID
<1>25. ASSUME NEW f \in Files, PostLog(f) PROVE SumInv'
  BY <1>25, <1>0, <1>a
  DEF Started, Stored, processVars, threadVars, sharedVars, PostLog
<1>26. ASSUME NEW S \in SUBSET Dirs, CtrlC(S) PROVE SumInv'
  BY <1>26, <1>0, <1>a
  DEF Started, Stored, processVars, threadVars, sharedVars, CtrlC, Live, Blocked
<1>27. CASE UNCHANGED vars
  BY <1>27, <1>0, <1>a
  DEF Started, Stored, processVars, threadVars, sharedVars, vars
<1> QED
  BY <1>1, <1>2, <1>3, <1>4, <1>5, <1>6, <1>7, <1>8, <1>9,
     <1>10, <1>11, <1>12, <1>13, <1>14, <1>15, <1>16, <1>17, <1>18,
     <1>19, <1>20, <1>21, <1>22, <1>23, <1>24, <1>25, <1>26, <1>27
  DEF Next, RootStep, ProcessStep, ThreadStep, Interrupt

\* At any moment of a search the shared integer is the sum of what the
\* threads that have stored returned: no update is lost, for every tree.
THEOREM NoUpdateIsLost == Spec => []NoLostUpdate
<1>1. Spec => [](TypeInv /\ BeforeStart /\ ScanInv /\ LogInv /\ SumInv)
  BY TypeInit, TypeStep, MutexInit, BeforeStartStep, ScanInit, ScanStep, LogInvStep, SumInit,
     SumStep, PTL
  DEF Spec
<1>2. SumInv => NoLostUpdate
  BY DEF SumInv
<1> QED
  BY <1>1, <1>2, PTL

(***************************************************************************)
(* Steps.                                                                  *)
(***************************************************************************)

\* A thread that takes a step is alive and stays so until it has exited.
LEMMA ThreadMoves ==
  ASSUME TypeOK, NEW f \in Files, ThreadStep(f)
  PROVE  /\ tpc[f] \notin {"none", "exited", "joined"}
         /\ tpc'[f] \notin {"none", "joined"}
         /\ tpc' = [tpc EXCEPT ![f] = tpc'[f]]
         /\ UNCHANGED <<pc, todo, threadIDs, skipped, result, signals>>
BY
DEF TypeOK, ThreadStep, processVars, sharedVars, TakeSemID, TakeLog, Search, SearchFails,
       Flush, Load, Store, PostSemID, PostLog


(***************************************************************************)
(* What was skipped.                                                       *)
(***************************************************************************)

Unread == {"absent", "main", "quit", "explore"}

\* A directory that was skipped has no thread and no subprocess, and its
\* parent has it behind.
SkipInv ==
  /\ \A d \in skipped :
       /\ pc[d] \in {"absent", "report", "exited", "reaped"}
       /\ \A f \in FilesOf(d) : tpc[f] = "none"
       /\ \A c \in Subdirs(d) : pc[c] = "absent"
  /\ \A d \in Dirs : \A c \in Subdirs(d) :
       c \in skipped => pc[d] \notin Unread /\ (pc[d] = "scan" => c \notin todo[d])

\* At first nothing is skipped.
LEMMA SkipInit == Init => SkipInv
BY DEF Init, SkipInv

\* Only what has just failed is skipped.
LEMMA SkipStep == TypeInv /\ ScanInv /\ SkipInv /\ [Next]_vars => SkipInv'
<1> SUFFICES ASSUME TypeInv, ScanInv, SkipInv, [Next]_vars PROVE SkipInv'
  OBVIOUS
<1>0. /\ Root \in Dirs /\ pc \in [Dirs -> ProcessStates] /\ tpc \in [Files -> ThreadStates]
      /\ todo \in [Dirs -> SUBSET (Files \cup Dirs)]
      /\ skipped \subseteq Dirs
  BY TreeAssumption DEF TypeInv, TypeOK
<1>1. CASE Start
  BY <1>1, <1>0, EntryOfOne
  DEF ScanInv, SkipInv, Unread, processVars, threadVars, sharedVars, Start
<1>2. CASE StartFails
  BY <1>2, <1>0, EntryOfOne
  DEF ScanInv, SkipInv, Unread, processVars, threadVars, sharedVars, StartFails
<1>3. CASE SignalledAtStart
  BY <1>3, <1>0, EntryOfOne
  DEF ScanInv, SkipInv, Unread, processVars, threadVars, sharedVars, SignalledAtStart
<1>4. CASE Report
  BY <1>4, <1>0, EntryOfOne
  DEF ScanInv, SkipInv, Unread, processVars, threadVars, sharedVars, Report, ExitProcess
<1>5. ASSUME NEW d \in Dirs, Explore(d) PROVE SkipInv'
  BY <1>5, <1>0, EntryOfOne
  DEF ScanInv, SkipInv, Unread, processVars, threadVars, sharedVars, Explore
<1>6. ASSUME NEW d \in Dirs, OpendirFails(d) PROVE SkipInv'
  BY <1>6, <1>0, EntryOfOne
  DEF ScanInv, SkipInv, Unread, processVars, threadVars, sharedVars, OpendirFails,
      ExitProcess
<1>7. ASSUME NEW d \in Dirs, ScanDone(d) PROVE SkipInv'
  BY <1>7, <1>0, EntryOfOne
  DEF ScanInv, SkipInv, Unread, processVars, threadVars, sharedVars, ScanDone
<1>8. ASSUME NEW d \in Dirs, JoinBegin(d) PROVE SkipInv'
  BY <1>8, <1>0, EntryOfOne
  DEF ScanInv, SkipInv, Unread, processVars, threadVars, sharedVars, JoinBegin
<1>9. ASSUME NEW d \in Dirs, JoinEnd(d) PROVE SkipInv'
  BY <1>9, <1>0, EntryOfOne
  DEF ScanInv, SkipInv, Unread, processVars, threadVars, sharedVars, JoinEnd
<1>10. ASSUME NEW d \in Dirs, JoinDone(d) PROVE SkipInv'
  BY <1>10, <1>0, EntryOfOne
  DEF ScanInv, SkipInv, Unread, processVars, threadVars, sharedVars, JoinDone
<1>11. ASSUME NEW d \in Dirs, WaitDone(d) PROVE SkipInv'
  BY <1>11, <1>0, EntryOfOne
  DEF ScanInv, SkipInv, Unread, processVars, threadVars, sharedVars, WaitDone
<1>12. ASSUME NEW d \in Dirs, ReadTotal(d) PROVE SkipInv'
  BY <1>12, <1>0, EntryOfOne
  DEF ScanInv, SkipInv, Unread, processVars, threadVars, sharedVars, ReadTotal,
      ExitProcess
<1>13. ASSUME NEW d \in Dirs, NEW f \in Files, CreateThread(d, f) PROVE SkipInv'
  BY <1>13, <1>0, EntryOfOne
  DEF ScanInv, SkipInv, Unread, processVars, threadVars, sharedVars, CreateThread
<1>14. ASSUME NEW d \in Dirs, NEW c \in Dirs, ForkDir(d, c) PROVE SkipInv'
  BY <1>14, <1>0, EntryOfOne
  DEF ScanInv, SkipInv, Unread, processVars, threadVars, sharedVars, ForkDir
<1>15. ASSUME NEW d \in Dirs, NEW c \in Dirs, ForkFails(d, c) PROVE SkipInv'
  BY <1>15, <1>0, EntryOfOne
  DEF ScanInv, SkipInv, Unread, processVars, threadVars, sharedVars, ForkFails
<1>16. ASSUME NEW d \in Dirs, NEW c \in Dirs, Reap(d, c) PROVE SkipInv'
  BY <1>16, <1>0, EntryOfOne
  DEF ScanInv, SkipInv, Unread, processVars, threadVars, sharedVars, Reap
<1>17. ASSUME NEW f \in Files, ThreadStep(f) PROVE SkipInv'
  BY <1>17, <1>0, ThreadMoves, EntryOfOne DEF ScanInv, SkipInv, Unread, TypeInv
<1>18. ASSUME NEW S \in SUBSET Dirs, CtrlC(S) PROVE SkipInv'
  BY <1>18, <1>0, EntryOfOne
  DEF ScanInv, SkipInv, Unread, processVars, threadVars, sharedVars, CtrlC, Live, Blocked
<1>19. CASE UNCHANGED vars
  BY <1>19, <1>0 DEF ScanInv, SkipInv, Unread, vars
<1> QED
  BY <1>1, <1>2, <1>3, <1>4, <1>5, <1>6, <1>7, <1>8, <1>9, <1>10,
     <1>11, <1>12, <1>13, <1>14, <1>15, <1>16, <1>17, <1>18, <1>19
  DEF Next, RootStep, ProcessStep, Interrupt


(***************************************************************************)
(* Joined threads and waited-for processes.                                *)
(***************************************************************************)

Waiting == {"wait", "sum", "report", "exited", "reaped"}
Past == {"sum", "report", "exited", "reaped"}

Listed(d, f) == \E i \in 1 .. Len(threadIDs[d]) : threadIDs[d][i] = f

\* While entries are read and threads joined, a file of the directory has
\* still to be read, to be joined, or has been; afterwards all have been.
JoinInv ==
  /\ \A d \in Dirs : pc[d] \in {"scan", "join", "joining"} => \A f \in FilesOf(d) :
       \/ pc[d] = "scan" /\ f \in todo[d]
       \/ Listed(d, f)
       \/ tpc[f] = "joined"
  /\ \A d \in Dirs \ skipped : pc[d] \in Waiting =>
       \A f \in FilesOf(d) : tpc[f] = "joined"

\* A subdirectory that has been read has been forked for or skipped.
ForkInv ==
  \A d \in Dirs \ skipped : pc[d] \notin Unread =>
    \A c \in Subdirs(d) :
      (pc[d] = "scan" /\ c \in todo[d]) \/ c \in skipped \/ pc[c] # "absent"

\* Unless ^C has ended its wait, a process has reaped its children when its
\* loop of waits is over.
WaitInv ==
  signals = 0 =>
    \A d \in Dirs : pc[d] \in Past => \A c \in Subdirs(d) : pc[c] \in {"absent", "reaped"}

\* Nothing is read at first.
LEMMA WaitInit == Init => JoinInv /\ ForkInv /\ WaitInv
BY TreeAssumption DEF Init, JoinInv, ForkInv, WaitInv, Waiting, Past, Unread

\* A thread leaves the list of its process only when it is joined.
LEMMA JoinStep == TypeInv /\ ScanInv /\ SkipInv /\ JoinInv /\ [Next]_vars => JoinInv'
<1> SUFFICES ASSUME TypeInv, ScanInv, SkipInv, JoinInv, [Next]_vars PROVE JoinInv'
  OBVIOUS
<1>0. /\ Root \in Dirs /\ pc \in [Dirs -> ProcessStates] /\ tpc \in [Files -> ThreadStates]
      /\ todo \in [Dirs -> SUBSET (Files \cup Dirs)]
      /\ skipped \subseteq Dirs
  BY TreeAssumption DEF TypeInv, TypeOK
<1>01. threadIDs \in [Dirs -> Seq(Files)]
  BY DEF TypeInv, TypeOK
<1>1. CASE Start
  BY <1>1, <1>0, <1>01, EntryOfOne
  DEF ScanInv, SkipInv, JoinInv, Listed, Unread, Waiting, processVars, threadVars,
      sharedVars, Start
<1>2. CASE StartFails
  BY <1>2, <1>0, <1>01, EntryOfOne
  DEF ScanInv, SkipInv, JoinInv, Listed, Unread, Waiting, processVars, threadVars,
      sharedVars, StartFails
<1>3. CASE SignalledAtStart
  BY <1>3, <1>0, <1>01, EntryOfOne
  DEF ScanInv, SkipInv, JoinInv, Listed, Unread, Waiting, processVars, threadVars,
      sharedVars, SignalledAtStart
<1>4. CASE Report
  BY <1>4, <1>0, <1>01, EntryOfOne
  DEF ScanInv, SkipInv, JoinInv, Listed, Unread, Waiting, processVars, threadVars,
      sharedVars, Report, ExitProcess
<1>5. ASSUME NEW d \in Dirs, Explore(d) PROVE JoinInv'
  BY <1>5, <1>0, <1>01, EntryOfOne
  DEF ScanInv, SkipInv, JoinInv, Listed, Unread, Waiting, processVars, threadVars,
      sharedVars, Explore
<1>6. ASSUME NEW d \in Dirs, OpendirFails(d) PROVE JoinInv'
  BY <1>6, <1>0, <1>01, EntryOfOne
  DEF ScanInv, SkipInv, JoinInv, Listed, Unread, Waiting, processVars, threadVars,
      sharedVars, OpendirFails, ExitProcess
<1>7. ASSUME NEW d \in Dirs, ScanDone(d) PROVE JoinInv'
  <2>1. /\ pc[d] = "scan" /\ todo[d] = {} /\ pc' = [pc EXCEPT ![d] = "join"]
        /\ UNCHANGED <<todo, threadIDs, tpc, skipped>>
    BY <1>7 DEF ScanDone, processVars, threadVars
  <2>2. \A e, f : Listed(e, f)' <=> Listed(e, f)
    BY <2>1 DEF Listed
  <2> QED
    BY <2>1, <2>2, <1>0 DEF JoinInv, Waiting
<1>8. ASSUME NEW d \in Dirs, JoinBegin(d) PROVE JoinInv'
  BY <1>8, <1>0, <1>01, EntryOfOne
  DEF ScanInv, SkipInv, JoinInv, Listed, Unread, Waiting, processVars, threadVars,
      sharedVars, JoinBegin
<1>9. ASSUME NEW d \in Dirs, JoinEnd(d) PROVE JoinInv'
  <2> DEFINE h == Head(threadIDs[d])
  <2>1. /\ pc[d] = "joining" /\ pc' = [pc EXCEPT ![d] = "join"]
        /\ tpc' = [tpc EXCEPT ![h] = "joined"]
        /\ threadIDs' = [threadIDs EXCEPT ![d] = Tail(@)]
        /\ UNCHANGED <<todo, skipped>>
    BY <1>9 DEF JoinEnd
  <2>2. threadIDs[d] \in Seq(Files) /\ threadIDs[d] # <<>>
    BY <1>01, <2>1 DEF TypeInv, JoiningHasThread
  <2>3. ASSUME NEW f, Listed(d, f) PROVE f = h \/ Listed(d, f)'
    <3>1. PICK i \in 1 .. Len(threadIDs[d]) : threadIDs[d][i] = f
      BY <2>3 DEF Listed
    <3>2. CASE i = 1
      BY <3>1, <3>2, <2>2
    <3>3. CASE i # 1
      <4>1. /\ i - 1 \in 1 .. Len(Tail(threadIDs[d]))
            /\ Tail(threadIDs[d])[i - 1] = f
        BY <3>1, <3>3, <2>2
      <4>2. threadIDs'[d] = Tail(threadIDs[d])
        BY <2>1, <1>01
      <4> QED
        BY <4>1, <4>2 DEF Listed
    <3> QED
      BY <3>2, <3>3
  <2>4. \A f : \A e \in Dirs : e # d => (Listed(e, f)' <=> Listed(e, f))
    BY <2>1, <1>01 DEF Listed
  <2>5. h \in Files /\ tpc'[h] = "joined" /\ \A f \in Files : f # h => tpc'[f] = tpc[f]
    BY <2>1, <2>2, <1>0
  <2>6. \A e \in Dirs : \A f \in FilesOf(e) : f \in Files
    BY EntryOfOne
  <2> QED
    BY <2>1, <2>3, <2>4, <2>5, <2>6, <1>0 DEF JoinInv, Waiting
<1>10. ASSUME NEW d \in Dirs, JoinDone(d) PROVE JoinInv'
  BY <1>10, <1>0, <1>01, EntryOfOne
  DEF ScanInv, SkipInv, JoinInv, Listed, Unread, Waiting, processVars, threadVars,
      sharedVars, JoinDone
<1>11. ASSUME NEW d \in Dirs, WaitDone(d) PROVE JoinInv'
  BY <1>11, <1>0, <1>01, EntryOfOne
  DEF ScanInv, SkipInv, JoinInv, Listed, Unread, Waiting, processVars, threadVars,
      sharedVars, WaitDone
<1>12. ASSUME NEW d \in Dirs, ReadTotal(d) PROVE JoinInv'
  BY <1>12, <1>0, <1>01, EntryOfOne
  DEF ScanInv, SkipInv, JoinInv, Listed, Unread, Waiting, processVars, threadVars,
      sharedVars, ReadTotal, ExitProcess
<1>13. ASSUME NEW d \in Dirs, NEW f \in Files, CreateThread(d, f) PROVE JoinInv'
  BY <1>13, <1>0, <1>01, EntryOfOne
  DEF ScanInv, SkipInv, JoinInv, Listed, Unread, Waiting, processVars, threadVars,
      sharedVars, CreateThread
<1>14. ASSUME NEW d \in Dirs, NEW c \in Dirs, ForkDir(d, c) PROVE JoinInv'
  BY <1>14, <1>0, <1>01, EntryOfOne
  DEF ScanInv, SkipInv, JoinInv, Listed, Unread, Waiting, processVars, threadVars,
      sharedVars, ForkDir
<1>15. ASSUME NEW d \in Dirs, NEW c \in Dirs, ForkFails(d, c) PROVE JoinInv'
  BY <1>15, <1>0, <1>01, EntryOfOne
  DEF ScanInv, SkipInv, JoinInv, Listed, Unread, Waiting, processVars, threadVars,
      sharedVars, ForkFails
<1>16. ASSUME NEW d \in Dirs, NEW c \in Dirs, Reap(d, c) PROVE JoinInv'
  BY <1>16, <1>0, <1>01, EntryOfOne
  DEF ScanInv, SkipInv, JoinInv, Listed, Unread, Waiting, processVars, threadVars,
      sharedVars, Reap
<1>17. ASSUME NEW f \in Files, ThreadStep(f) PROVE JoinInv'
  <2>1. /\ tpc[f] # "joined" /\ tpc' = [tpc EXCEPT ![f] = tpc'[f]]
        /\ UNCHANGED <<pc, todo, threadIDs, skipped>>
    BY <1>17, ThreadMoves DEF TypeInv
  <2>2. \A e, g : Listed(e, g)' <=> Listed(e, g)
    BY <2>1 DEF Listed
  <2>3. \A g \in Files : tpc[g] = "joined" => tpc'[g] = "joined"
    BY <2>1, <1>0
  <2>4. \A e \in Dirs : \A g \in FilesOf(e) : g \in Files
    BY EntryOfOne
  <2> QED
    BY <2>1, <2>2, <2>3, <2>4 DEF JoinInv
<1>18. ASSUME NEW S \in SUBSET Dirs, CtrlC(S) PROVE JoinInv'
  BY <1>18, <1>0, <1>01, EntryOfOne
  DEF ScanInv, SkipInv, JoinInv, Listed, Unread, Waiting, processVars, threadVars,
      sharedVars, CtrlC, Live, Blocked
<1>19. CASE UNCHANGED vars
  BY <1>19, <1>0 DEF ScanInv, SkipInv, JoinInv, Listed, Unread, Waiting, vars
<1> QED
  BY <1>1, <1>2, <1>3, <1>4, <1>5, <1>6, <1>7, <1>8, <1>9, <1>10,
     <1>11, <1>12, <1>13, <1>14, <1>15, <1>16, <1>17, <1>18, <1>19
  DEF Next, RootStep, ProcessStep, Interrupt


\* A subdirectory leaves todo only when it is forked for or skipped.
LEMMA ForkInvStep == TypeInv /\ ScanInv /\ SkipInv /\ ForkInv /\ [Next]_vars => ForkInv'
<1> SUFFICES ASSUME TypeInv, ScanInv, SkipInv, ForkInv, [Next]_vars PROVE ForkInv'
  OBVIOUS
<1>0. /\ Root \in Dirs /\ pc \in [Dirs -> ProcessStates] /\ tpc \in [Files -> ThreadStates]
      /\ todo \in [Dirs -> SUBSET (Files \cup Dirs)]
      /\ skipped \subseteq Dirs
  BY TreeAssumption DEF TypeInv, TypeOK
<1>1. CASE Start
  BY <1>1, <1>0, EntryOfOne
  DEF ScanInv, SkipInv, ForkInv, Unread, processVars, threadVars, sharedVars, Start
<1>2. CASE StartFails
  BY <1>2, <1>0, EntryOfOne
  DEF ScanInv, SkipInv, ForkInv, Unread, processVars, threadVars, sharedVars, StartFails
<1>3. CASE SignalledAtStart
  BY <1>3, <1>0, EntryOfOne
  DEF ScanInv, SkipInv, ForkInv, Unread, processVars, threadVars, sharedVars,
      SignalledAtStart
<1>4. CASE Report
  BY <1>4, <1>0, EntryOfOne
  DEF ScanInv, SkipInv, ForkInv, Unread, processVars, threadVars, sharedVars, Report,
      ExitProcess
<1>5. ASSUME NEW d \in Dirs, Explore(d) PROVE ForkInv'
  BY <1>5, <1>0, EntryOfOne
  DEF ScanInv, SkipInv, ForkInv, Unread, processVars, threadVars, sharedVars, Explore
<1>6. ASSUME NEW d \in Dirs, OpendirFails(d) PROVE ForkInv'
  BY <1>6, <1>0, EntryOfOne
  DEF ScanInv, SkipInv, ForkInv, Unread, processVars, threadVars, sharedVars,
      OpendirFails, ExitProcess
<1>7. ASSUME NEW d \in Dirs, ScanDone(d) PROVE ForkInv'
  BY <1>7, <1>0, EntryOfOne
  DEF ScanInv, SkipInv, ForkInv, Unread, processVars, threadVars, sharedVars, ScanDone
<1>8. ASSUME NEW d \in Dirs, JoinBegin(d) PROVE ForkInv'
  BY <1>8, <1>0, EntryOfOne
  DEF ScanInv, SkipInv, ForkInv, Unread, processVars, threadVars, sharedVars, JoinBegin
<1>9. ASSUME NEW d \in Dirs, JoinEnd(d) PROVE ForkInv'
  BY <1>9, <1>0, EntryOfOne
  DEF ScanInv, SkipInv, ForkInv, Unread, processVars, threadVars, sharedVars, JoinEnd
<1>10. ASSUME NEW d \in Dirs, JoinDone(d) PROVE ForkInv'
  BY <1>10, <1>0, EntryOfOne
  DEF ScanInv, SkipInv, ForkInv, Unread, processVars, threadVars, sharedVars, JoinDone
<1>11. ASSUME NEW d \in Dirs, WaitDone(d) PROVE ForkInv'
  BY <1>11, <1>0, EntryOfOne
  DEF ScanInv, SkipInv, ForkInv, Unread, processVars, threadVars, sharedVars, WaitDone
<1>12. ASSUME NEW d \in Dirs, ReadTotal(d) PROVE ForkInv'
  BY <1>12, <1>0, EntryOfOne
  DEF ScanInv, SkipInv, ForkInv, Unread, processVars, threadVars, sharedVars, ReadTotal,
      ExitProcess
<1>13. ASSUME NEW d \in Dirs, NEW f \in Files, CreateThread(d, f) PROVE ForkInv'
  BY <1>13, <1>0, EntryOfOne
  DEF ScanInv, SkipInv, ForkInv, Unread, processVars, threadVars, sharedVars, CreateThread
<1>14. ASSUME NEW d \in Dirs, NEW c \in Dirs, ForkDir(d, c) PROVE ForkInv'
  BY <1>14, <1>0, EntryOfOne
  DEF ScanInv, SkipInv, ForkInv, Unread, processVars, threadVars, sharedVars, ForkDir
<1>15. ASSUME NEW d \in Dirs, NEW c \in Dirs, ForkFails(d, c) PROVE ForkInv'
  BY <1>15, <1>0, EntryOfOne
  DEF ScanInv, SkipInv, ForkInv, Unread, processVars, threadVars, sharedVars, ForkFails
<1>16. ASSUME NEW d \in Dirs, NEW c \in Dirs, Reap(d, c) PROVE ForkInv'
  BY <1>16, <1>0, EntryOfOne
  DEF ScanInv, SkipInv, ForkInv, Unread, processVars, threadVars, sharedVars, Reap
<1>17. ASSUME NEW f \in Files, ThreadStep(f) PROVE ForkInv'
  BY <1>17, <1>0, ThreadMoves, EntryOfOne DEF ScanInv, SkipInv, ForkInv, Unread, TypeInv
<1>18. ASSUME NEW S \in SUBSET Dirs, CtrlC(S) PROVE ForkInv'
  BY <1>18, <1>0, EntryOfOne
  DEF ScanInv, SkipInv, ForkInv, Unread, processVars, threadVars, sharedVars, CtrlC, Live,
      Blocked
<1>19. CASE UNCHANGED vars
  BY <1>19, <1>0 DEF ScanInv, SkipInv, ForkInv, Unread, vars
<1> QED
  BY <1>1, <1>2, <1>3, <1>4, <1>5, <1>6, <1>7, <1>8, <1>9, <1>10,
     <1>11, <1>12, <1>13, <1>14, <1>15, <1>16, <1>17, <1>18, <1>19
  DEF Next, RootStep, ProcessStep, Interrupt


\* No step of a process below one that has waited is possible.
LEMMA WaitStep == TypeInv /\ ScanInv /\ WaitInv /\ [Next]_vars => WaitInv'
<1> SUFFICES ASSUME TypeInv, ScanInv, WaitInv, [Next]_vars PROVE WaitInv'
  OBVIOUS
<1>0. /\ Root \in Dirs /\ pc \in [Dirs -> ProcessStates] /\ tpc \in [Files -> ThreadStates]
      /\ todo \in [Dirs -> SUBSET (Files \cup Dirs)]
      /\ skipped \subseteq Dirs
  BY TreeAssumption DEF TypeInv, TypeOK
<1>01. signals \in Nat
  BY EnvironmentAssumption DEF TypeInv, TypeOK
<1>1. CASE Start
  BY <1>1, <1>0, <1>01, EntryOfOne
  DEF ScanInv, WaitInv, Unread, Past, processVars, threadVars, sharedVars, Start
<1>2. CASE StartFails
  BY <1>2, <1>0, <1>01, EntryOfOne
  DEF ScanInv, WaitInv, Unread, Past, processVars, threadVars, sharedVars, StartFails
<1>3. CASE SignalledAtStart
  BY <1>3, <1>0, <1>01, EntryOfOne
  DEF ScanInv, WaitInv, Unread, Past, processVars, threadVars, sharedVars,
      SignalledAtStart
<1>4. CASE Report
  BY <1>4, <1>0, <1>01, EntryOfOne
  DEF ScanInv, WaitInv, Unread, Past, processVars, threadVars, sharedVars, Report,
      ExitProcess
<1>5. ASSUME NEW d \in Dirs, Explore(d) PROVE WaitInv'
  BY <1>5, <1>0, <1>01, EntryOfOne
  DEF ScanInv, WaitInv, Unread, Past, processVars, threadVars, sharedVars, Explore
<1>6. ASSUME NEW d \in Dirs, OpendirFails(d) PROVE WaitInv'
  BY <1>6, <1>0, <1>01, EntryOfOne
  DEF ScanInv, WaitInv, Unread, Past, processVars, threadVars, sharedVars, OpendirFails,
      ExitProcess
<1>7. ASSUME NEW d \in Dirs, ScanDone(d) PROVE WaitInv'
  BY <1>7, <1>0, <1>01, EntryOfOne
  DEF ScanInv, WaitInv, Unread, Past, processVars, threadVars, sharedVars, ScanDone
<1>8. ASSUME NEW d \in Dirs, JoinBegin(d) PROVE WaitInv'
  BY <1>8, <1>0, <1>01, EntryOfOne
  DEF ScanInv, WaitInv, Unread, Past, processVars, threadVars, sharedVars, JoinBegin
<1>9. ASSUME NEW d \in Dirs, JoinEnd(d) PROVE WaitInv'
  BY <1>9, <1>0, <1>01, EntryOfOne
  DEF ScanInv, WaitInv, Unread, Past, processVars, threadVars, sharedVars, JoinEnd
<1>10. ASSUME NEW d \in Dirs, JoinDone(d) PROVE WaitInv'
  BY <1>10, <1>0, <1>01, EntryOfOne
  DEF ScanInv, WaitInv, Unread, Past, processVars, threadVars, sharedVars, JoinDone
<1>11. ASSUME NEW d \in Dirs, WaitDone(d) PROVE WaitInv'
  BY <1>11, <1>0, <1>01, EntryOfOne
  DEF ScanInv, WaitInv, Unread, Past, processVars, threadVars, sharedVars, WaitDone
<1>12. ASSUME NEW d \in Dirs, ReadTotal(d) PROVE WaitInv'
  BY <1>12, <1>0, <1>01, EntryOfOne
  DEF ScanInv, WaitInv, Unread, Past, processVars, threadVars, sharedVars, ReadTotal,
      ExitProcess
<1>13. ASSUME NEW d \in Dirs, NEW f \in Files, CreateThread(d, f) PROVE WaitInv'
  BY <1>13, <1>0, <1>01, EntryOfOne
  DEF ScanInv, WaitInv, Unread, Past, processVars, threadVars, sharedVars, CreateThread
<1>14. ASSUME NEW d \in Dirs, NEW c \in Dirs, ForkDir(d, c) PROVE WaitInv'
  BY <1>14, <1>0, <1>01, EntryOfOne
  DEF ScanInv, WaitInv, Unread, Past, processVars, threadVars, sharedVars, ForkDir
<1>15. ASSUME NEW d \in Dirs, NEW c \in Dirs, ForkFails(d, c) PROVE WaitInv'
  BY <1>15, <1>0, <1>01, EntryOfOne
  DEF ScanInv, WaitInv, Unread, Past, processVars, threadVars, sharedVars, ForkFails
<1>16. ASSUME NEW d \in Dirs, NEW c \in Dirs, Reap(d, c) PROVE WaitInv'
  BY <1>16, <1>0, <1>01, EntryOfOne
  DEF ScanInv, WaitInv, Unread, Past, processVars, threadVars, sharedVars, Reap
<1>17. ASSUME NEW f \in Files, ThreadStep(f) PROVE WaitInv'
  BY <1>17, <1>0, ThreadMoves, <1>01, EntryOfOne
  DEF ScanInv, WaitInv, Unread, Past, TypeInv
<1>18. ASSUME NEW S \in SUBSET Dirs, CtrlC(S) PROVE WaitInv'
  BY <1>18, <1>0, <1>01, EntryOfOne
  DEF ScanInv, WaitInv, Unread, Past, processVars, threadVars, sharedVars, CtrlC, Live,
      Blocked
<1>19. CASE UNCHANGED vars
  BY <1>19, <1>0 DEF ScanInv, WaitInv, Unread, Past, vars
<1> QED
  BY <1>1, <1>2, <1>3, <1>4, <1>5, <1>6, <1>7, <1>8, <1>9, <1>10,
     <1>11, <1>12, <1>13, <1>14, <1>15, <1>16, <1>17, <1>18, <1>19
  DEF Next, RootStep, ProcessStep, Interrupt


(***************************************************************************)
(* Along the tree.                                                         *)
(***************************************************************************)

\* Once a process has waited, whatever is below it has been reaped or was
\* never forked.
LEMMA NothingLeft ==
  ASSUME TypeInv, ScanInv, WaitInv, signals = 0, NEW d \in Dirs, pc[d] \in Past
  PROVE  \A c \in Below(d) \ {d} : pc[c] \in {"absent", "reaped"}
<1> DEFINE D == {c \in Dirs : c = d \/ pc[c] \in {"absent", "reaped"}}
<1>1. ASSUME NEW e \in D, NEW c \in Subdirs(e) PROVE c \in D
  <2>1. c \in Dirs
    BY <1>1, EntryOfOne
  <2>2. CASE pc[e] = "absent"
    BY <2>1, <2>2, <1>1 DEF ScanInv
  <2>3. CASE pc[e] # "absent"
    <3>1. pc[e] \in Past
      BY <1>1, <2>3 DEF Past
    <3> QED
      BY <1>1, <2>1, <3>1 DEF WaitInv
  <2> QED
    BY <2>2, <2>3
<1>2. Below(d) \subseteq D
  BY <1>1, BelowInduction
<1> QED
  BY <1>2

\* Nobody searches a file that cannot be reached.
LEMMA UnreachableIdle ==
  ASSUME TypeInv, ScanInv, SkipInv, NEW f \in Files, Unreachable(f)
  PROVE  tpc[f] = "none"
<1> DEFINE D == {d \in Dirs : /\ \A g \in FilesOf(d) : tpc[g] = "none"
                              /\ \A c \in Subdirs(d) : pc[c] = "absent"}
<1>1. PICK s \in skipped : fileDir[f] \in Below(s)
  BY DEF Unreachable
<1>2. s \in Dirs /\ s \in D
  BY <1>1 DEF TypeInv, TypeOK, SkipInv
<1>3. ASSUME NEW e \in D, NEW c \in Subdirs(e) PROVE c \in D
  <2>1. c \in Dirs /\ pc[c] = "absent"
    BY <1>3, EntryOfOne
  <2> QED
    BY <2>1 DEF ScanInv
<1>4. Below(s) \subseteq D
  BY <1>2, <1>3, BelowInduction
<1>5. f \in FilesOf(fileDir[f])
  BY DEF FilesOf
<1> QED
  BY <1>1, <1>4, <1>5

\* When the root has waited and there was no ^C, every file has been
\* searched by a thread that was joined, or could not be reached.
LEMMA AllSearched ==
  ASSUME TypeInv, SkipInv, JoinInv, ForkInv, WaitInv,
         signals = 0, pc[Root] \in Past, Root \notin skipped
  PROVE  \A f \in Files : tpc[f] = "joined" \/ Unreachable(f)
<1> DEFINE D == {d \in Dirs : \/ pc[d] \in Past /\ d \notin skipped
                              \/ \E s \in skipped : d \in Below(s)}
<1>1. skipped \subseteq Dirs
  BY DEF TypeInv, TypeOK
<1>2. Root \in D
  BY TreeAssumption
<1>3. ASSUME NEW d \in D, NEW c \in Subdirs(d) PROVE c \in D
  <2>1. c \in Dirs
    BY <1>3, EntryOfOne
  <2>2. CASE c \in skipped
    BY <2>1, <2>2, BelowBasics
  <2>3. CASE c \notin skipped /\ pc[d] \in Past /\ d \notin skipped
    <3>1. pc[c] # "absent"
      BY <1>3, <2>3 DEF ForkInv, Past, Unread
    <3>2. pc[c] = "reaped"
      BY <1>3, <2>3, <3>1 DEF WaitInv
    <3> QED
      BY <2>1, <2>3, <3>2 DEF Past
  <2>4. CASE \E s \in skipped : d \in Below(s)
    BY <1>1, <1>3, <2>1, <2>4, BelowBasics
  <2> QED
    BY <1>3, <2>2, <2>3, <2>4
<1>4. D = Dirs
  BY <1>2, <1>3, TreeAssumption
<1>5. ASSUME NEW f \in Files PROVE tpc[f] = "joined" \/ Unreachable(f)
  <2>1. fileDir[f] \in D /\ f \in FilesOf(fileDir[f])
    BY <1>4, FileTypes DEF FilesOf
  <2>2. CASE pc[fileDir[f]] \in Past /\ fileDir[f] \notin skipped
    BY <2>1, <2>2 DEF JoinInv, Past, Waiting
  <2>3. CASE \E s \in skipped : fileDir[f] \in Below(s)
    BY <2>3 DEF Unreachable
  <2> QED
    BY <2>1, <2>2, <2>3
<1> QED
  BY <1>5

(***************************************************************************)
(* The result.                                                             *)
(***************************************************************************)

\* The root returns once, with what is and, unless there was a ^C, remains
\* the shared integer.
ResultInv ==
  /\ result # NoResult => pc[Root] \in {"report", "exited"}
  /\ signals = 0 /\ result # NoResult /\ Root \notin skipped => result = shm

\* There is no result at first.
LEMMA ResultInit == Init => ResultInv
BY DEF Init, ResultInv

\* All that the invariants of a step say.
WaitAll == TypeInv /\ ScanInv /\ SkipInv /\ JoinInv /\ ForkInv /\ WaitInv

\* When the root has returned, no thread is left that could store.
LEMMA ResultStep == WaitAll /\ ResultInv /\ [Next]_vars => ResultInv'
<1> SUFFICES ASSUME WaitAll, ResultInv, [Next]_vars PROVE ResultInv'
  OBVIOUS
<1>0. /\ Root \in Dirs /\ pc \in [Dirs -> ProcessStates] /\ tpc \in [Files -> ThreadStates]
      /\ todo \in [Dirs -> SUBSET (Files \cup Dirs)]
      /\ skipped \subseteq Dirs
  BY TreeAssumption DEF WaitAll, TypeInv, TypeOK
<1>01. signals \in Nat
  BY EnvironmentAssumption DEF WaitAll, TypeInv, TypeOK
<1>1. CASE Start
  BY <1>1, <1>0, <1>01, EntryOfOne
  DEF ResultInv, Past, processVars, threadVars, sharedVars, Start
<1>2. CASE StartFails
  BY <1>2, <1>0, <1>01, EntryOfOne
  DEF ResultInv, Past, processVars, threadVars, sharedVars, StartFails
<1>3. CASE SignalledAtStart
  BY <1>3, <1>0, <1>01, EntryOfOne
  DEF ResultInv, Past, processVars, threadVars, sharedVars, SignalledAtStart
<1>4. CASE Report
  BY <1>4, <1>0, <1>01, EntryOfOne
  DEF ResultInv, Past, processVars, threadVars, sharedVars, Report, ExitProcess
<1>5. ASSUME NEW d \in Dirs, Explore(d) PROVE ResultInv'
  BY <1>5, <1>0, <1>01, EntryOfOne
  DEF ResultInv, Past, processVars, threadVars, sharedVars, Explore
<1>6. ASSUME NEW d \in Dirs, OpendirFails(d) PROVE ResultInv'
  BY <1>6, <1>0, <1>01, EntryOfOne
  DEF ResultInv, Past, processVars, threadVars, sharedVars, OpendirFails, ExitProcess
<1>7. ASSUME NEW d \in Dirs, ScanDone(d) PROVE ResultInv'
  BY <1>7, <1>0, <1>01, EntryOfOne
  DEF ResultInv, Past, processVars, threadVars, sharedVars, ScanDone
<1>8. ASSUME NEW d \in Dirs, JoinBegin(d) PROVE ResultInv'
  BY <1>8, <1>0, <1>01, EntryOfOne
  DEF ResultInv, Past, processVars, threadVars, sharedVars, JoinBegin
<1>9. ASSUME NEW d \in Dirs, JoinEnd(d) PROVE ResultInv'
  BY <1>9, <1>0, <1>01, EntryOfOne
  DEF ResultInv, Past, processVars, threadVars, sharedVars, JoinEnd
<1>10. ASSUME NEW d \in Dirs, JoinDone(d) PROVE ResultInv'
  BY <1>10, <1>0, <1>01, EntryOfOne
  DEF ResultInv, Past, processVars, threadVars, sharedVars, JoinDone
<1>11. ASSUME NEW d \in Dirs, WaitDone(d) PROVE ResultInv'
  BY <1>11, <1>0, <1>01, EntryOfOne
  DEF ResultInv, Past, processVars, threadVars, sharedVars, WaitDone
<1>12. ASSUME NEW d \in Dirs, ReadTotal(d) PROVE ResultInv'
  BY <1>12, <1>0, <1>01, EntryOfOne
  DEF ResultInv, Past, processVars, threadVars, sharedVars, ReadTotal, ExitProcess
<1>13. ASSUME NEW d \in Dirs, NEW f \in Files, CreateThread(d, f) PROVE ResultInv'
  BY <1>13, <1>0, <1>01, EntryOfOne
  DEF ResultInv, Past, processVars, threadVars, sharedVars, CreateThread
<1>14. ASSUME NEW d \in Dirs, NEW c \in Dirs, ForkDir(d, c) PROVE ResultInv'
  <2>1. /\ pc[d] = "scan" /\ c \in todo[d] \cap Dirs /\ pc' = [pc EXCEPT ![c] = "explore"]
        /\ UNCHANGED <<result, skipped, signals, shm>>
    BY <1>14 DEF ForkDir, sharedVars
  <2>2. c \in Subdirs(d)
    BY <2>1, EntryOfOne DEF WaitAll, ScanInv
  <2> QED
    BY <1>0, <2>1, <2>2, EntryOfOne DEF ResultInv
<1>15. ASSUME NEW d \in Dirs, NEW c \in Dirs, ForkFails(d, c) PROVE ResultInv'
  BY <1>15, <1>0, <1>01, EntryOfOne
  DEF ResultInv, Past, processVars, threadVars, sharedVars, ForkFails
<1>16. ASSUME NEW d \in Dirs, NEW c \in Dirs, Reap(d, c) PROVE ResultInv'
  BY <1>16, <1>0, <1>01, EntryOfOne
  DEF ResultInv, Past, processVars, threadVars, sharedVars, Reap
<1>17. ASSUME NEW f \in Files, ThreadStep(f) PROVE ResultInv'
  <2>1. UNCHANGED <<pc, result, skipped, signals>> /\ tpc[f] \notin {"none", "joined"}
    BY <1>17, ThreadMoves DEF WaitAll, TypeInv
  <2>2. shm' = shm \/ Store(f)
    BY <1>17
    DEF ThreadStep, sharedVars, TakeSemID, TakeLog, Search, SearchFails, Flush, Load,
                PostSemID, PostLog
  <2>3. ~(signals = 0 /\ pc[Root] \in Past /\ Root \notin skipped)
    BY <2>1, AllSearched, UnreachableIdle DEF WaitAll
  <2> QED
    BY <2>1, <2>3 DEF ResultInv, Past
<1>18. ASSUME NEW S \in SUBSET Dirs, CtrlC(S) PROVE ResultInv'
  BY <1>18, <1>0, <1>01, EntryOfOne
  DEF ResultInv, Past, processVars, threadVars, sharedVars, CtrlC, Live, Blocked
<1>19. CASE UNCHANGED vars
  BY <1>19, <1>0 DEF ResultInv, Past, vars
<1> QED
  BY <1>1, <1>2, <1>3, <1>4, <1>5, <1>6, <1>7, <1>8, <1>9, <1>10,
     <1>11, <1>12, <1>13, <1>14, <1>15, <1>16, <1>17, <1>18, <1>19
  DEF Next, RootStep, ProcessStep, Interrupt


\* Each of them is kept by the help of those before it.
LEMMA WaitAllStep == WaitAll /\ [Next]_vars => WaitAll'
BY TypeStep, ScanStep, SkipStep, JoinStep, ForkInvStep, WaitStep DEF WaitAll

\* The invariants hold in every reachable state.
LEMMA WaitAllInvariant == Spec => [](WaitAll /\ ResultInv)
<1>1. Init => WaitAll /\ ResultInv
  BY TypeInit, ScanInit, SkipInit, WaitInit, ResultInit DEF WaitAll
<1> QED
  BY <1>1, WaitAllStep, ResultStep, PTL DEF Spec

(***************************************************************************)
(* Theorems.                                                               *)
(***************************************************************************)

\* Unless ^C was pressed, a process that is past its wait() loop leaves no
\* process behind anywhere below its directory, for every tree.
THEOREM NobodyLeftBehind == Spec => []NoOrphans
<1>1. WaitAll => NoOrphans
  BY NothingLeft DEF WaitAll, NoOrphans, Past
<1> QED
  BY <1>1, WaitAllInvariant, PTL

\* Unless ^C was pressed, what the root returns covers every file it could
\* reach and is never added to afterwards, for every tree.
THEOREM ReportIsExact == Spec => []ReportExact
<1>1. WaitAll /\ ResultInv => ReportExact
  <2> SUFFICES ASSUME WaitAll, ResultInv, signals = 0, result # NoResult, Root \notin skipped
               PROVE  /\ \A f \in Files : Stored(f) \/ Unreachable(f)
                      /\ result = shm
    BY DEF ReportExact
  <2>1. pc[Root] \in Past /\ result = shm
    BY DEF ResultInv, Past
  <2>2. \A f \in Files : tpc[f] = "joined" \/ Unreachable(f)
    BY <2>1, AllSearched DEF WaitAll
  <2> QED
    BY <2>1, <2>2 DEF Stored
<1> QED
  BY <1>1, WaitAllInvariant, PTL

(***************************************************************************)
(* The abstract specification.  Each step of the program is a step of      *)
(* CountOnce or leaves CountOnce's variables as they are.                  *)
(***************************************************************************)

\* What CountOnce sees of a state.
Counted == {f \in Files : Stored(f)}
Excused == {f \in Files : Unreachable(f)}
Sum == IF Started THEN shm ELSE 0
Seen == <<Counted, Excused, Sum, signals > 0, result>>

\* A thread that is about to store has the matches of its file, or ERROR.
TotalInv ==
  \A f \in Files : tpc[f] \in {"flush", "load", "store"} => total[f] \in {matches[f], ERROR}

\* At first there is nothing to store.
LEMMA TotalInit == Init => TotalInv
BY DEF Init, TotalInv

RefInv == WaitAll /\ ResultInv /\ BeforeStart /\ LogInv /\ SumInv /\ TotalInv

\* The initial states are CountOnce's.
LEMMA RefInit == Init => Abstract!Init
<1> SUFFICES ASSUME Init PROVE Abstract!Init
  OBVIOUS
<1>1. Counted = {} /\ Excused = {}
  BY DEF Init, Counted, Excused, Stored, Unreachable
<1>2. Sum = 0 /\ (signals > 0) = FALSE /\ result = NoResult
  BY TreeAssumption DEF Init, Sum, Started
<1> QED
  BY <1>1, <1>2 DEF Abstract!Init, Counted, Excused, Sum

\* A step that changes nothing that CountOnce sees.
LEMMA Stutter == UNCHANGED Seen => UNCHANGED Abstract!vars
BY DEF Seen, Counted, Excused, Sum, Abstract!vars

\* A thread keeps what its search has returned.
LEMMA TotalStep == TypeInv /\ TotalInv /\ [Next]_vars => TotalInv'
<1> SUFFICES ASSUME TypeInv, TotalInv, [Next]_vars PROVE TotalInv'
  OBVIOUS
<1>0. /\ Root \in Dirs /\ pc \in [Dirs -> ProcessStates] /\ tpc \in [Files -> ThreadStates]
      /\ todo \in [Dirs -> SUBSET (Files \cup Dirs)]
      /\ skipped \subseteq Dirs
  BY TreeAssumption DEF TypeInv, TypeOK
<1>01. total \in [Files -> Nat \cup {ERROR}]
  BY DEF TypeInv, TypeOK
<1>1. CASE Start
  BY <1>1, <1>0
  DEF TotalInv, processVars, threadVars, sharedVars, Start
<1>2. CASE StartFails
  BY <1>2, <1>0
  DEF TotalInv, processVars, threadVars, sharedVars, StartFails
<1>3. CASE SignalledAtStart
  BY <1>3, <1>0
  DEF TotalInv, processVars, threadVars, sharedVars, SignalledAtStart
<1>4. CASE Report
  BY <1>4, <1>0
  DEF TotalInv, processVars, threadVars, sharedVars, Report, ExitProcess
<1>5. ASSUME NEW d \in Dirs, Explore(d) PROVE TotalInv'
  BY <1>5, <1>0
  DEF TotalInv, processVars, threadVars, sharedVars, Explore
<1>6. ASSUME NEW d \in Dirs, OpendirFails(d) PROVE TotalInv'
  BY <1>6, <1>0
  DEF TotalInv, processVars, threadVars, sharedVars, OpendirFails, ExitProcess
<1>7. ASSUME NEW d \in Dirs, ScanDone(d) PROVE TotalInv'
  BY <1>7, <1>0
  DEF TotalInv, processVars, threadVars, sharedVars, ScanDone
<1>8. ASSUME NEW d \in Dirs, JoinBegin(d) PROVE TotalInv'
  BY <1>8, <1>0
  DEF TotalInv, processVars, threadVars, sharedVars, JoinBegin
<1>9. ASSUME NEW d \in Dirs, JoinEnd(d) PROVE TotalInv'
  BY <1>9, <1>0
  DEF TotalInv, processVars, threadVars, sharedVars, JoinEnd
<1>10. ASSUME NEW d \in Dirs, JoinDone(d) PROVE TotalInv'
  BY <1>10, <1>0
  DEF TotalInv, processVars, threadVars, sharedVars, JoinDone
<1>11. ASSUME NEW d \in Dirs, WaitDone(d) PROVE TotalInv'
  BY <1>11, <1>0
  DEF TotalInv, processVars, threadVars, sharedVars, WaitDone
<1>12. ASSUME NEW d \in Dirs, ReadTotal(d) PROVE TotalInv'
  BY <1>12, <1>0
  DEF TotalInv, processVars, threadVars, sharedVars, ReadTotal, ExitProcess
<1>13. ASSUME NEW d \in Dirs, NEW f \in Files, CreateThread(d, f) PROVE TotalInv'
  BY <1>13, <1>0
  DEF TotalInv, processVars, threadVars, sharedVars, CreateThread
<1>14. ASSUME NEW d \in Dirs, NEW c \in Dirs, ForkDir(d, c) PROVE TotalInv'
  BY <1>14, <1>0
  DEF TotalInv, processVars, threadVars, sharedVars, ForkDir
<1>15. ASSUME NEW d \in Dirs, NEW c \in Dirs, ForkFails(d, c) PROVE TotalInv'
  BY <1>15, <1>0
  DEF TotalInv, processVars, threadVars, sharedVars, ForkFails
<1>16. ASSUME NEW d \in Dirs, NEW c \in Dirs, Reap(d, c) PROVE TotalInv'
  BY <1>16, <1>0
  DEF TotalInv, processVars, threadVars, sharedVars, Reap
<1>17. ASSUME NEW f \in Files, ThreadStep(f) PROVE TotalInv'
  <2>1. tpc' = [tpc EXCEPT ![f] = tpc'[f]]
    BY <1>17, ThreadMoves DEF TypeInv
  <2>2. CASE Search(f) \/ SearchFails(f)
    <3>1. total' = [total EXCEPT ![f] = total'[f]] /\ total'[f] \in {matches[f], ERROR}
      BY <2>2, <1>01 DEF Search, SearchFails
    <3> QED
      BY <2>1, <3>1, <1>0, <1>01 DEF TotalInv
  <2>3. CASE ~(Search(f) \/ SearchFails(f))
    <3>1. /\ UNCHANGED total
          /\ tpc'[f] \in {"flush", "load", "store"} => tpc[f] \in {"flush", "load", "store"}
      BY <1>17, <2>3, <1>0
      DEF ThreadStep, threadVars, TakeSemID, TakeLog, Flush, Load, Store, PostSemID,
          PostLog
    <3> QED
      BY <2>1, <3>1, <1>0, <1>01 DEF TotalInv
  <2> QED
    BY <2>2, <2>3
<1>18. ASSUME NEW S \in SUBSET Dirs, CtrlC(S) PROVE TotalInv'
  BY <1>18, <1>0
  DEF TotalInv, processVars, threadVars, sharedVars, CtrlC, Live, Blocked
<1>19. CASE UNCHANGED vars
  BY <1>19, <1>0 DEF TotalInv, vars
<1> QED
  BY <1>1, <1>2, <1>3, <1>4, <1>5, <1>6, <1>7, <1>8, <1>9, <1>10,
     <1>11, <1>12, <1>13, <1>14, <1>15, <1>16, <1>17, <1>18, <1>19
  DEF Next, RootStep, ProcessStep, Interrupt

\* The invariants hold in every reachable state.
LEMMA RefInvariant == Spec => []RefInv
<1>1. Init => RefInv
  BY TypeInit, ScanInit, SkipInit, WaitInit, ResultInit, MutexInit, SumInit, TotalInit
  DEF RefInv, WaitAll
<1>2. RefInv /\ [Next]_vars => RefInv'
  BY WaitAllStep, ResultStep, BeforeStartStep, LogInvStep, SumStep, TotalStep
  DEF RefInv, WaitAll
<1> QED
  BY <1>1, <1>2, PTL DEF Spec

(***************************************************************************)
(* Steps that CountOnce does not see.                                      *)
(***************************************************************************)

\* No directory fails, nothing is stored or returned, no ^C.
LEMMA Hidden ==
  ASSUME UNCHANGED <<skipped, result, signals>>, Started' <=> Started,
         Started => shm' = shm,
         \A f \in Files : Stored(f)' <=> Stored(f)
  PROVE  UNCHANGED Abstract!vars
<1>1. Counted' = Counted /\ Excused' = Excused
  BY DEF Counted, Excused, Unreachable
<1>2. Sum' = Sum
  BY DEF Sum
<1> QED
  BY <1>1, <1>2, Stutter DEF Seen

(***************************************************************************)
(* Steps that CountOnce sees.                                              *)
(***************************************************************************)

\* A thread stores: its file is counted, with what its search returned.
LEMMA StoreCounts ==
  ASSUME RefInv, NEW f \in Files, Store(f)
  PROVE  Abstract!Count(f)
<1>1. /\ tpc[f] = "store" /\ tpc' = [tpc EXCEPT ![f] = "post"]
      /\ shm' = loaded[f] + total[f]
      /\ UNCHANGED <<pc, skipped, signals, result>>
  BY DEF Store
<1>2. tpc \in [Files -> ThreadStates] /\ signals \in Nat
  BY EnvironmentAssumption DEF RefInv, WaitAll, TypeInv, TypeOK
<1>3. f \notin Counted /\ Counted' = Counted \cup {f}
  BY <1>1, <1>2 DEF Counted, Stored
<1>4. ~Unreachable(f) /\ f \notin Excused
  BY <1>1, UnreachableIdle DEF RefInv, WaitAll, Excused
<1>5. Excused' = Excused /\ (signals > 0)' = (signals > 0)
  BY <1>1 DEF Excused, Unreachable
<1>6. result = NoResult \/ signals > 0
  <2> SUFFICES ASSUME result # NoResult, signals = 0 PROVE FALSE
    BY <1>2
  <2>1. pc[Root] \in Past
    BY DEF RefInv, ResultInv, Past
  <2>2. Root \in skipped
    BY <1>1, <1>4, <2>1, AllSearched DEF RefInv, WaitAll
  <2> QED
    BY <1>4, <2>2, BelowRoot, FileTypes DEF Unreachable
<1>7. \E n \in {matches[f], ERROR} : Sum' = Sum + n
  <2>1. Started /\ Started'
    BY <1>1 DEF RefInv, BeforeStart, Started
  <2>2. shm' = shm + total[f] /\ total[f] \in {matches[f], ERROR}
    BY <1>1 DEF RefInv, SumInv, TotalInv
  <2> QED
    BY <2>1, <2>2 DEF Sum
<1> QED
  BY <1>1, <1>3, <1>4, <1>5, <1>6, <1>7
  DEF Abstract!Count, Abstract!ERROR, ERROR, Counted, Excused, Sum

\* Nobody has stored for a file that cannot be reached.
LEMMA ExcusedIdle == WaitAll => \A f \in Files : Unreachable(f) => tpc[f] = "none"
BY UnreachableIdle DEF WaitAll

\* A directory that fails excuses the files below it.
LEMMA SkipExcuses ==
  ASSUME RefInv, WaitAll', NEW c \in Dirs, skipped' = skipped \cup {c},
         Started' <=> Started, UNCHANGED <<tpc, shm, signals, result>>
  PROVE  \E S \in SUBSET Files : Abstract!Excuse(S)
<1>1. \A f \in Files : Unreachable(f)' => tpc'[f] = "none"
  <2>1. (WaitAll => \A f \in Files : Unreachable(f) => tpc[f] = "none")'
    BY ExcusedIdle, PTL
  <2> QED
    BY <2>1
<1>2. Excused' \cap Counted = {} /\ Excused' \subseteq Files
  BY <1>1 DEF Excused, Counted, Stored
<1>3. Excused' = Excused \cup Excused'
  BY DEF Excused, Unreachable
<1>4. Counted' = Counted /\ Sum' = Sum
  BY DEF Counted, Stored, Sum
<1>5. Abstract!Excuse(Excused')
  BY <1>2, <1>3, <1>4 DEF Abstract!Excuse, Counted, Excused, Sum
<1> QED
  BY <1>2, <1>5

\* The named directory cannot be opened: everything is excused.
LEMMA RootGivesUp ==
  ASSUME RefInv, WaitAll', OpendirFails(Root)
  PROVE  Abstract!GiveUp
<1>1. /\ pc[Root] = "explore" /\ skipped' = skipped \cup {Root} /\ result' = ERROR
      /\ pc' = [pc EXCEPT ![Root] = "report"]
      /\ UNCHANGED <<tpc, shm, signals>>
  BY DEF OpendirFails, threadVars, sharedVars
<1>2. result = NoResult
  BY <1>1 DEF RefInv, ResultInv
<1>3. Excused' = Files
  BY <1>1, BelowRoot, FileTypes DEF Excused, Unreachable
<1>4. \A f \in Files : tpc[f] = "none"
  <2>1. (WaitAll => \A f \in Files : Unreachable(f) => tpc[f] = "none")'
    BY ExcusedIdle, PTL
  <2> QED
    BY <1>1, <1>3, <2>1 DEF Excused
<1>5. Counted = {} /\ Counted' = Counted
  BY <1>1, <1>4 DEF Counted, Stored
<1>6. Sum' = Sum
  BY <1>1, TreeAssumption DEF Sum, Started, RefInv, WaitAll, TypeInv, TypeOK
<1> QED
  BY <1>1, <1>2, <1>3, <1>5, <1>6
  DEF Abstract!GiveUp, Abstract!ERROR, ERROR, Counted, Excused, Sum

\* The root returns: everything is counted or excused, unless ^C was pressed.
LEMMA RootAnswers ==
  ASSUME RefInv, ReadTotal(Root)
  PROVE  Abstract!Answer
<1>1. /\ pc[Root] = "sum" /\ result' = shm /\ pc' = [pc EXCEPT ![Root] = "report"]
      /\ UNCHANGED <<tpc, shm, signals, skipped>>
  BY DEF ReadTotal, threadVars, sharedVars
<1>2. result = NoResult
  BY <1>1 DEF RefInv, ResultInv
<1>3. Root \notin skipped
  BY <1>1 DEF RefInv, WaitAll, SkipInv
<1>4. signals > 0 \/ Counted \cup Excused = Files
  <2>1. signals \in Nat
    BY EnvironmentAssumption DEF RefInv, WaitAll, TypeInv, TypeOK
  <2>2. CASE signals = 0
    <3>1. \A f \in Files : tpc[f] = "joined" \/ Unreachable(f)
      BY <1>1, <1>3, <2>2, AllSearched DEF RefInv, WaitAll, Past
    <3> QED
      BY <3>1 DEF Counted, Excused, Stored
  <2> QED
    BY <2>1, <2>2
<1>5. Counted' = Counted /\ Excused' = Excused
  BY <1>1 DEF Counted, Excused, Stored, Unreachable
<1>6. Sum = shm /\ Sum' = Sum
  BY <1>1, TreeAssumption DEF Sum, Started, RefInv, WaitAll, TypeInv, TypeOK
<1> QED
  BY <1>1, <1>2, <1>4, <1>5, <1>6 DEF Abstract!Answer, Counted, Excused, Sum

(***************************************************************************)
(* Refinement.                                                             *)
(***************************************************************************)

\* Every step of the program is a step of CountOnce or a stutter.
LEMMA RefStep == RefInv /\ WaitAll' /\ [Next]_vars => [Abstract!Next]_Abstract!vars
<1> SUFFICES ASSUME RefInv, WaitAll', [Next]_vars PROVE [Abstract!Next]_Abstract!vars
  OBVIOUS
<1>0. /\ Root \in Dirs /\ pc \in [Dirs -> ProcessStates] /\ tpc \in [Files -> ThreadStates]
      /\ signals \in Nat
  BY TreeAssumption, EnvironmentAssumption DEF RefInv, WaitAll, TypeInv, TypeOK
<1>1. CASE Start
  <2>1. /\ ~Started /\ shm' = 0 /\ UNCHANGED <<tpc, skipped, result, signals>>
    BY <1>1 DEF Start, Started, threadVars
  <2>2. Counted' = Counted /\ Excused' = Excused /\ Sum' = Sum
    BY <2>1 DEF Counted, Excused, Stored, Unreachable, Sum
  <2> QED
    BY <2>1, <2>2, Stutter DEF Seen
<1>2. CASE StartFails
  BY <1>2, <1>0, Hidden
  DEF processVars, threadVars, sharedVars, Started, Stored, StartFails
<1>3. CASE SignalledAtStart
  BY <1>3, <1>0, Hidden
  DEF processVars, threadVars, sharedVars, Started, Stored, SignalledAtStart
<1>4. CASE Report
  BY <1>4, <1>0, Hidden
  DEF processVars, threadVars, sharedVars, Started, Stored, Report, ExitProcess
<1>5. ASSUME NEW d \in Dirs, Explore(d)
      PROVE  [Abstract!Next]_Abstract!vars
  BY <1>5, <1>0, Hidden DEF processVars, threadVars, sharedVars, Started, Stored, Explore
<1>6. ASSUME NEW d \in Dirs, OpendirFails(d)
      PROVE  [Abstract!Next]_Abstract!vars
  <2>1. CASE d = Root
    BY <1>6, <2>1, RootGivesUp DEF Abstract!Next
  <2>2. CASE d # Root
    <3>1. /\ skipped' = skipped \cup {d} /\ UNCHANGED <<tpc, shm, signals, result>>
          /\ Started' <=> Started
      BY <1>6, <1>0, <2>2 DEF OpendirFails, ExitProcess, threadVars, sharedVars, Started
    <3> QED
      BY <3>1, SkipExcuses DEF Abstract!Next
  <2> QED
    BY <2>1, <2>2
<1>7. ASSUME NEW d \in Dirs, ScanDone(d)
      PROVE  [Abstract!Next]_Abstract!vars
  BY <1>7, <1>0, Hidden DEF processVars, threadVars, sharedVars, Started, Stored, ScanDone
<1>8. ASSUME NEW d \in Dirs, JoinBegin(d)
      PROVE  [Abstract!Next]_Abstract!vars
  BY <1>8, <1>0, Hidden
  DEF processVars, threadVars, sharedVars, Started, Stored, JoinBegin
<1>9. ASSUME NEW d \in Dirs, JoinEnd(d)
      PROVE  [Abstract!Next]_Abstract!vars
  <2>1. /\ tpc[Head(threadIDs[d])] = "exited"
        /\ tpc' = [tpc EXCEPT ![Head(threadIDs[d])] = "joined"]
        /\ pc[d] = "joining" /\ pc' = [pc EXCEPT ![d] = "join"]
        /\ UNCHANGED <<skipped, result, signals, shm>>
    BY <1>9 DEF JoinEnd, sharedVars
  <2> QED
    BY <1>0, <2>1, Hidden DEF Started, Stored
<1>10. ASSUME NEW d \in Dirs, JoinDone(d)
      PROVE  [Abstract!Next]_Abstract!vars
  BY <1>10, <1>0, Hidden
  DEF processVars, threadVars, sharedVars, Started, Stored, JoinDone
<1>11. ASSUME NEW d \in Dirs, WaitDone(d)
      PROVE  [Abstract!Next]_Abstract!vars
  BY <1>11, <1>0, Hidden
  DEF processVars, threadVars, sharedVars, Started, Stored, WaitDone
<1>12. ASSUME NEW d \in Dirs, ReadTotal(d)
      PROVE  [Abstract!Next]_Abstract!vars
  <2>1. CASE d = Root
    BY <1>12, <2>1, RootAnswers DEF Abstract!Next
  <2>2. CASE d # Root
    BY <1>12, <1>0, <2>2, Hidden
    DEF processVars, threadVars, sharedVars, Started, Stored, ReadTotal, ExitProcess
  <2> QED
    BY <2>1, <2>2
<1>13. ASSUME NEW d \in Dirs, NEW f \in Files, CreateThread(d, f)
      PROVE  [Abstract!Next]_Abstract!vars
  <2>1. pc[d] = "scan" /\ f \in todo[d] \cap Files
    BY <1>13 DEF CreateThread
  <2>2. tpc[f] = "none"
    BY <2>1 DEF RefInv, WaitAll, ScanInv
  <2> QED
    BY <1>13, <1>0, <2>2, Hidden
    DEF processVars, threadVars, sharedVars, Started, Stored, CreateThread
<1>14. ASSUME NEW d \in Dirs, NEW c \in Dirs, ForkDir(d, c)
      PROVE  [Abstract!Next]_Abstract!vars
  <2>1. pc[d] = "scan" /\ c \in todo[d] \cap Dirs
    BY <1>14 DEF ForkDir
  <2>2. c # Root
    BY <2>1, EntryOfOne DEF RefInv, WaitAll, ScanInv
  <2> QED
    BY <1>14, <1>0, <2>2, Hidden
    DEF processVars, threadVars, sharedVars, Started, Stored, ForkDir
<1>15. ASSUME NEW d \in Dirs, NEW c \in Dirs, ForkFails(d, c)
      PROVE  [Abstract!Next]_Abstract!vars
  <2>1. /\ skipped' = skipped \cup {c} /\ UNCHANGED <<tpc, shm, signals, result>>
        /\ Started' <=> Started
    BY <1>15 DEF ForkFails, threadVars, sharedVars, Started
  <2> QED
    BY <2>1, SkipExcuses DEF Abstract!Next
<1>16. ASSUME NEW d \in Dirs, NEW c \in Dirs, Reap(d, c)
      PROVE  [Abstract!Next]_Abstract!vars
  BY <1>16, <1>0, Hidden DEF processVars, threadVars, sharedVars, Started, Stored, Reap
<1>17. ASSUME NEW f \in Files, ThreadStep(f)
      PROVE  [Abstract!Next]_Abstract!vars
  <2>1. CASE Store(f)
    BY <2>1, StoreCounts DEF Abstract!Next
  <2>2. CASE ~Store(f)
    <3>1. UNCHANGED <<pc, skipped, result, signals>> /\ tpc' = [tpc EXCEPT ![f] = tpc'[f]]
      BY <1>17, ThreadMoves DEF RefInv, WaitAll, TypeInv
    <3>2. shm' = shm /\ (tpc'[f] \in {"post", "postLog", "exited", "joined"}
                         <=> tpc[f] \in {"post", "postLog", "exited", "joined"})
      BY <1>17, <1>0, <2>2
      DEF ThreadStep, sharedVars, TakeSemID, TakeLog, Search, SearchFails, Flush, Load,
          PostSemID, PostLog
    <3> QED
      BY <1>0, <3>1, <3>2, Hidden DEF Started, Stored
  <2> QED
    BY <2>1, <2>2
<1>18. ASSUME NEW S \in SUBSET Dirs, CtrlC(S)
      PROVE  [Abstract!Next]_Abstract!vars
  <2>1. /\ signals' = signals + 1 /\ UNCHANGED <<tpc, skipped, result, shm>>
        /\ Started' <=> Started
    BY <1>18, <1>0 DEF CtrlC, Blocked, threadVars, sharedVars, Started
  <2>2. Counted' = Counted /\ Excused' = Excused /\ Sum' = Sum /\ (signals > 0)' = TRUE
    BY <1>0, <2>1 DEF Counted, Excused, Sum, Stored, Unreachable
  <2>3. Abstract!Interrupt
    BY <2>1, <2>2 DEF Abstract!Interrupt, Counted, Excused, Sum
  <2> QED
    BY <2>3 DEF Abstract!Next
<1>19. CASE UNCHANGED vars
  BY <1>19, Hidden DEF vars, Started, Stored
<1> QED
  BY <1>1, <1>2, <1>3, <1>4, <1>5, <1>6, <1>7, <1>8, <1>9, <1>10,
     <1>11, <1>12, <1>13, <1>14, <1>15, <1>16, <1>17, <1>18, <1>19
  DEF Next, RootStep, ProcessStep, Interrupt

\* The processes, threads and semaphores implement CountOnce, for every tree:
\* every file is counted once or excused, and the total is theirs.
THEOREM ImplementsCountOnce == Spec => CountsOnce
<1>1. RefInv /\ RefInv' /\ [Next]_vars => [Abstract!Next]_Abstract!vars
  BY RefStep DEF RefInv
<1> QED
  BY <1>1, RefInit, RefInvariant, PTL DEF Spec, CountsOnce, Abstract!Spec

(***************************************************************************)
(* The log.                                                                *)
(***************************************************************************)

Early == {"none", "semID", "log", "search"}
Late == {"load", "store", "post", "postLog", "exited", "joined"}

\* A match line is in its process's buffer from the fprintf to the fflush, and
\* in copies of that buffer in processes forked meanwhile; later it is in the
\* log.
BufferInv ==
  \A f \in Files :
    /\ tpc[f] \in Early => total[f] = 0
    /\ tpc[f] = "flush" => total[f] > 0
    /\ total[f] > 0 \/ (log[f] = 0 /\ \A d \in Dirs : f \notin buffered[d])
    /\ f \in buffered[fileDir[f]] <=> tpc[f] = "flush"
    /\ \A d \in Dirs : f \in buffered[d] => d \in Below(fileDir[f])
    /\ tpc[f] \in Late /\ total[f] > 0 => log[f] >= 1

\* The processes that may still write the lines of f: that of its directory,
\* until its thread has flushed them, those not forked yet, and those that
\* have a copy of the buffer.
Pending(f) ==
  {d \in Below(fileDir[f]) : \/ pc[d] = "absent"
                             \/ f \in buffered[d]
                             \/ d = fileDir[f] /\ tpc[f] \in Early}

\* Each process below the directory of f writes its lines at most once.
CopiesOf(f) == log[f] + Cardinality(Pending(f)) <= Cardinality(Below(fileDir[f]))
CopyInv == \A f \in Files : CopiesOf(f)

\* Finitely many processes.
LEMMA PendingFinite ==
  ASSUME NEW f \in Files
  PROVE  /\ IsFiniteSet(Below(fileDir[f])) /\ Cardinality(Below(fileDir[f])) \in Nat
         /\ IsFiniteSet(Pending(f)) /\ Cardinality(Pending(f)) \in Nat
         /\ Cardinality(Pending(f)) <= Cardinality(Below(fileDir[f]))
<1> DEFINE B == Below(fileDir[f])
<1>1. B \subseteq Dirs /\ Pending(f) \subseteq B
  BY DEF Below, Pending
<1> HIDE DEF B
<1>2. IsFiniteSet(B) /\ Cardinality(B) \in Nat
  BY <1>1, TreeAssumption, FS_Subset, FS_CardinalityType
<1>3. /\ IsFiniteSet(Pending(f)) /\ Cardinality(Pending(f)) \in Nat
      /\ Cardinality(Pending(f)) <= Cardinality(B)
  BY <1>1, <1>2, FS_Subset, FS_CardinalityType
<1> QED
  BY <1>2, <1>3 DEF B

\* Nobody else may write what is in the log already.
LEMMA CopiesStay ==
  ASSUME NEW f \in Files, log \in [Files -> Nat], CopiesOf(f),
         log'[f] = log[f], Pending(f)' \subseteq Pending(f)
  PROVE  CopiesOf(f)'
<1> DEFINE P == Pending(f)'
           B == Below(fileDir[f])
<1>1. IsFiniteSet(Pending(f)) /\ Cardinality(Pending(f)) \in Nat /\ Cardinality(B) \in Nat
  BY PendingFinite
<1>2. P \subseteq Pending(f)
  OBVIOUS
<1>3. CopiesOf(f)' <=> log'[f] + Cardinality(P) <= Cardinality(B)
  BY DEF CopiesOf
<1>4. log[f] + Cardinality(Pending(f)) <= Cardinality(B)
  BY DEF CopiesOf
<1> HIDE DEF P, B
<1>5. Cardinality(P) \in Nat /\ Cardinality(P) <= Cardinality(Pending(f))
  BY <1>1, <1>2, FS_Subset, FS_CardinalityType
<1> QED
  BY <1>1, <1>3, <1>4, <1>5

\* A process that writes a copy may not write another.
LEMMA CopyWritten ==
  ASSUME NEW f \in Files, log \in [Files -> Nat], CopiesOf(f), NEW d \in Pending(f),
         log'[f] = log[f] + 1, Pending(f)' \subseteq Pending(f) \ {d}
  PROVE  CopiesOf(f)'
<1> DEFINE P == Pending(f)'
           B == Below(fileDir[f])
           Q == Pending(f) \ {d}
<1>1. IsFiniteSet(Pending(f)) /\ Cardinality(Pending(f)) \in Nat /\ Cardinality(B) \in Nat
  BY PendingFinite
<1>2. P \subseteq Q
  OBVIOUS
<1>3. CopiesOf(f)' <=> log'[f] + Cardinality(P) <= Cardinality(B)
  BY DEF CopiesOf
<1>4. log[f] + Cardinality(Pending(f)) <= Cardinality(B)
  BY DEF CopiesOf
<1>5. IsFiniteSet(Q) /\ Cardinality(Q) = Cardinality(Pending(f)) - 1
  BY <1>1, FS_RemoveElement
<1> HIDE DEF P, B, Q
<1>6. Cardinality(P) \in Nat /\ Cardinality(P) <= Cardinality(Q)
  BY <1>2, <1>5, FS_Subset, FS_CardinalityType
<1> QED
  BY <1>1, <1>3, <1>4, <1>5, <1>6

\* At first every process may.
LEMMA BufferInit == Init => BufferInv /\ CopyInv
<1> SUFFICES ASSUME Init PROVE BufferInv /\ CopyInv
  OBVIOUS
<1>1. BufferInv
  BY FilesAssumption DEF Init, BufferInv, Early, Late
<1>2. ASSUME NEW f \in Files PROVE CopiesOf(f)
  <2>1. log[f] = 0
    BY DEF Init
  <2> QED
    BY <2>1, PendingFinite DEF CopiesOf
<1> QED
  BY <1>1, <1>2 DEF CopyInv

\* A process that exits has no thread in a search, and writes the copies that
\* it has inherited.
LEMMA ExitCopies ==
  ASSUME TypeInv, BufferInv, CopyInv, NEW d \in Dirs, ExitProcess(d),
         UNCHANGED <<tpc, total>>, pc[d] # "absent",
         \A f \in FilesOf(d) : tpc[f] # "flush"
  PROVE  (BufferInv /\ CopyInv)'
<1>0. /\ pc \in [Dirs -> ProcessStates] /\ log \in [Files -> Nat]
      /\ buffered \in [Dirs -> SUBSET Files] /\ fileDir \in [Files -> Dirs]
  BY FilesAssumption DEF TypeInv, TypeOK
<1>1. BufferInv'
  BY <1>0 DEF BufferInv, ExitProcess, FilesOf
<1>2. ASSUME NEW f \in Files PROVE CopiesOf(f)'
  <2>1. CopiesOf(f)
    BY DEF CopyInv
  <2>2. CASE f \notin buffered[d]
    <3>1. log'[f] = log[f]
      BY <1>0, <2>2 DEF ExitProcess
    <3>2. Pending(f)' \subseteq Pending(f)
      BY <1>0 DEF Pending, ExitProcess
    <3> QED
      BY <1>0, <2>1, <3>1, <3>2, CopiesStay
  <2>3. CASE f \in buffered[d]
    <3>1. log'[f] = log[f] + 1
      BY <1>0, <2>3 DEF ExitProcess
    <3>2. d \in Pending(f)
      BY <2>3 DEF BufferInv, Pending
    <3>3. d # fileDir[f]
      BY <2>3 DEF BufferInv, FilesOf
    <3>4. Pending(f)' \subseteq Pending(f) \ {d}
      BY <1>0, <3>3 DEF Pending, ExitProcess
    <3> QED
      BY <1>0, <2>1, <3>1, <3>2, <3>4, CopyWritten
  <2> QED
    BY <2>2, <2>3
<1> QED
  BY <1>1, <1>2 DEF CopyInv

\* A directory's process exits when none of its threads is in a search.
LEMMA ExitIdle ==
  ASSUME WaitAll, NEW d \in Dirs, pc[d] \in {"explore", "sum", "report"}
  PROVE  \A f \in FilesOf(d) : tpc[f] # "flush"
BY EntryOfOne DEF WaitAll, ScanInv, SkipInv, JoinInv, Waiting

\* Every step keeps the copies apart.
LEMMA CopyStep ==
  WaitAll /\ BeforeStart /\ BufferInv /\ CopyInv /\ [Next]_vars => (BufferInv /\ CopyInv)'
<1> DEFINE Copies == BufferInv /\ CopyInv
<1> SUFFICES ASSUME WaitAll, BeforeStart, BufferInv, CopyInv, [Next]_vars PROVE Copies'
  OBVIOUS
<1>0. /\ Root \in Dirs /\ pc \in [Dirs -> ProcessStates] /\ tpc \in [Files -> ThreadStates]
      /\ todo \in [Dirs -> SUBSET (Files \cup Dirs)]
      /\ log \in [Files -> Nat] /\ buffered \in [Dirs -> SUBSET Files]
      /\ total \in [Files -> Nat \cup {ERROR}]
      /\ fileDir \in [Files -> Dirs] /\ matches \in [Files -> Nat]
  BY TreeAssumption, FilesAssumption DEF WaitAll, TypeInv, TypeOK
<1>01. /\ TypeInv /\ ScanInv /\ \A f \in Files : CopiesOf(f)
  BY DEF WaitAll, CopyInv
\* Steps that leave the buffers and the log alone.
<1>a. ASSUME UNCHANGED <<buffered, total, log>>,
             \A d \in Dirs : pc'[d] = "absent" => pc[d] = "absent",
             \A f \in Files : /\ tpc'[f] \in Early => tpc[f] \in Early
                              /\ tpc'[f] = "flush" <=> tpc[f] = "flush"
                              /\ tpc'[f] \in Late => tpc[f] \in Late
      PROVE  Copies'
  <2>1. BufferInv'
    BY <1>0, <1>a DEF BufferInv
  <2>2. ASSUME NEW f \in Files PROVE CopiesOf(f)'
    <3>1. Pending(f)' \subseteq Pending(f)
      BY <1>0, <1>a DEF Pending, Below
    <3> QED
      BY <1>0, <1>01, <1>a, <3>1, CopiesStay
  <2> QED
    BY <2>1, <2>2 DEF CopyInv
\* Steps that begin an empty log.
<1>b. ASSUME \A f \in Files : log'[f] = 0 /\ tpc[f] = "none",
             UNCHANGED <<buffered, total, tpc>>,
             \A d \in Dirs : pc'[d] = "absent" => pc[d] = "absent"
      PROVE  Copies'
  <2>1. BufferInv'
    BY <1>0, <1>b DEF BufferInv, Early, Late
  <2>2. ASSUME NEW f \in Files PROVE CopiesOf(f)'
    <3> DEFINE P == Pending(f)'
               B == Below(fileDir[f])
    <3>1. P \subseteq Pending(f)
      BY <1>0, <1>b DEF Pending, Below
    <3>2. /\ IsFiniteSet(Pending(f)) /\ Cardinality(Pending(f)) \in Nat
          /\ Cardinality(B) \in Nat /\ Cardinality(Pending(f)) <= Cardinality(B)
      BY PendingFinite
    <3>3. CopiesOf(f)' <=> log'[f] + Cardinality(P) <= Cardinality(B)
      BY DEF CopiesOf
    <3> HIDE DEF P, B
    <3>4. Cardinality(P) \in Nat /\ Cardinality(P) <= Cardinality(Pending(f))
      BY <3>1, <3>2, FS_Subset, FS_CardinalityType
    <3> QED
      BY <1>b, <3>2, <3>3, <3>4
  <2> QED
    BY <2>1, <2>2 DEF CopyInv
<1>1. CASE Start
  BY <1>1, <1>0, <1>b DEF BeforeStart, threadVars, Start
<1>2. CASE StartFails
  BY <1>2, <1>0, <1>b DEF BeforeStart, threadVars, StartFails
<1>3. CASE SignalledAtStart
  BY <1>3, <1>0, <1>a
  DEF Early, Late, processVars, threadVars, sharedVars, SignalledAtStart
<1>4. CASE Report
  <2>1. pc[Root] = "report" /\ ExitProcess(Root) /\ UNCHANGED <<tpc, total>>
    BY <1>4 DEF Report, threadVars
  <2>2. \A f \in FilesOf(Root) : tpc[f] # "flush"
    BY <1>0, <2>1, ExitIdle
  <2> QED
    BY <1>0, <1>01, <2>1, <2>2, ExitCopies
<1>5. ASSUME NEW d \in Dirs, Explore(d) PROVE Copies'
  BY <1>5, <1>0, <1>a
  DEF Early, Late, processVars, threadVars, sharedVars, Explore
<1>6. ASSUME NEW d \in Dirs, OpendirFails(d) PROVE Copies'
  <2>1. CASE d = Root
    BY <1>6, <1>0, <1>a, <2>1 DEF OpendirFails, threadVars
  <2>2. CASE d # Root
    <3>1. pc[d] = "explore" /\ ExitProcess(d) /\ UNCHANGED <<tpc, total>>
      BY <1>6, <2>2 DEF OpendirFails, threadVars
    <3>2. \A f \in FilesOf(d) : tpc[f] # "flush"
      BY <3>1, ExitIdle
    <3> QED
      BY <1>01, <3>1, <3>2, ExitCopies
  <2> QED
    BY <2>1, <2>2
<1>7. ASSUME NEW d \in Dirs, ScanDone(d) PROVE Copies'
  BY <1>7, <1>0, <1>a
  DEF Early, Late, processVars, threadVars, sharedVars, ScanDone
<1>8. ASSUME NEW d \in Dirs, JoinBegin(d) PROVE Copies'
  BY <1>8, <1>0, <1>a
  DEF Early, Late, processVars, threadVars, sharedVars, JoinBegin
<1>9. ASSUME NEW d \in Dirs, JoinEnd(d) PROVE Copies'
  <2> DEFINE g == Head(threadIDs[d])
  <2>1. g \in Files
    BY <1>9 DEF WaitAll, TypeInv, TypeOK, JoiningHasThread, JoinEnd
  <2> QED
    BY <1>9, <1>0, <1>a, <2>1 DEF Early, Late, JoinEnd
<1>10. ASSUME NEW d \in Dirs, JoinDone(d) PROVE Copies'
  BY <1>10, <1>0, <1>a
  DEF Early, Late, processVars, threadVars, sharedVars, JoinDone
<1>11. ASSUME NEW d \in Dirs, WaitDone(d) PROVE Copies'
  BY <1>11, <1>0, <1>a
  DEF Early, Late, processVars, threadVars, sharedVars, WaitDone
<1>12. ASSUME NEW d \in Dirs, ReadTotal(d) PROVE Copies'
  <2>1. CASE d = Root
    BY <1>12, <1>0, <1>a, <2>1 DEF ReadTotal, threadVars
  <2>2. CASE d # Root
    <3>1. pc[d] = "sum" /\ ExitProcess(d) /\ UNCHANGED <<tpc, total>>
      BY <1>12, <2>2 DEF ReadTotal, threadVars
    <3>2. \A f \in FilesOf(d) : tpc[f] # "flush"
      BY <3>1, ExitIdle
    <3> QED
      BY <1>01, <3>1, <3>2, ExitCopies
  <2> QED
    BY <2>1, <2>2
<1>13. ASSUME NEW d \in Dirs, NEW f \in Files, CreateThread(d, f) PROVE Copies'
  <2>1. tpc[f] = "none"
    BY <1>13, <1>01 DEF ScanInv, CreateThread
  <2> QED
    BY <1>13, <1>0, <1>a, <2>1 DEF Early, Late, CreateThread
<1>14. ASSUME NEW d \in Dirs, NEW c \in Dirs, ForkDir(d, c) PROVE Copies'
  <2>1. c \in Subdirs(d) /\ pc[c] = "absent"
    BY <1>14, <1>0, <1>01, FilesAssumption DEF ScanInv, ForkDir, FilesOf
  <2>2. \A f \in FilesOf(c) : tpc[f] = "none" /\ \A e \in Dirs : f \notin buffered[e]
    <3>1. \A f \in FilesOf(c) : f \in Files /\ tpc[f] = "none"
      BY <1>01, <2>1, EntryOfOne DEF ScanInv
    <3> QED
      BY <3>1 DEF BufferInv, Early
  <2>3. /\ UNCHANGED <<tpc, total, log>>
        /\ buffered' = [buffered EXCEPT ![c] = buffered[d]]
        /\ pc' = [pc EXCEPT ![c] = "explore"]
    BY <1>14 DEF ForkDir, threadVars
  <2>4. \A f \in Files : f \in buffered[d] => c \in Below(fileDir[f])
    BY <1>0, <2>1, BelowBasics DEF BufferInv
  <2>5. BufferInv'
    <3>1. \A f \in Files : f \in buffered'[fileDir[f]] <=> f \in buffered[fileDir[f]]
      BY <1>0, <2>2, <2>3 DEF FilesOf
    <3>2. \A f \in Files : \A e \in Dirs : f \in buffered'[e] => e \in Below(fileDir[f])
      BY <1>0, <2>3, <2>4 DEF BufferInv
    <3>3. \A f \in Files : (\A e \in Dirs : f \notin buffered[e])
                             => (\A e \in Dirs : f \notin buffered'[e])
      BY <1>0, <2>3
    <3> QED
      BY <2>3, <3>1, <3>2, <3>3 DEF BufferInv
  <2>6. ASSUME NEW f \in Files PROVE CopiesOf(f)'
    <3>1. Pending(f)' \subseteq Pending(f)
      BY <1>0, <2>1, <2>3 DEF Pending, Below
    <3> QED
      BY <1>0, <1>01, <2>3, <3>1, CopiesStay
  <2> QED
    BY <2>5, <2>6 DEF CopyInv
<1>15. ASSUME NEW d \in Dirs, NEW c \in Dirs, ForkFails(d, c) PROVE Copies'
  BY <1>15, <1>0, <1>a
  DEF Early, Late, processVars, threadVars, sharedVars, ForkFails
<1>16. ASSUME NEW d \in Dirs, NEW c \in Dirs, Reap(d, c) PROVE Copies'
  BY <1>16, <1>0, <1>a
  DEF Early, Late, processVars, threadVars, sharedVars, Reap
<1>17. ASSUME NEW f \in Files, TakeSemID(f) PROVE Copies'
  BY <1>17, <1>0, <1>a
  DEF Early, Late, processVars, threadVars, sharedVars, TakeSemID
<1>18. ASSUME NEW f \in Files, TakeLog(f) PROVE Copies'
  BY <1>18, <1>0, <1>a
  DEF Early, Late, processVars, threadVars, sharedVars, TakeLog
<1>19. ASSUME NEW f \in Files, Search(f) PROVE Copies'
  <2> DEFINE e == fileDir[f]
  <2>1. /\ total' = [total EXCEPT ![f] = matches[f]] /\ UNCHANGED <<pc, log>>
        /\ tpc[f] = "search" /\ e \in Dirs /\ matches[f] \in Nat
    BY <1>19, <1>0 DEF Search
  <2>2. total[f] = 0 /\ log[f] = 0 /\ \A d \in Dirs : f \notin buffered[d]
    BY <2>1 DEF BufferInv, Early
  <2>3. e \in Below(e)
    BY <2>1, BelowBasics
  <2>4. CASE matches[f] > 0
    <3>1. /\ buffered' = [buffered EXCEPT ![e] = @ \cup {f}]
          /\ tpc' = [tpc EXCEPT ![f] = "flush"]
      BY <1>19, <2>4 DEF Search
    <3>2. BufferInv'
      BY <1>0, <2>1, <2>2, <2>3, <2>4, <3>1 DEF BufferInv, Early, Late
    <3>3. ASSUME NEW g \in Files PROVE CopiesOf(g)'
      <4>1. Pending(g)' \subseteq Pending(g)
        BY <1>0, <2>1, <3>1 DEF Pending, Below, Early
      <4> QED
        BY <1>0, <1>01, <2>1, <4>1, CopiesStay
    <3> QED
      BY <3>2, <3>3 DEF CopyInv
  <2>5. CASE ~(matches[f] > 0)
    <3>1. UNCHANGED buffered /\ tpc' = [tpc EXCEPT ![f] = "load"] /\ matches[f] = 0
      BY <1>19, <2>1, <2>5 DEF Search
    <3>2. BufferInv'
      BY <1>0, <2>1, <2>2, <3>1 DEF BufferInv, Early, Late
    <3>3. ASSUME NEW g \in Files PROVE CopiesOf(g)'
      <4>1. Pending(g)' \subseteq Pending(g)
        BY <1>0, <2>1, <3>1 DEF Pending, Below, Early
      <4> QED
        BY <1>0, <1>01, <2>1, <4>1, CopiesStay
    <3> QED
      BY <3>2, <3>3 DEF CopyInv
  <2> QED
    BY <2>4, <2>5
<1>20. ASSUME NEW f \in Files, SearchFails(f) PROVE Copies'
  <2>1. /\ total' = [total EXCEPT ![f] = ERROR] /\ UNCHANGED <<pc, log, buffered>>
        /\ tpc[f] = "search" /\ tpc' = [tpc EXCEPT ![f] = "load"] /\ ~(ERROR > 0)
    BY <1>20 DEF SearchFails, ERROR
  <2>2. log[f] = 0 /\ \A d \in Dirs : f \notin buffered[d]
    BY <2>1 DEF BufferInv, Early
  <2>3. BufferInv'
    <3> HIDE DEF ERROR
    <3> QED
      BY <1>0, <2>1, <2>2 DEF BufferInv, Early, Late
  <2>4. ASSUME NEW g \in Files PROVE CopiesOf(g)'
    <3>1. Pending(g)' \subseteq Pending(g)
      BY <1>0, <2>1 DEF Pending, Below, Early
    <3> QED
      BY <1>0, <1>01, <2>1, <3>1, CopiesStay
  <2> QED
    BY <2>3, <2>4 DEF CopyInv
<1>21. ASSUME NEW f \in Files, Flush(f) PROVE Copies'
  <2> DEFINE e == fileDir[f]
  <2>1. /\ buffered' = [buffered EXCEPT ![e] = @ \ {f}] /\ UNCHANGED <<pc, total>>
        /\ log' = [log EXCEPT ![f] = @ + 1]
        /\ tpc[f] = "flush" /\ tpc' = [tpc EXCEPT ![f] = "load"]
        /\ e \in Dirs /\ f \in buffered[e] /\ total[f] > 0
    BY <1>21, <1>0 DEF Flush, BufferInv
  <2>2. BufferInv'
    BY <1>0, <2>1 DEF BufferInv, Early, Late
  <2>3. ASSUME NEW g \in Files, g # f PROVE CopiesOf(g)'
    <3>1. Pending(g)' \subseteq Pending(g) /\ log'[g] = log[g]
      BY <1>0, <2>1, <2>3 DEF Pending, Below, Early
    <3> QED
      BY <1>0, <1>01, <3>1, CopiesStay
  <2>4. CopiesOf(f)'
    <3>1. pc[e] # "absent"
      BY <1>01, <2>1 DEF ScanInv, FilesOf
    <3>2. e \in Pending(f)
      BY <2>1, BelowBasics DEF Pending
    <3>3. Pending(f)' \subseteq Pending(f) \ {e}
      BY <1>0, <2>1, <3>1 DEF Pending, Below, Early
    <3>4. log'[f] = log[f] + 1
      BY <1>0, <2>1
    <3> QED
      BY <1>0, <1>01, <3>2, <3>3, <3>4, CopyWritten
  <2> QED
    BY <2>2, <2>3, <2>4 DEF CopyInv
<1>22. ASSUME NEW f \in Files, Load(f) PROVE Copies'
  BY <1>22, <1>0, <1>a
  DEF Early, Late, processVars, threadVars, sharedVars, Load
<1>23. ASSUME NEW f \in Files, Store(f) PROVE Copies'
  BY <1>23, <1>0, <1>a
  DEF Early, Late, processVars, threadVars, sharedVars, Store
<1>24. ASSUME NEW f \in Files, PostSemID(f) PROVE Copies'
  BY <1>24, <1>0, <1>a
  DEF Early, Late, processVars, threadVars, sharedVars, PostSemID
<1>25. ASSUME NEW f \in Files, PostLog(f) PROVE Copies'
  BY <1>25, <1>0, <1>a
  DEF Early, Late, processVars, threadVars, sharedVars, PostLog
<1>26. ASSUME NEW S \in SUBSET Dirs, CtrlC(S) PROVE Copies'
  BY <1>26, <1>0, <1>a
  DEF Early, Late, processVars, threadVars, sharedVars, CtrlC
<1>27. CASE UNCHANGED vars
  BY <1>27, <1>0, <1>a
  DEF Early, Late, processVars, threadVars, sharedVars, vars
<1> QED
  BY <1>1, <1>2, <1>3, <1>4, <1>5, <1>6, <1>7, <1>8, <1>9, <1>10, <1>11, <1>12, <1>13,
      <1>14, <1>15, <1>16, <1>17, <1>18, <1>19, <1>20, <1>21, <1>22, <1>23, <1>24, <1>25,
      <1>26, <1>27
  DEF Next, RootStep, ProcessStep, ThreadStep, Interrupt

\* Once a search has stored its total, the log has its match lines, and not
\* more often than there are processes below the file's directory, for every
\* tree and however the processes fork while lines are in their buffers.
THEOREM LogHasTheLines == Spec => []LogLines
<1>1. WaitAll /\ BufferInv /\ CopyInv => LogLines
  <2> SUFFICES ASSUME WaitAll, BufferInv, CopyInv, NEW f \in Files, Stored(f)
               PROVE  IF total[f] > 0 THEN log[f] \in 1 .. Cardinality(Below(fileDir[f]))
                                      ELSE log[f] = 0
    BY DEF LogLines
  <2>1. log[f] \in Nat /\ tpc[f] \in Late
    BY DEF WaitAll, TypeInv, TypeOK, Stored, Late
  <2>2. total[f] > 0 => log[f] >= 1
    BY <2>1 DEF BufferInv
  <2>3. total[f] > 0 \/ log[f] = 0
    BY DEF BufferInv
  <2>4. /\ log[f] + Cardinality(Pending(f)) <= Cardinality(Below(fileDir[f]))
        /\ Cardinality(Pending(f)) \in Nat /\ Cardinality(Below(fileDir[f])) \in Nat
    BY PendingFinite DEF CopyInv, CopiesOf
  <2>5. log[f] <= Cardinality(Below(fileDir[f]))
    BY <2>1, <2>4
  <2> QED
    BY <2>1, <2>2, <2>3, <2>4, <2>5
<1>2. Init => WaitAll /\ BeforeStart /\ BufferInv /\ CopyInv
  BY TypeInit, ScanInit, SkipInit, WaitInit, MutexInit, BufferInit DEF WaitAll
<1>3. WaitAll /\ BeforeStart /\ [Next]_vars => BeforeStart'
  BY BeforeStartStep DEF WaitAll
<1>4. Spec => [](WaitAll /\ BeforeStart /\ BufferInv /\ CopyInv)
  BY <1>2, <1>3, WaitAllStep, CopyStep, PTL DEF Spec
<1> QED
  BY <1>1, <1>4, PTL

(***************************************************************************)
(* Nobody waits for ever.  The processes block in pthread_join and wait(), *)
(* the threads in sem_wait, twice: for the semaphore of their own process  *)
(* and then for the one that all processes share.                          *)
(***************************************************************************)

\* The process of d is at a call that returns.
Ready(d) ==
  \/ pc[d] \in {"explore", "scan", "join", "sum"}
  \/ d = Root /\ pc[d] \in {"main", "report"}
  \/ pc[d] = "joining" /\ tpc[Head(threadIDs[d])] = "exited"
  \/ /\ pc[d] = "wait"
     /\ \/ \E c \in Subdirs(d) : pc[c] = "exited"
        \/ \A c \in Subdirs(d) : pc[c] \in {"absent", "reaped"}

\* And so is the thread created for f.
ReadyThread(f) ==
  \/ tpc[f] \in {"search", "flush", "load", "store", "post", "postLog"}
  \/ tpc[f] = "semID" /\ semID[fileDir[f]] > 0
  \/ tpc[f] = "log" /\ semForLog > 0

\* The thread for f holds the semaphore of its own process.
InProcess(f) == tpc[f] \in {"log", "search", "flush", "load", "store", "post"}

\* Once the search has begun, the shared semaphore is up or a thread holds it,
\* if an earlier run has not left it at 0.
LogTokenInv ==
  \/ pc[Root] = "main" /\ UsableSemaphore
  \/ pc[Root] = "quit"
  \/ semForLog > 0
  \/ \E f \in Files : InLog(f)

\* The same for the semaphore of a process, once it reads its directory.
TokenInv ==
  \A d \in Dirs \ skipped : pc[d] \notin Unread =>
    semID[d] > 0 \/ \E f \in FilesOf(d) : InProcess(f)

\* A process has listed only threads it has created and not joined, each of
\* them once; main and its report are the root's.
ListInv ==
  /\ \A d \in Dirs : \A i \in 1 .. Len(threadIDs[d]) :
       /\ threadIDs[d][i] \in FilesOf(d)
       /\ tpc[threadIDs[d][i]] \notin {"none", "joined"}
       /\ \A j \in 1 .. Len(threadIDs[d]) : threadIDs[d][i] = threadIDs[d][j] => i = j
  /\ \A d \in Dirs : pc[d] \in {"main", "quit", "report"} => d = Root

\* At first no thread holds anything, because there is none.
LEMMA TokenInit == Init => TokenInv /\ ListInv /\ (UsableSemaphore => LogTokenInv)
<1> SUFFICES ASSUME Init PROVE TokenInv /\ ListInv /\ (UsableSemaphore => LogTokenInv)
  OBVIOUS
<1>1. pc[Root] = "main" /\ \A d \in Dirs : threadIDs[d] = <<>>
  BY TreeAssumption DEF Init
<1>2. ListInv
  BY <1>1 DEF Init, ListInv
<1> QED
  BY <1>1, <1>2 DEF Init, TokenInv, LogTokenInv, Unread

\* A step that takes the shared semaphore leaves a thread that holds it.
LEMMA LogTokenStep ==
  TypeInv /\ BeforeStart /\ ScanInv /\ LogTokenInv /\ [Next]_vars => LogTokenInv'
<1> SUFFICES ASSUME TypeInv, BeforeStart, ScanInv, LogTokenInv, [Next]_vars PROVE LogTokenInv'
  OBVIOUS
<1>0. /\ Root \in Dirs /\ pc \in [Dirs -> ProcessStates] /\ tpc \in [Files -> ThreadStates]
      /\ todo \in [Dirs -> SUBSET (Files \cup Dirs)]
      /\ semID \in [Dirs -> Nat] /\ semForLog \in Nat /\ skipped \subseteq Dirs
  BY TreeAssumption DEF TypeInv, TypeOK
<1>1. CASE Start
  BY <1>1, <1>0
  DEF LogTokenInv, UsableSemaphore, InLog, BeforeStart, processVars, threadVars,
      sharedVars, Start
<1>2. CASE StartFails
  BY <1>2, <1>0
  DEF LogTokenInv, UsableSemaphore, InLog, BeforeStart, processVars, threadVars,
      sharedVars, StartFails
<1>3. CASE SignalledAtStart
  BY <1>3, <1>0
  DEF LogTokenInv, UsableSemaphore, InLog, BeforeStart, processVars, threadVars,
      sharedVars, SignalledAtStart
<1>4. CASE Report
  BY <1>4, <1>0
  DEF LogTokenInv, UsableSemaphore, InLog, BeforeStart, processVars, threadVars,
      sharedVars, Report, ExitProcess
<1>5. ASSUME NEW d \in Dirs, Explore(d) PROVE LogTokenInv'
  BY <1>5, <1>0
  DEF LogTokenInv, UsableSemaphore, InLog, BeforeStart, processVars, threadVars,
      sharedVars, Explore
<1>6. ASSUME NEW d \in Dirs, OpendirFails(d) PROVE LogTokenInv'
  BY <1>6, <1>0
  DEF LogTokenInv, UsableSemaphore, InLog, BeforeStart, processVars, threadVars,
      sharedVars, OpendirFails, ExitProcess
<1>7. ASSUME NEW d \in Dirs, ScanDone(d) PROVE LogTokenInv'
  BY <1>7, <1>0
  DEF LogTokenInv, UsableSemaphore, InLog, BeforeStart, processVars, threadVars,
      sharedVars, ScanDone
<1>8. ASSUME NEW d \in Dirs, JoinBegin(d) PROVE LogTokenInv'
  BY <1>8, <1>0
  DEF LogTokenInv, UsableSemaphore, InLog, BeforeStart, processVars, threadVars,
      sharedVars, JoinBegin
<1>9. ASSUME NEW d \in Dirs, JoinEnd(d) PROVE LogTokenInv'
  BY <1>9, <1>0
  DEF LogTokenInv, UsableSemaphore, InLog, BeforeStart, processVars, threadVars,
      sharedVars, JoinEnd
<1>10. ASSUME NEW d \in Dirs, JoinDone(d) PROVE LogTokenInv'
  BY <1>10, <1>0
  DEF LogTokenInv, UsableSemaphore, InLog, BeforeStart, processVars, threadVars,
      sharedVars, JoinDone
<1>11. ASSUME NEW d \in Dirs, WaitDone(d) PROVE LogTokenInv'
  BY <1>11, <1>0
  DEF LogTokenInv, UsableSemaphore, InLog, BeforeStart, processVars, threadVars,
      sharedVars, WaitDone
<1>12. ASSUME NEW d \in Dirs, ReadTotal(d) PROVE LogTokenInv'
  BY <1>12, <1>0
  DEF LogTokenInv, UsableSemaphore, InLog, BeforeStart, processVars, threadVars,
      sharedVars, ReadTotal, ExitProcess
<1>13. ASSUME NEW d \in Dirs, NEW f \in Files, CreateThread(d, f) PROVE LogTokenInv'
  <2>1. tpc[f] = "none"
    BY <1>13 DEF CreateThread, ScanInv
  <2> QED
    BY <1>13, <1>0, <2>1
    DEF LogTokenInv, UsableSemaphore, InLog, sharedVars, CreateThread
<1>14. ASSUME NEW d \in Dirs, NEW c \in Dirs, ForkDir(d, c) PROVE LogTokenInv'
  <2>1. c # Root
    BY <1>14, FilesAssumption DEF ForkDir, ScanInv, Subdirs, FilesOf
  <2> QED
    BY <1>14, <1>0, <2>1
    DEF LogTokenInv, UsableSemaphore, InLog, BeforeStart, threadVars, sharedVars, ForkDir
<1>15. ASSUME NEW d \in Dirs, NEW c \in Dirs, ForkFails(d, c) PROVE LogTokenInv'
  BY <1>15, <1>0
  DEF LogTokenInv, UsableSemaphore, InLog, BeforeStart, processVars, threadVars,
      sharedVars, ForkFails
<1>16. ASSUME NEW d \in Dirs, NEW c \in Dirs, Reap(d, c) PROVE LogTokenInv'
  BY <1>16, <1>0
  DEF LogTokenInv, UsableSemaphore, InLog, BeforeStart, processVars, threadVars,
      sharedVars, Reap
<1>17. ASSUME NEW f \in Files, TakeSemID(f) PROVE LogTokenInv'
  BY <1>17, <1>0
  DEF LogTokenInv, UsableSemaphore, InLog, BeforeStart, processVars, threadVars,
      sharedVars, TakeSemID
<1>18. ASSUME NEW f \in Files, TakeLog(f) PROVE LogTokenInv'
  BY <1>18, <1>0
  DEF LogTokenInv, UsableSemaphore, InLog, BeforeStart, processVars, threadVars,
      sharedVars, TakeLog
<1>19. ASSUME NEW f \in Files, Search(f) PROVE LogTokenInv'
  BY <1>19, <1>0
  DEF LogTokenInv, UsableSemaphore, InLog, BeforeStart, processVars, threadVars,
      sharedVars, Search
<1>20. ASSUME NEW f \in Files, SearchFails(f) PROVE LogTokenInv'
  BY <1>20, <1>0
  DEF LogTokenInv, UsableSemaphore, InLog, BeforeStart, processVars, threadVars,
      sharedVars, SearchFails
<1>21. ASSUME NEW f \in Files, Flush(f) PROVE LogTokenInv'
  BY <1>21, <1>0
  DEF LogTokenInv, UsableSemaphore, InLog, BeforeStart, processVars, threadVars,
      sharedVars, Flush
<1>22. ASSUME NEW f \in Files, Load(f) PROVE LogTokenInv'
  BY <1>22, <1>0
  DEF LogTokenInv, UsableSemaphore, InLog, BeforeStart, processVars, threadVars,
      sharedVars, Load
<1>23. ASSUME NEW f \in Files, Store(f) PROVE LogTokenInv'
  BY <1>23, <1>0
  DEF LogTokenInv, UsableSemaphore, InLog, BeforeStart, processVars, threadVars,
      sharedVars, Store
<1>24. ASSUME NEW f \in Files, PostSemID(f) PROVE LogTokenInv'
  BY <1>24, <1>0
  DEF LogTokenInv, UsableSemaphore, InLog, BeforeStart, processVars, threadVars,
      sharedVars, PostSemID
<1>25. ASSUME NEW f \in Files, PostLog(f) PROVE LogTokenInv'
  BY <1>25, <1>0
  DEF LogTokenInv, UsableSemaphore, InLog, BeforeStart, processVars, threadVars,
      sharedVars, PostLog
<1>26. ASSUME NEW S \in SUBSET Dirs, CtrlC(S) PROVE LogTokenInv'
  BY <1>26, <1>0
  DEF LogTokenInv, UsableSemaphore, InLog, BeforeStart, processVars, threadVars,
      sharedVars, CtrlC, Live, Blocked
<1>27. CASE UNCHANGED vars
  BY <1>27, <1>0 DEF LogTokenInv, UsableSemaphore, InLog, BeforeStart, vars
<1> QED
  BY <1>1, <1>2, <1>3, <1>4, <1>5, <1>6, <1>7, <1>8, <1>9, <1>10, <1>11, <1>12, <1>13,
      <1>14, <1>15, <1>16, <1>17, <1>18, <1>19, <1>20, <1>21, <1>22, <1>23, <1>24, <1>25,
      <1>26, <1>27
  DEF Next, RootStep, ProcessStep, ThreadStep, Interrupt

\* A step that takes the semaphore of a process leaves a thread of the same
\* process that holds it.
LEMMA TokenStep == TypeInv /\ ScanInv /\ TokenInv /\ [Next]_vars => TokenInv'
<1> SUFFICES ASSUME TypeInv, ScanInv, TokenInv, [Next]_vars PROVE TokenInv'
  OBVIOUS
<1>0. /\ Root \in Dirs /\ pc \in [Dirs -> ProcessStates] /\ tpc \in [Files -> ThreadStates]
      /\ todo \in [Dirs -> SUBSET (Files \cup Dirs)]
      /\ semID \in [Dirs -> Nat] /\ semForLog \in Nat /\ skipped \subseteq Dirs
  BY TreeAssumption DEF TypeInv, TypeOK
<1>1. CASE Start
  BY <1>1, <1>0
  DEF TokenInv, InProcess, Unread, FilesOf, processVars, threadVars,
      sharedVars, Start
<1>2. CASE StartFails
  BY <1>2, <1>0
  DEF TokenInv, InProcess, Unread, FilesOf, processVars, threadVars,
      sharedVars, StartFails
<1>3. CASE SignalledAtStart
  BY <1>3, <1>0
  DEF TokenInv, InProcess, Unread, FilesOf, processVars, threadVars,
      sharedVars, SignalledAtStart
<1>4. CASE Report
  BY <1>4, <1>0
  DEF TokenInv, InProcess, Unread, FilesOf, processVars, threadVars,
      sharedVars, Report, ExitProcess
<1>5. ASSUME NEW d \in Dirs, Explore(d) PROVE TokenInv'
  BY <1>5, <1>0
  DEF TokenInv, InProcess, Unread, FilesOf, processVars, threadVars,
      sharedVars, Explore
<1>6. ASSUME NEW d \in Dirs, OpendirFails(d) PROVE TokenInv'
  BY <1>6, <1>0
  DEF TokenInv, InProcess, Unread, FilesOf, processVars, threadVars,
      sharedVars, OpendirFails, ExitProcess
<1>7. ASSUME NEW d \in Dirs, ScanDone(d) PROVE TokenInv'
  BY <1>7, <1>0
  DEF TokenInv, InProcess, Unread, FilesOf, processVars, threadVars,
      sharedVars, ScanDone
<1>8. ASSUME NEW d \in Dirs, JoinBegin(d) PROVE TokenInv'
  BY <1>8, <1>0
  DEF TokenInv, InProcess, Unread, FilesOf, processVars, threadVars,
      sharedVars, JoinBegin
<1>9. ASSUME NEW d \in Dirs, JoinEnd(d) PROVE TokenInv'
  BY <1>9, <1>0
  DEF TokenInv, InProcess, Unread, FilesOf, processVars, threadVars,
      sharedVars, JoinEnd
<1>10. ASSUME NEW d \in Dirs, JoinDone(d) PROVE TokenInv'
  BY <1>10, <1>0
  DEF TokenInv, InProcess, Unread, FilesOf, processVars, threadVars,
      sharedVars, JoinDone
<1>11. ASSUME NEW d \in Dirs, WaitDone(d) PROVE TokenInv'
  BY <1>11, <1>0
  DEF TokenInv, InProcess, Unread, FilesOf, processVars, threadVars,
      sharedVars, WaitDone
<1>12. ASSUME NEW d \in Dirs, ReadTotal(d) PROVE TokenInv'
  BY <1>12, <1>0
  DEF TokenInv, InProcess, Unread, FilesOf, processVars, threadVars,
      sharedVars, ReadTotal, ExitProcess
<1>13. ASSUME NEW d \in Dirs, NEW f \in Files, CreateThread(d, f) PROVE TokenInv'
  <2>1. tpc[f] = "none"
    BY <1>13 DEF CreateThread, ScanInv
  <2> QED
    BY <1>13, <1>0, <2>1 DEF TokenInv, InProcess, CreateThread
<1>14. ASSUME NEW d \in Dirs, NEW c \in Dirs, ForkDir(d, c) PROVE TokenInv'
  BY <1>14, <1>0
  DEF TokenInv, InProcess, Unread, FilesOf, processVars, threadVars,
      sharedVars, ForkDir
<1>15. ASSUME NEW d \in Dirs, NEW c \in Dirs, ForkFails(d, c) PROVE TokenInv'
  BY <1>15, <1>0
  DEF TokenInv, InProcess, Unread, FilesOf, processVars, threadVars,
      sharedVars, ForkFails
<1>16. ASSUME NEW d \in Dirs, NEW c \in Dirs, Reap(d, c) PROVE TokenInv'
  BY <1>16, <1>0
  DEF TokenInv, InProcess, Unread, FilesOf, processVars, threadVars,
      sharedVars, Reap
<1>17. ASSUME NEW f \in Files, TakeSemID(f) PROVE TokenInv'
  BY <1>17, <1>0
  DEF TokenInv, InProcess, Unread, FilesOf, processVars, threadVars,
      sharedVars, TakeSemID
<1>18. ASSUME NEW f \in Files, TakeLog(f) PROVE TokenInv'
  BY <1>18, <1>0
  DEF TokenInv, InProcess, Unread, FilesOf, processVars, threadVars,
      sharedVars, TakeLog
<1>19. ASSUME NEW f \in Files, Search(f) PROVE TokenInv'
  BY <1>19, <1>0
  DEF TokenInv, InProcess, Unread, FilesOf, processVars, threadVars,
      sharedVars, Search
<1>20. ASSUME NEW f \in Files, SearchFails(f) PROVE TokenInv'
  BY <1>20, <1>0
  DEF TokenInv, InProcess, Unread, FilesOf, processVars, threadVars,
      sharedVars, SearchFails
<1>21. ASSUME NEW f \in Files, Flush(f) PROVE TokenInv'
  BY <1>21, <1>0
  DEF TokenInv, InProcess, Unread, FilesOf, processVars, threadVars,
      sharedVars, Flush
<1>22. ASSUME NEW f \in Files, Load(f) PROVE TokenInv'
  BY <1>22, <1>0
  DEF TokenInv, InProcess, Unread, FilesOf, processVars, threadVars,
      sharedVars, Load
<1>23. ASSUME NEW f \in Files, Store(f) PROVE TokenInv'
  BY <1>23, <1>0
  DEF TokenInv, InProcess, Unread, FilesOf, processVars, threadVars,
      sharedVars, Store
<1>24. ASSUME NEW f \in Files, PostSemID(f) PROVE TokenInv'
  BY <1>24, <1>0
  DEF TokenInv, InProcess, Unread, FilesOf, processVars, threadVars,
      sharedVars, PostSemID
<1>25. ASSUME NEW f \in Files, PostLog(f) PROVE TokenInv'
  BY <1>25, <1>0
  DEF TokenInv, InProcess, Unread, FilesOf, processVars, threadVars,
      sharedVars, PostLog
<1>26. ASSUME NEW S \in SUBSET Dirs, CtrlC(S) PROVE TokenInv'
  BY <1>26, <1>0
  DEF TokenInv, InProcess, Unread, FilesOf, processVars, threadVars,
      sharedVars, CtrlC, Live, Blocked
<1>27. CASE UNCHANGED vars
  BY <1>27, <1>0 DEF TokenInv, InProcess, Unread, FilesOf, vars
<1> QED
  BY <1>1, <1>2, <1>3, <1>4, <1>5, <1>6, <1>7, <1>8, <1>9, <1>10, <1>11, <1>12, <1>13,
      <1>14, <1>15, <1>16, <1>17, <1>18, <1>19, <1>20, <1>21, <1>22, <1>23, <1>24, <1>25,
      <1>26, <1>27
  DEF Next, RootStep, ProcessStep, ThreadStep, Interrupt

\* A thread enters the list of its process when it is created, and leaves it
\* when it is joined.
LEMMA ListStep == TypeInv /\ ScanInv /\ ListInv /\ [Next]_vars => ListInv'
<1> SUFFICES ASSUME TypeInv, ScanInv, ListInv, [Next]_vars PROVE ListInv'
  OBVIOUS
<1>0. /\ Root \in Dirs /\ pc \in [Dirs -> ProcessStates] /\ tpc \in [Files -> ThreadStates]
      /\ todo \in [Dirs -> SUBSET (Files \cup Dirs)]
      /\ semID \in [Dirs -> Nat] /\ semForLog \in Nat /\ skipped \subseteq Dirs
  BY TreeAssumption DEF TypeInv, TypeOK
<1>01. threadIDs \in [Dirs -> Seq(Files)]
  BY DEF TypeInv, TypeOK
<1>1. CASE Start
  BY <1>1, <1>0, <1>01
  DEF ListInv, processVars, threadVars,
      sharedVars, Start
<1>2. CASE StartFails
  BY <1>2, <1>0, <1>01
  DEF ListInv, processVars, threadVars,
      sharedVars, StartFails
<1>3. CASE SignalledAtStart
  BY <1>3, <1>0, <1>01
  DEF ListInv, processVars, threadVars,
      sharedVars, SignalledAtStart
<1>4. CASE Report
  BY <1>4, <1>0, <1>01
  DEF ListInv, processVars, threadVars,
      sharedVars, Report, ExitProcess
<1>5. ASSUME NEW d \in Dirs, Explore(d) PROVE ListInv'
  BY <1>5, <1>0, <1>01
  DEF ListInv, processVars, threadVars,
      sharedVars, Explore
<1>6. ASSUME NEW d \in Dirs, OpendirFails(d) PROVE ListInv'
  BY <1>6, <1>0, <1>01
  DEF ListInv, processVars, threadVars,
      sharedVars, OpendirFails, ExitProcess
<1>7. ASSUME NEW d \in Dirs, ScanDone(d) PROVE ListInv'
  BY <1>7, <1>0, <1>01
  DEF ListInv, processVars, threadVars,
      sharedVars, ScanDone
<1>8. ASSUME NEW d \in Dirs, JoinBegin(d) PROVE ListInv'
  BY <1>8, <1>0, <1>01
  DEF ListInv, processVars, threadVars,
      sharedVars, JoinBegin
<1>9. ASSUME NEW d \in Dirs, JoinEnd(d) PROVE ListInv'
  <2> DEFINE s == threadIDs[d]
             t == Tail(threadIDs[d])
  <2>1. /\ pc[d] = "joining" /\ pc' = [pc EXCEPT ![d] = "join"]
        /\ tpc' = [tpc EXCEPT ![Head(s)] = "joined"]
        /\ threadIDs' = [threadIDs EXCEPT ![d] = t]
    BY <1>9 DEF JoinEnd
  <2>2. s \in Seq(Files) /\ s # <<>>
    BY <1>01, <2>1 DEF TypeInv, JoiningHasThread
  <2>3. /\ Len(s) \in Nat /\ 1 \in 1 .. Len(s) /\ Head(s) = s[1]
        /\ \A i \in 1 .. Len(t) : t[i] = s[i + 1] /\ i + 1 \in 1 .. Len(s) /\ i + 1 # 1
    BY <2>2
  <2>4. Head(s) \in FilesOf(d) /\ \A i \in 1 .. Len(t) : t[i] # Head(s)
    BY <2>3 DEF ListInv
  <2>5. ASSUME NEW e \in Dirs, NEW i \in 1 .. Len(threadIDs'[e])
        PROVE  /\ threadIDs'[e][i] \in FilesOf(e)
               /\ tpc'[threadIDs'[e][i]] \notin {"none", "joined"}
               /\ \A j \in 1 .. Len(threadIDs'[e]) :
                    threadIDs'[e][i] = threadIDs'[e][j] => i = j
    <3>1. CASE e = d
      <4>1. threadIDs'[e] = t
        BY <1>01, <2>1, <3>1
      <4>2. i + 1 \in 1 .. Len(s) /\ t[i] = s[i + 1] /\ i \in Nat
        BY <2>3, <2>5, <4>1
      <4>3. t[i] \in FilesOf(d) /\ tpc[t[i]] \notin {"none", "joined"}
        BY <4>2 DEF ListInv
      <4>4. tpc'[t[i]] = tpc[t[i]]
        BY <1>0, <2>1, <2>4, <2>5, <4>1, <4>3 DEF FilesOf
      <4>5. ASSUME NEW j \in 1 .. Len(t), t[i] = t[j] PROVE i = j
        <5>1. j + 1 \in 1 .. Len(s) /\ s[i + 1] = s[j + 1]
          BY <2>3, <4>2, <4>5
        <5>2. i + 1 = j + 1
          BY <4>2, <5>1 DEF ListInv
        <5> QED
          BY <4>2, <5>2
      <4> QED
        BY <3>1, <4>1, <4>3, <4>4, <4>5
    <3>2. CASE e # d
      <4>1. threadIDs'[e] = threadIDs[e]
        BY <1>01, <2>1, <3>2
      <4>2. threadIDs[e][i] \in FilesOf(e) /\ threadIDs[e][i] \in Files
        BY <2>5, <4>1 DEF ListInv, FilesOf
      <4>3. threadIDs[e][i] # Head(s)
        BY <2>4, <3>2, <4>2 DEF FilesOf
      <4> QED
        BY <1>0, <2>1, <2>5, <4>1, <4>2, <4>3 DEF ListInv
    <3> QED
      BY <3>1, <3>2
  <2> QED
    BY <1>0, <2>1, <2>5 DEF ListInv
<1>10. ASSUME NEW d \in Dirs, JoinDone(d) PROVE ListInv'
  BY <1>10, <1>0, <1>01
  DEF ListInv, processVars, threadVars,
      sharedVars, JoinDone
<1>11. ASSUME NEW d \in Dirs, WaitDone(d) PROVE ListInv'
  BY <1>11, <1>0, <1>01
  DEF ListInv, processVars, threadVars,
      sharedVars, WaitDone
<1>12. ASSUME NEW d \in Dirs, ReadTotal(d) PROVE ListInv'
  BY <1>12, <1>0, <1>01
  DEF ListInv, processVars, threadVars,
      sharedVars, ReadTotal, ExitProcess
<1>13. ASSUME NEW d \in Dirs, NEW f \in Files, CreateThread(d, f) PROVE ListInv'
  <2> DEFINE s == threadIDs[d]
             t == Append(threadIDs[d], f)
  <2>1. /\ tpc' = [tpc EXCEPT ![f] = "semID"]
        /\ threadIDs' = [threadIDs EXCEPT ![d] = t]
        /\ UNCHANGED pc
    BY <1>13 DEF CreateThread
  <2>2. f \in FilesOf(d) /\ tpc[f] = "none"
    BY <1>13 DEF CreateThread, ScanInv
  <2>3. /\ s \in Seq(Files) /\ Len(s) \in Nat /\ Len(t) = Len(s) + 1
        /\ t[Len(s) + 1] = f /\ \A i \in 1 .. Len(s) : t[i] = s[i]
        /\ \A i \in 1 .. Len(t) : i \in 1 .. Len(s) \/ i = Len(s) + 1
    BY <1>01, <2>2
  <2>4. \A e \in Dirs : \A i \in 1 .. Len(threadIDs[e]) :
          threadIDs[e][i] # f /\ tpc'[threadIDs[e][i]] = tpc[threadIDs[e][i]]
    BY <1>0, <2>1, <2>2 DEF ListInv, FilesOf
  <2>5. ASSUME NEW e \in Dirs, NEW i \in 1 .. Len(threadIDs'[e])
        PROVE  /\ threadIDs'[e][i] \in FilesOf(e)
               /\ tpc'[threadIDs'[e][i]] \notin {"none", "joined"}
               /\ \A j \in 1 .. Len(threadIDs'[e]) :
                    threadIDs'[e][i] = threadIDs'[e][j] => i = j
    <3>1. CASE e = d
      <4>1. threadIDs'[e] = t
        BY <1>01, <2>1, <3>1
      <4>2. tpc'[f] = "semID"
        BY <1>0, <2>1, <2>2 DEF FilesOf
      <4>3. t[i] \in FilesOf(d) /\ tpc'[t[i]] \notin {"none", "joined"}
        BY <2>2, <2>3, <2>4, <2>5, <4>1, <4>2 DEF ListInv
      <4>4. \A j \in 1 .. Len(t) : t[i] = t[j] => i = j
        BY <2>3, <2>4, <2>5, <4>1 DEF ListInv
      <4> QED
        BY <3>1, <4>1, <4>3, <4>4
    <3>2. CASE e # d
      <4>1. threadIDs'[e] = threadIDs[e]
        BY <1>01, <2>1, <3>2
      <4> QED
        BY <2>4, <2>5, <4>1 DEF ListInv
    <3> QED
      BY <3>1, <3>2
  <2> QED
    BY <2>1, <2>5 DEF ListInv
<1>14. ASSUME NEW d \in Dirs, NEW c \in Dirs, ForkDir(d, c) PROVE ListInv'
  BY <1>14, <1>0, <1>01
  DEF ListInv, processVars, threadVars,
      sharedVars, ForkDir
<1>15. ASSUME NEW d \in Dirs, NEW c \in Dirs, ForkFails(d, c) PROVE ListInv'
  BY <1>15, <1>0, <1>01
  DEF ListInv, processVars, threadVars,
      sharedVars, ForkFails
<1>16. ASSUME NEW d \in Dirs, NEW c \in Dirs, Reap(d, c) PROVE ListInv'
  BY <1>16, <1>0, <1>01
  DEF ListInv, processVars, threadVars,
      sharedVars, Reap
<1>17. ASSUME NEW f \in Files, TakeSemID(f) PROVE ListInv'
  BY <1>17, <1>0, <1>01
  DEF ListInv, processVars, threadVars,
      sharedVars, TakeSemID
<1>18. ASSUME NEW f \in Files, TakeLog(f) PROVE ListInv'
  BY <1>18, <1>0, <1>01
  DEF ListInv, processVars, threadVars,
      sharedVars, TakeLog
<1>19. ASSUME NEW f \in Files, Search(f) PROVE ListInv'
  BY <1>19, <1>0, <1>01
  DEF ListInv, processVars, threadVars,
      sharedVars, Search
<1>20. ASSUME NEW f \in Files, SearchFails(f) PROVE ListInv'
  BY <1>20, <1>0, <1>01
  DEF ListInv, processVars, threadVars,
      sharedVars, SearchFails
<1>21. ASSUME NEW f \in Files, Flush(f) PROVE ListInv'
  BY <1>21, <1>0, <1>01
  DEF ListInv, processVars, threadVars,
      sharedVars, Flush
<1>22. ASSUME NEW f \in Files, Load(f) PROVE ListInv'
  BY <1>22, <1>0, <1>01
  DEF ListInv, processVars, threadVars,
      sharedVars, Load
<1>23. ASSUME NEW f \in Files, Store(f) PROVE ListInv'
  BY <1>23, <1>0, <1>01
  DEF ListInv, processVars, threadVars,
      sharedVars, Store
<1>24. ASSUME NEW f \in Files, PostSemID(f) PROVE ListInv'
  BY <1>24, <1>0, <1>01
  DEF ListInv, processVars, threadVars,
      sharedVars, PostSemID
<1>25. ASSUME NEW f \in Files, PostLog(f) PROVE ListInv'
  BY <1>25, <1>0, <1>01
  DEF ListInv, processVars, threadVars,
      sharedVars, PostLog
<1>26. ASSUME NEW S \in SUBSET Dirs, CtrlC(S) PROVE ListInv'
  BY <1>26, <1>0, <1>01
  DEF ListInv, processVars, threadVars,
      sharedVars, CtrlC, Live, Blocked
<1>27. CASE UNCHANGED vars
  BY <1>27, <1>0, <1>01 DEF ListInv, vars
<1> QED
  BY <1>1, <1>2, <1>3, <1>4, <1>5, <1>6, <1>7, <1>8, <1>9, <1>10, <1>11, <1>12, <1>13,
      <1>14, <1>15, <1>16, <1>17, <1>18, <1>19, <1>20, <1>21, <1>22, <1>23, <1>24, <1>25,
      <1>26, <1>27
  DEF Next, RootStep, ProcessStep, ThreadStep, Interrupt

\* Unless an earlier run left the shared semaphore at 0, there is always a
\* process or a thread that can go on until all of them have ended, for every
\* tree, whatever fails and whenever ^C is pressed: the two semaphores and the
\* waits for threads and processes never form a circle.
THEOREM NoDeadlock ==
  Spec /\ UsableSemaphore =>
    []( \/ /\ \A d \in Dirs : ~Live(d)
           /\ \A f \in Files : tpc[f] \in {"none", "exited", "joined"}
        \/ \E d \in Dirs : Ready(d)
        \/ \E f \in Files : ReadyThread(f) )
<1>1. ASSUME WaitAll, BeforeStart, LogTokenInv, TokenInv, ListInv,
             \A f \in Files : ~ReadyThread(f)
      PROVE  \A f \in Files : tpc[f] \in {"none", "exited", "joined"}
  <2> SUFFICES ASSUME NEW f \in Files, tpc[f] \notin {"none", "exited", "joined"}
               PROVE  FALSE
    OBVIOUS
  <2> DEFINE d == fileDir[f]
  <2>1. d \in Dirs /\ f \in FilesOf(d) /\ tpc[f] \in ThreadStates
    BY <1>1, FileTypes DEF WaitAll, TypeInv, TypeOK, FilesOf
  <2>2. \A g \in Files : ~InLog(g)
    BY <1>1 DEF ReadyThread, InLog
  <2>3. semForLog > 0
    BY <1>1, <2>2 DEF LogTokenInv, BeforeStart
  <2>4. \A g \in Files : ~InProcess(g)
    BY <1>1, <2>2, <2>3 DEF ReadyThread, InProcess, InLog
  <2>5. tpc[f] = "semID"
    BY <2>1, <2>2, <2>4 DEF InProcess, InLog, ThreadStates
  <2>6. pc[d] \notin Unread /\ d \notin skipped
    BY <1>1, <2>1, <2>5 DEF WaitAll, ScanInv, SkipInv, Unread
  <2>7. semID[d] > 0
    BY <2>1, <2>4, <2>6, <1>1 DEF TokenInv, FilesOf
  <2> QED
    BY <1>1, <2>5, <2>7 DEF ReadyThread
<1>2. ASSUME WaitAll, ListInv, \E d \in Dirs : Live(d),
             \A f \in Files : tpc[f] \in {"none", "exited", "joined"}
      PROVE  \E d \in Dirs : Ready(d)
  <2> DEFINE L == {d \in Dirs : Live(d)}
  <2>1. PICK d \in L : \A e \in L : e \in Below(d) => e = d
    <3>1. L \in SUBSET Dirs /\ L # {}
      BY <1>2
    <3> HIDE DEF L
    <3> QED
      BY <3>1, Lowest
  <2>2. \A c \in Subdirs(d) : pc[c] \in {"absent", "exited", "reaped"}
    <3> SUFFICES ASSUME NEW c \in Subdirs(d)
                 PROVE  pc[c] \in {"absent", "exited", "reaped"}
      OBVIOUS
    <3>1. c \in Dirs /\ c # Root /\ c # d /\ c \in Below(d)
      BY BelowBasics, SubdirsProper, EntryOfOne
    <3> QED
      BY <1>2, <2>1, <3>1 DEF Live, ListInv
  <2>3. pc[d] \in ProcessStates
    BY <1>2, <2>1 DEF WaitAll, TypeInv, TypeOK
  <2>4. CASE pc[d] = "joining"
    <3>1. threadIDs[d] \in Seq(Files) /\ threadIDs[d] # <<>>
      BY <1>2, <2>1, <2>4 DEF WaitAll, TypeInv, TypeOK, JoiningHasThread
    <3>2. 1 \in 1 .. Len(threadIDs[d]) /\ Head(threadIDs[d]) = threadIDs[d][1]
      BY <3>1
    <3>3. tpc[Head(threadIDs[d])] = "exited"
      BY <1>2, <2>1, <3>2 DEF ListInv, FilesOf
    <3> QED
      BY <2>1, <2>4, <3>3 DEF Ready
  <2>5. CASE pc[d] = "wait"
    BY <2>1, <2>2, <2>5 DEF Ready
  <2>6. CASE pc[d] \notin {"joining", "wait"}
    BY <1>2, <2>1, <2>3, <2>6 DEF Ready, Live, ProcessStates, ListInv
  <2> QED
    BY <2>4, <2>5, <2>6
<1>3. WaitAll /\ BeforeStart /\ LogTokenInv /\ TokenInv /\ ListInv =>
        \/ /\ \A d \in Dirs : ~Live(d)
           /\ \A f \in Files : tpc[f] \in {"none", "exited", "joined"}
        \/ \E d \in Dirs : Ready(d)
        \/ \E f \in Files : ReadyThread(f)
  BY <1>1, <1>2
<1>4. Init /\ UsableSemaphore => WaitAll /\ BeforeStart /\ LogTokenInv /\ TokenInv /\ ListInv
  BY TypeInit, ScanInit, SkipInit, WaitInit, MutexInit, TokenInit DEF WaitAll
<1>5. WaitAll /\ BeforeStart /\ LogTokenInv /\ TokenInv /\ ListInv /\ [Next]_vars =>
        (BeforeStart /\ LogTokenInv /\ TokenInv /\ ListInv)'
  BY BeforeStartStep, LogTokenStep, TokenStep, ListStep DEF WaitAll
<1> QED
  BY <1>3, <1>4, <1>5, WaitAllStep, PTL DEF Spec
=============================================================================
