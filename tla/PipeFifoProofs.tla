---------------------------- MODULE PipeFifoProofs ----------------------------
(***************************************************************************)
(* Theorems about PipeFifo, for every tree, every capacity of a pipe, every*)
(* number of matches and every choice of the system calls that fail: no    *)
(* total is lost in a pipe, explorePath returns the totals of all the files*)
(* it forked for, the lines main counts are those of all the files it      *)
(* could reach, and the FIFO is gone when main exits.                      *)
(***************************************************************************)
EXTENDS PipeFifo, SearchTreeProofs

(***************************************************************************)
(* Types.                                                                  *)
(***************************************************************************)

DirStates == {"absent", "explore", "scan", "wait", "read", "unlink", "count", "exited",
              "reaped"}
FileStates == {"absent", "search", "write", "close", "exit", "exited", "reaped"}

\* At first every variable has its type.
LEMMA TypeInit == Init => TypeOK
<1> SUFFICES ASSUME Init PROVE TypeOK
  OBVIOUS
<1>1. <<>> \in Seq(Nat \cup {ERROR}) /\ Len(<<>>) <= Capacity
  BY PipeAssumption
<1> QED
  BY <1>1, TreeAssumption DEF Init, TypeOK

\* Every step keeps the types, and a pipe never holds more than its capacity.
LEMMA TypeStep == TypeOK /\ [Next]_vars => TypeOK'
<1> SUFFICES ASSUME TypeOK, [Next]_vars PROVE TypeOK'
  OBVIOUS
<1>0. /\ Root \in Dirs /\ matches \in [Files -> Nat] /\ fileDir \in [Files -> Dirs]
      /\ ERROR \in Int
  BY TreeAssumption, FilesAssumption DEF ERROR
<1> HIDE DEF ERROR
<1>1. CASE CountLines
  BY <1>1, <1>0, EntryOfOne
  DEF TypeOK, CountLines
<1>2. ASSUME NEW d \in Dirs, Explore(d) PROVE TypeOK'
  <2>1. FilesOf(d) \cup Subdirs(d) \subseteq Files \cup Dirs
    BY DEF FilesOf, Subdirs
  <2> QED
    BY <1>2, <1>0, <2>1 DEF TypeOK, Explore
<1>3. ASSUME NEW d \in Dirs, ExploreFails(d) PROVE TypeOK'
  BY <1>3, <1>0, EntryOfOne
  DEF TypeOK, ExploreFails, Return
<1>4. ASSUME NEW d \in Dirs, NEW f \in Files, ForkFile(d, f) PROVE TypeOK'
  BY <1>4, <1>0, EntryOfOne
  DEF TypeOK, ForkFile
<1>5. ASSUME NEW d \in Dirs, NEW c \in Dirs, ForkDir(d, c) PROVE TypeOK'
  BY <1>5, <1>0, EntryOfOne
  DEF TypeOK, ForkDir
<1>6. ASSUME NEW d \in Dirs, NEW e \in Files \cup Dirs, ForkFails(d, e) PROVE TypeOK'
  BY <1>6, <1>0, EntryOfOne
  DEF TypeOK, ForkFails
<1>7. ASSUME NEW d \in Dirs, ScanDone(d) PROVE TypeOK'
  BY <1>7, <1>0, EntryOfOne
  DEF TypeOK, ScanDone
<1>8. ASSUME NEW d \in Dirs, Wait(d) PROVE TypeOK'
  BY <1>8, <1>0, EntryOfOne
  DEF TypeOK, Wait, Reap
<1>9. ASSUME NEW d \in Dirs, Read(d) PROVE TypeOK'
  <2> DEFINE s == pipe[d]
  <2>1. s \in Seq(Nat \cup {ERROR}) /\ s # <<>> /\ Len(s) <= Capacity /\ Capacity \in Nat
    BY <1>9, PipeAssumption DEF TypeOK, Read
  <2> HIDE DEF s
  <2>2. /\ Head(s) \in Nat \cup {ERROR}
        /\ Tail(s) \in Seq(Nat \cup {ERROR}) /\ Len(Tail(s)) <= Capacity
    BY <2>1, HeadTailProperties
  <2>3. totalMatches[d] + Head(s) \in Int
    BY <1>0, <2>2 DEF TypeOK
  <2> QED
    BY <1>9, <1>0, <2>2, <2>3 DEF TypeOK, Read, s
<1>10. ASSUME NEW d \in Dirs, ReadEnd(d) PROVE TypeOK'
  BY <1>10, <1>0, EntryOfOne
  DEF TypeOK, ReadEnd, HasWriter
<1>11. ASSUME NEW d \in Dirs, WaitDone(d) PROVE TypeOK'
  BY <1>11, <1>0, EntryOfOne
  DEF TypeOK, WaitDone, Return
<1>12. ASSUME NEW d \in Dirs, UnlinkFifo(d) PROVE TypeOK'
  BY <1>12, <1>0, EntryOfOne
  DEF TypeOK, UnlinkFifo
<1>13. ASSUME NEW f \in Files, Search(f) PROVE TypeOK'
  <2>1. matches[f] \in Nat
    BY <1>0
  <2> QED
    BY <1>13, <1>0, <2>1 DEF TypeOK, Search
<1>14. ASSUME NEW f \in Files, SearchFails(f) PROVE TypeOK'
  BY <1>14, <1>0, EntryOfOne
  DEF TypeOK, SearchFails
<1>15. ASSUME NEW f \in Files, Write(f) PROVE TypeOK'
  <2> DEFINE s == pipe[fileDir[f]]
  <2>1. s \in Seq(Nat \cup {ERROR}) /\ Len(s) < Capacity /\ Capacity \in Nat
    BY <1>15, <1>0, PipeAssumption DEF TypeOK, Write
  <2> HIDE DEF s
  <2>2. total[f] \in Nat \cup {ERROR}
    BY DEF TypeOK
  <2>3. Append(s, total[f]) \in Seq(Nat \cup {ERROR}) /\ Len(Append(s, total[f])) <= Capacity
    BY <2>1, <2>2, AppendProperties
  <2> QED
    BY <1>15, <1>0, <2>3 DEF TypeOK, Write, s
<1>16. ASSUME NEW f \in Files, Close(f) PROVE TypeOK'
  BY <1>16, <1>0, EntryOfOne
  DEF TypeOK, Close
<1>17. ASSUME NEW f \in Files, Exit(f) PROVE TypeOK'
  BY <1>17, <1>0, EntryOfOne
  DEF TypeOK, Exit
<1>18. CASE UNCHANGED vars
  BY <1>18, <1>0, EntryOfOne
  DEF TypeOK, vars
<1> QED
  BY <1>1, <1>2, <1>3, <1>4, <1>5, <1>6, <1>7, <1>8, <1>9, <1>10, <1>11, <1>12, <1>13,
      <1>14, <1>15, <1>16, <1>17, <1>18
  DEF Next, DirStep, FileStep

\* Every variable of withPipeandFIFO keeps its type, and no pipe holds more
\* totals than it can, for every tree.
THEOREM TypeCorrect == Spec => []TypeOK
BY TypeInit, TypeStep, PTL DEF Spec

(***************************************************************************)
(* Entries and their directories.                                          *)
(***************************************************************************)

Unread == {"absent", "explore"}
Done == {"count", "unlink", "exited", "reaped"}

\* Entries are started by the process of their directory, while it reads.
ScanInv ==
  \A d \in Dirs :
    /\ pc[d] # "scan" => todo[d] = {}
    /\ pc[d] \in Unread => /\ \A f \in FilesOf(d) : fpc[f] = "absent"
                           /\ \A c \in Subdirs(d) : pc[c] = "absent"
    /\ \A e \in todo[d] : \/ e \in FilesOf(d) /\ fpc[e] = "absent"
                          \/ e \in Subdirs(d) /\ pc[e] = "absent"

\* Nothing is started at first.
LEMMA ScanInit == Init => ScanInv
BY TreeAssumption, EntryOfOne DEF Init, ScanInv, Unread

\* An entry that is started leaves todo.
LEMMA ScanStep == TypeOK /\ ScanInv /\ [Next]_vars => ScanInv'
<1> SUFFICES ASSUME TypeOK, ScanInv, [Next]_vars PROVE ScanInv'
  OBVIOUS
<1>0. /\ Root \in Dirs /\ pc \in [Dirs -> DirStates] /\ fpc \in [Files -> FileStates]
      /\ todo \in [Dirs -> SUBSET (Files \cup Dirs)]
      /\ Files \cap Dirs = {}
  BY TreeAssumption, FilesAssumption DEF TypeOK, DirStates, FileStates
<1>1. CASE CountLines
  BY <1>1, <1>0, EntryOfOne
  DEF ScanInv, Unread, CountLines
<1>2. ASSUME NEW d \in Dirs, Explore(d) PROVE ScanInv'
  BY <1>2, <1>0, EntryOfOne
  DEF ScanInv, Unread, Explore
<1>3. ASSUME NEW d \in Dirs, ExploreFails(d) PROVE ScanInv'
  BY <1>3, <1>0, EntryOfOne
  DEF ScanInv, Unread, ExploreFails, Return
<1>4. ASSUME NEW d \in Dirs, NEW f \in Files, ForkFile(d, f) PROVE ScanInv'
  BY <1>4, <1>0, EntryOfOne
  DEF ScanInv, Unread, ForkFile
<1>5. ASSUME NEW d \in Dirs, NEW c \in Dirs, ForkDir(d, c) PROVE ScanInv'
  BY <1>5, <1>0, EntryOfOne
  DEF ScanInv, Unread, ForkDir
<1>6. ASSUME NEW d \in Dirs, NEW e \in Files \cup Dirs, ForkFails(d, e) PROVE ScanInv'
  BY <1>6, <1>0, EntryOfOne
  DEF ScanInv, Unread, ForkFails
<1>7. ASSUME NEW d \in Dirs, ScanDone(d) PROVE ScanInv'
  BY <1>7, <1>0, EntryOfOne
  DEF ScanInv, Unread, ScanDone
<1>8. ASSUME NEW d \in Dirs, Wait(d) PROVE ScanInv'
  BY <1>8, <1>0, EntryOfOne
  DEF ScanInv, Unread, Wait, Reap
<1>9. ASSUME NEW d \in Dirs, Read(d) PROVE ScanInv'
  BY <1>9, <1>0, EntryOfOne
  DEF ScanInv, Unread, Read
<1>10. ASSUME NEW d \in Dirs, ReadEnd(d) PROVE ScanInv'
  BY <1>10, <1>0, EntryOfOne
  DEF ScanInv, Unread, ReadEnd, HasWriter
<1>11. ASSUME NEW d \in Dirs, WaitDone(d) PROVE ScanInv'
  BY <1>11, <1>0, EntryOfOne
  DEF ScanInv, Unread, WaitDone, Return
<1>12. ASSUME NEW d \in Dirs, UnlinkFifo(d) PROVE ScanInv'
  BY <1>12, <1>0, EntryOfOne
  DEF ScanInv, Unread, UnlinkFifo
<1>13. ASSUME NEW f \in Files, Search(f) PROVE ScanInv'
  BY <1>13, <1>0, EntryOfOne
  DEF ScanInv, Unread, Search
<1>14. ASSUME NEW f \in Files, SearchFails(f) PROVE ScanInv'
  BY <1>14, <1>0, EntryOfOne
  DEF ScanInv, Unread, SearchFails
<1>15. ASSUME NEW f \in Files, Write(f) PROVE ScanInv'
  BY <1>15, <1>0, EntryOfOne
  DEF ScanInv, Unread, Write
<1>16. ASSUME NEW f \in Files, Close(f) PROVE ScanInv'
  BY <1>16, <1>0, EntryOfOne
  DEF ScanInv, Unread, Close
<1>17. ASSUME NEW f \in Files, Exit(f) PROVE ScanInv'
  BY <1>17, <1>0, EntryOfOne
  DEF ScanInv, Unread, Exit
<1>18. CASE UNCHANGED vars
  BY <1>18, <1>0, EntryOfOne
  DEF ScanInv, Unread, vars
<1> QED
  BY <1>1, <1>2, <1>3, <1>4, <1>5, <1>6, <1>7, <1>8, <1>9, <1>10, <1>11, <1>12, <1>13,
      <1>14, <1>15, <1>16, <1>17, <1>18
  DEF Next, DirStep, FileStep

(***************************************************************************)
(* What was skipped, forked for and waited for.                            *)
(***************************************************************************)

\* A skipped directory has started nothing, a skipped file is not searched,
\* and the directory of a skipped entry has it behind.
SkipInv ==
  /\ \A d \in skipped \cap Dirs :
       /\ pc[d] \in {"absent"} \cup Done
       /\ \A f \in FilesOf(d) : fpc[f] = "absent"
       /\ \A c \in Subdirs(d) : pc[c] = "absent"
  /\ \A f \in skipped \cap Files : fpc[f] = "absent"
  /\ \A d \in Dirs : \A e \in FilesOf(d) \cup Subdirs(d) :
       e \in skipped => pc[d] \notin Unread /\ e \notin todo[d]

\* At first nothing is skipped.
LEMMA SkipInit == Init => SkipInv
BY DEF Init, SkipInv

\* Only what has just failed is skipped.
LEMMA SkipStep == TypeOK /\ ScanInv /\ SkipInv /\ [Next]_vars => SkipInv'
<1> SUFFICES ASSUME TypeOK, ScanInv, SkipInv, [Next]_vars PROVE SkipInv'
  OBVIOUS
<1>0. /\ Root \in Dirs /\ pc \in [Dirs -> DirStates] /\ fpc \in [Files -> FileStates]
      /\ todo \in [Dirs -> SUBSET (Files \cup Dirs)]
      /\ Files \cap Dirs = {}
  BY TreeAssumption, FilesAssumption DEF TypeOK, DirStates, FileStates
<1>1. CASE CountLines
  BY <1>1, <1>0, EntryOfOne
  DEF ScanInv, SkipInv, Unread, Done, CountLines
<1>2. ASSUME NEW d \in Dirs, Explore(d) PROVE SkipInv'
  BY <1>2, <1>0, EntryOfOne
  DEF ScanInv, SkipInv, Unread, Done, Explore
<1>3. ASSUME NEW d \in Dirs, ExploreFails(d) PROVE SkipInv'
  BY <1>3, <1>0, EntryOfOne
  DEF ScanInv, SkipInv, Unread, Done, ExploreFails, Return
<1>4. ASSUME NEW d \in Dirs, NEW f \in Files, ForkFile(d, f) PROVE SkipInv'
  BY <1>4, <1>0, EntryOfOne
  DEF ScanInv, SkipInv, Unread, Done, ForkFile
<1>5. ASSUME NEW d \in Dirs, NEW c \in Dirs, ForkDir(d, c) PROVE SkipInv'
  BY <1>5, <1>0, EntryOfOne
  DEF ScanInv, SkipInv, Unread, Done, ForkDir
<1>6. ASSUME NEW d \in Dirs, NEW e \in Files \cup Dirs, ForkFails(d, e) PROVE SkipInv'
  BY <1>6, <1>0, EntryOfOne
  DEF ScanInv, SkipInv, Unread, Done, ForkFails
<1>7. ASSUME NEW d \in Dirs, ScanDone(d) PROVE SkipInv'
  BY <1>7, <1>0, EntryOfOne
  DEF ScanInv, SkipInv, Unread, Done, ScanDone
<1>8. ASSUME NEW d \in Dirs, Wait(d) PROVE SkipInv'
  BY <1>8, <1>0, EntryOfOne
  DEF ScanInv, SkipInv, Unread, Done, Wait, Reap
<1>9. ASSUME NEW d \in Dirs, Read(d) PROVE SkipInv'
  BY <1>9, <1>0, EntryOfOne
  DEF ScanInv, SkipInv, Unread, Done, Read
<1>10. ASSUME NEW d \in Dirs, ReadEnd(d) PROVE SkipInv'
  BY <1>10, <1>0, EntryOfOne
  DEF ScanInv, SkipInv, Unread, Done, ReadEnd, HasWriter
<1>11. ASSUME NEW d \in Dirs, WaitDone(d) PROVE SkipInv'
  BY <1>11, <1>0, EntryOfOne
  DEF ScanInv, SkipInv, Unread, Done, WaitDone, Return
<1>12. ASSUME NEW d \in Dirs, UnlinkFifo(d) PROVE SkipInv'
  BY <1>12, <1>0, EntryOfOne
  DEF ScanInv, SkipInv, Unread, Done, UnlinkFifo
<1>13. ASSUME NEW f \in Files, Search(f) PROVE SkipInv'
  BY <1>13, <1>0, EntryOfOne
  DEF ScanInv, SkipInv, Unread, Done, Search
<1>14. ASSUME NEW f \in Files, SearchFails(f) PROVE SkipInv'
  BY <1>14, <1>0, EntryOfOne
  DEF ScanInv, SkipInv, Unread, Done, SearchFails
<1>15. ASSUME NEW f \in Files, Write(f) PROVE SkipInv'
  BY <1>15, <1>0, EntryOfOne
  DEF ScanInv, SkipInv, Unread, Done, Write
<1>16. ASSUME NEW f \in Files, Close(f) PROVE SkipInv'
  BY <1>16, <1>0, EntryOfOne
  DEF ScanInv, SkipInv, Unread, Done, Close
<1>17. ASSUME NEW f \in Files, Exit(f) PROVE SkipInv'
  BY <1>17, <1>0, EntryOfOne
  DEF ScanInv, SkipInv, Unread, Done, Exit
<1>18. CASE UNCHANGED vars
  BY <1>18, <1>0, EntryOfOne
  DEF ScanInv, SkipInv, Unread, Done, vars
<1> QED
  BY <1>1, <1>2, <1>3, <1>4, <1>5, <1>6, <1>7, <1>8, <1>9, <1>10, <1>11, <1>12, <1>13,
      <1>14, <1>15, <1>16, <1>17, <1>18
  DEF Next, DirStep, FileStep

\* An entry that has been read has been forked for or skipped.
ForkInv ==
  \A d \in Dirs \ skipped : pc[d] \notin Unread =>
    /\ \A c \in Subdirs(d) : c \in todo[d] \/ c \in skipped \/ pc[c] # "absent"
    /\ \A f \in FilesOf(d) : f \in todo[d] \/ f \in skipped \/ fpc[f] # "absent"

\* A process has reaped its children when its loop of waits is over.
WaitInv ==
  \A d \in Dirs : pc[d] \in Done =>
    /\ \A c \in Subdirs(d) : pc[c] \in {"absent", "reaped"}
    /\ \A f \in FilesOf(d) : fpc[f] \in {"absent", "reaped"}

\* Nothing is read at first.
LEMMA WaitInit == Init => ForkInv /\ WaitInv
BY TreeAssumption DEF Init, ForkInv, WaitInv, Done, Unread

\* An entry leaves todo only when it is forked for or skipped.
LEMMA ForkStep == TypeOK /\ ScanInv /\ SkipInv /\ ForkInv /\ [Next]_vars => ForkInv'
<1> SUFFICES ASSUME TypeOK, ScanInv, SkipInv, ForkInv, [Next]_vars PROVE ForkInv'
  OBVIOUS
<1>0. /\ Root \in Dirs /\ pc \in [Dirs -> DirStates] /\ fpc \in [Files -> FileStates]
      /\ todo \in [Dirs -> SUBSET (Files \cup Dirs)]
      /\ Files \cap Dirs = {}
  BY TreeAssumption, FilesAssumption DEF TypeOK, DirStates, FileStates
<1>1. CASE CountLines
  BY <1>1, <1>0, EntryOfOne
  DEF ScanInv, SkipInv, ForkInv, Unread, Done, CountLines
<1>2. ASSUME NEW d \in Dirs, Explore(d) PROVE ForkInv'
  BY <1>2, <1>0, EntryOfOne
  DEF ScanInv, SkipInv, ForkInv, Unread, Done, Explore
<1>3. ASSUME NEW d \in Dirs, ExploreFails(d) PROVE ForkInv'
  BY <1>3, <1>0, EntryOfOne
  DEF ScanInv, SkipInv, ForkInv, Unread, Done, ExploreFails, Return
<1>4. ASSUME NEW d \in Dirs, NEW f \in Files, ForkFile(d, f) PROVE ForkInv'
  BY <1>4, <1>0, EntryOfOne
  DEF ScanInv, SkipInv, ForkInv, Unread, Done, ForkFile
<1>5. ASSUME NEW d \in Dirs, NEW c \in Dirs, ForkDir(d, c) PROVE ForkInv'
  BY <1>5, <1>0, EntryOfOne
  DEF ScanInv, SkipInv, ForkInv, Unread, Done, ForkDir
<1>6. ASSUME NEW d \in Dirs, NEW e \in Files \cup Dirs, ForkFails(d, e) PROVE ForkInv'
  BY <1>6, <1>0, EntryOfOne
  DEF ScanInv, SkipInv, ForkInv, Unread, Done, ForkFails
<1>7. ASSUME NEW d \in Dirs, ScanDone(d) PROVE ForkInv'
  BY <1>7, <1>0, EntryOfOne
  DEF ScanInv, SkipInv, ForkInv, Unread, Done, ScanDone
<1>8. ASSUME NEW d \in Dirs, Wait(d) PROVE ForkInv'
  BY <1>8, <1>0, EntryOfOne
  DEF ScanInv, SkipInv, ForkInv, Unread, Done, Wait, Reap
<1>9. ASSUME NEW d \in Dirs, Read(d) PROVE ForkInv'
  BY <1>9, <1>0, EntryOfOne
  DEF ScanInv, SkipInv, ForkInv, Unread, Done, Read
<1>10. ASSUME NEW d \in Dirs, ReadEnd(d) PROVE ForkInv'
  BY <1>10, <1>0, EntryOfOne
  DEF ScanInv, SkipInv, ForkInv, Unread, Done, ReadEnd, HasWriter
<1>11. ASSUME NEW d \in Dirs, WaitDone(d) PROVE ForkInv'
  BY <1>11, <1>0, EntryOfOne
  DEF ScanInv, SkipInv, ForkInv, Unread, Done, WaitDone, Return
<1>12. ASSUME NEW d \in Dirs, UnlinkFifo(d) PROVE ForkInv'
  BY <1>12, <1>0, EntryOfOne
  DEF ScanInv, SkipInv, ForkInv, Unread, Done, UnlinkFifo
<1>13. ASSUME NEW f \in Files, Search(f) PROVE ForkInv'
  BY <1>13, <1>0, EntryOfOne
  DEF ScanInv, SkipInv, ForkInv, Unread, Done, Search
<1>14. ASSUME NEW f \in Files, SearchFails(f) PROVE ForkInv'
  BY <1>14, <1>0, EntryOfOne
  DEF ScanInv, SkipInv, ForkInv, Unread, Done, SearchFails
<1>15. ASSUME NEW f \in Files, Write(f) PROVE ForkInv'
  BY <1>15, <1>0, EntryOfOne
  DEF ScanInv, SkipInv, ForkInv, Unread, Done, Write
<1>16. ASSUME NEW f \in Files, Close(f) PROVE ForkInv'
  BY <1>16, <1>0, EntryOfOne
  DEF ScanInv, SkipInv, ForkInv, Unread, Done, Close
<1>17. ASSUME NEW f \in Files, Exit(f) PROVE ForkInv'
  BY <1>17, <1>0, EntryOfOne
  DEF ScanInv, SkipInv, ForkInv, Unread, Done, Exit
<1>18. CASE UNCHANGED vars
  BY <1>18, <1>0, EntryOfOne
  DEF ScanInv, SkipInv, ForkInv, Unread, Done, vars
<1> QED
  BY <1>1, <1>2, <1>3, <1>4, <1>5, <1>6, <1>7, <1>8, <1>9, <1>10, <1>11, <1>12, <1>13,
      <1>14, <1>15, <1>16, <1>17, <1>18
  DEF Next, DirStep, FileStep

\* After its last wait() a process starts nobody.
LEMMA WaitStep == TypeOK /\ ScanInv /\ WaitInv /\ [Next]_vars => WaitInv'
<1> SUFFICES ASSUME TypeOK, ScanInv, WaitInv, [Next]_vars PROVE WaitInv'
  OBVIOUS
<1>0. /\ Root \in Dirs /\ pc \in [Dirs -> DirStates] /\ fpc \in [Files -> FileStates]
      /\ todo \in [Dirs -> SUBSET (Files \cup Dirs)]
      /\ Files \cap Dirs = {}
  BY TreeAssumption, FilesAssumption DEF TypeOK, DirStates, FileStates
<1>1. CASE CountLines
  BY <1>1, <1>0, EntryOfOne
  DEF ScanInv, WaitInv, Unread, Done, CountLines
<1>2. ASSUME NEW d \in Dirs, Explore(d) PROVE WaitInv'
  BY <1>2, <1>0, EntryOfOne
  DEF ScanInv, WaitInv, Unread, Done, Explore
<1>3. ASSUME NEW d \in Dirs, ExploreFails(d) PROVE WaitInv'
  BY <1>3, <1>0, EntryOfOne
  DEF ScanInv, WaitInv, Unread, Done, ExploreFails, Return
<1>4. ASSUME NEW d \in Dirs, NEW f \in Files, ForkFile(d, f) PROVE WaitInv'
  BY <1>4, <1>0, EntryOfOne
  DEF ScanInv, WaitInv, Unread, Done, ForkFile
<1>5. ASSUME NEW d \in Dirs, NEW c \in Dirs, ForkDir(d, c) PROVE WaitInv'
  BY <1>5, <1>0, EntryOfOne
  DEF ScanInv, WaitInv, Unread, Done, ForkDir
<1>6. ASSUME NEW d \in Dirs, NEW e \in Files \cup Dirs, ForkFails(d, e) PROVE WaitInv'
  BY <1>6, <1>0, EntryOfOne
  DEF ScanInv, WaitInv, Unread, Done, ForkFails
<1>7. ASSUME NEW d \in Dirs, ScanDone(d) PROVE WaitInv'
  BY <1>7, <1>0, EntryOfOne
  DEF ScanInv, WaitInv, Unread, Done, ScanDone
<1>8. ASSUME NEW d \in Dirs, Wait(d) PROVE WaitInv'
  BY <1>8, <1>0, EntryOfOne
  DEF ScanInv, WaitInv, Unread, Done, Wait, Reap
<1>9. ASSUME NEW d \in Dirs, Read(d) PROVE WaitInv'
  BY <1>9, <1>0, EntryOfOne
  DEF ScanInv, WaitInv, Unread, Done, Read
<1>10. ASSUME NEW d \in Dirs, ReadEnd(d) PROVE WaitInv'
  BY <1>10, <1>0, EntryOfOne
  DEF ScanInv, WaitInv, Unread, Done, ReadEnd, HasWriter
<1>11. ASSUME NEW d \in Dirs, WaitDone(d) PROVE WaitInv'
  <2>1. \A c \in Subdirs(d) : pc[c] \in {"absent", "reaped"}
    BY <1>11, <1>0, EntryOfOne DEF WaitDone, Children, LiveDir
  <2>2. \A f \in FilesOf(d) : fpc[f] \in {"absent", "reaped"}
    BY <1>11, <1>0, EntryOfOne DEF WaitDone, Children, LiveFile
  <2> QED
    BY <1>11, <1>0, <2>1, <2>2, EntryOfOne DEF WaitInv, Done, WaitDone, Return
<1>12. ASSUME NEW d \in Dirs, UnlinkFifo(d) PROVE WaitInv'
  BY <1>12, <1>0, EntryOfOne
  DEF ScanInv, WaitInv, Unread, Done, UnlinkFifo
<1>13. ASSUME NEW f \in Files, Search(f) PROVE WaitInv'
  BY <1>13, <1>0, EntryOfOne
  DEF ScanInv, WaitInv, Unread, Done, Search
<1>14. ASSUME NEW f \in Files, SearchFails(f) PROVE WaitInv'
  BY <1>14, <1>0, EntryOfOne
  DEF ScanInv, WaitInv, Unread, Done, SearchFails
<1>15. ASSUME NEW f \in Files, Write(f) PROVE WaitInv'
  BY <1>15, <1>0, EntryOfOne
  DEF ScanInv, WaitInv, Unread, Done, Write
<1>16. ASSUME NEW f \in Files, Close(f) PROVE WaitInv'
  BY <1>16, <1>0, EntryOfOne
  DEF ScanInv, WaitInv, Unread, Done, Close
<1>17. ASSUME NEW f \in Files, Exit(f) PROVE WaitInv'
  BY <1>17, <1>0, EntryOfOne
  DEF ScanInv, WaitInv, Unread, Done, Exit
<1>18. CASE UNCHANGED vars
  BY <1>18, <1>0, EntryOfOne
  DEF ScanInv, WaitInv, Unread, Done, vars
<1> QED
  BY <1>1, <1>2, <1>3, <1>4, <1>5, <1>6, <1>7, <1>8, <1>9, <1>10, <1>11, <1>12, <1>13,
      <1>14, <1>15, <1>16, <1>17, <1>18
  DEF Next, DirStep, FileStep

(***************************************************************************)
(* Along the tree.                                                         *)
(***************************************************************************)

\* All that the invariants say of a directory and its entries.
EntryInv == TypeOK /\ ScanInv /\ SkipInv /\ ForkInv /\ WaitInv

\* Every step keeps it.
LEMMA EntryStep == EntryInv /\ [Next]_vars => EntryInv'
BY TypeStep, ScanStep, SkipStep, ForkStep, WaitStep DEF EntryInv

\* When main has waited, nobody is left.
LEMMA NobodyLeft ==
  ASSUME EntryInv, pc[Root] \in Done
  PROVE  /\ \A f \in Files : fpc[f] \in {"absent", "reaped"}
         /\ \A c \in Dirs \ {Root} : pc[c] \in {"absent", "reaped"}
<1> DEFINE D == {d \in Dirs : pc[d] \in {"absent"} \cup Done}
<1>1. ASSUME NEW d \in D, NEW c \in Subdirs(d)
      PROVE  c \in Dirs /\ pc[c] \in {"absent", "reaped"}
  <2>1. c \in Dirs
    BY <1>1, EntryOfOne
  <2>2. pc[c] \in {"absent", "reaped"}
    BY <1>1 DEF EntryInv, ScanInv, WaitInv, Unread
  <2> QED
    BY <2>1, <2>2
<1>2. D = Dirs
  <2>1. \A d \in D : Subdirs(d) \subseteq D
    BY <1>1 DEF Done
  <2> QED
    BY <2>1, TreeAssumption
<1>3. ASSUME NEW f \in Files PROVE fpc[f] \in {"absent", "reaped"}
  <2>1. fileDir[f] \in D /\ f \in FilesOf(fileDir[f])
    BY <1>2, FilesAssumption DEF FilesOf
  <2> QED
    BY <2>1 DEF EntryInv, ScanInv, WaitInv, Unread
<1>4. ASSUME NEW c \in Dirs \ {Root} PROVE pc[c] \in {"absent", "reaped"}
  <2>1. parentDir[c] \in D /\ c \in Subdirs(parentDir[c])
    BY <1>2, TreeAssumption DEF Subdirs
  <2> QED
    BY <1>1, <2>1
<1> QED
  BY <1>3, <1>4

\* Nobody searches below a directory that was skipped.
LEMMA BelowSkipped ==
  ASSUME EntryInv, NEW f \in Files, NEW s \in skipped \cap Dirs, fileDir[f] \in Below(s)
  PROVE  fpc[f] = "absent"
<1> DEFINE D == {d \in Dirs : /\ \A g \in FilesOf(d) : fpc[g] = "absent"
                              /\ \A c \in Subdirs(d) : pc[c] = "absent"}
<1>1. s \in D
  BY DEF EntryInv, SkipInv
<1>2. ASSUME NEW d \in D, NEW c \in Subdirs(d) PROVE c \in D
  <2>1. c \in Dirs /\ pc[c] = "absent"
    BY <1>2, EntryOfOne
  <2> QED
    BY <2>1 DEF EntryInv, ScanInv, Unread
<1>3. Below(s) \subseteq D
  BY <1>1, <1>2, BelowInduction
<1>4. f \in FilesOf(fileDir[f])
  BY DEF FilesOf
<1> QED
  BY <1>3, <1>4

\* When main has waited, every file it could reach has been searched.
LEMMA AllSearched ==
  ASSUME EntryInv, pc[Root] \in Done, NEW f \in Files, ~Unreachable(f)
  PROVE  fpc[f] = "reaped"
<1> DEFINE Cut(d) == \E s \in skipped \cap Dirs : d \in Below(s)
           D == {d \in Dirs : (pc[d] \in Done /\ d \notin skipped) \/ Cut(d)}
<1>1. Root \in D
  BY TreeAssumption, BelowBasics
<1>2. ASSUME NEW d \in D, NEW c \in Subdirs(d) PROVE c \in D
  <2>1. c \in Dirs
    BY <1>2, EntryOfOne
  <2>2. CASE c \in skipped
    BY <2>1, <2>2, BelowBasics
  <2>3. CASE c \notin skipped /\ pc[d] \in Done /\ d \notin skipped
    <3>1. pc[c] # "absent"
      BY <1>2, <2>3 DEF EntryInv, ForkInv, ScanInv, Unread, Done
    <3>2. pc[c] = "reaped"
      BY <1>2, <2>3, <3>1 DEF EntryInv, WaitInv
    <3> QED
      BY <2>1, <2>3, <3>2 DEF Done
  <2>4. CASE Cut(d)
    BY <1>2, <2>1, <2>4, BelowBasics
  <2> QED
    BY <1>2, <2>2, <2>3, <2>4
<1>3. D = Dirs
  BY <1>1, <1>2, TreeAssumption
<1>4. fileDir[f] \in D /\ f \in FilesOf(fileDir[f])
  BY <1>3, FilesAssumption DEF FilesOf
<1>5. f \notin skipped /\ ~Cut(fileDir[f])
  BY DEF Unreachable
<1>6. pc[fileDir[f]] \in Done /\ fileDir[f] \notin skipped
  BY <1>4, <1>5
<1>7. fpc[f] # "absent"
  BY <1>4, <1>5, <1>6 DEF EntryInv, ForkInv, ScanInv, Unread, Done
<1> QED
  BY <1>4, <1>6, <1>7 DEF EntryInv, WaitInv

(***************************************************************************)
(* The pipes.                                                              *)
(***************************************************************************)

\* What NoTotalLost says of one directory.
Balanced(d) ==
  totalMatches[d] + SumOver(DOMAIN pipe[d], pipe[d]) = SumOver(Written(d), total)

\* Nothing is written at first.
LEMMA LostInit == Init => NoTotalLost
<1> SUFFICES ASSUME Init, NEW d \in Dirs PROVE Balanced(d)
  BY DEF NoTotalLost, Balanced
<1>1. Written(d) = {} /\ pipe[d] = <<>> /\ totalMatches[d] = 0
  BY DEF Init, Written, FilesOf
<1>2. SumOver(Written(d), total) = 0 /\ SumOver(DOMAIN pipe[d], pipe[d]) = 0
  BY <1>1, SumOfNone
<1> QED
  BY <1>1, <1>2 DEF Balanced

\* A step that leaves a directory's pipe, sum and written totals alone.
LEMMA LostSame ==
  ASSUME NoTotalLost, NEW d \in Dirs, d \notin skipped,
         pipe'[d] = pipe[d], totalMatches'[d] = totalMatches[d], Written(d)' = Written(d),
         \A f \in Written(d) : total'[f] = total[f]
  PROVE  Balanced(d)'
<1>1. Balanced(d)
  BY DEF NoTotalLost, Balanced
<1>2. SumOver(Written(d), total') = SumOver(Written(d), total)
  BY SumSame
<1> QED
  BY <1>1, <1>2 DEF Balanced

\* The reader takes a total from the pipe exactly when it adds it.
LEMMA ReadKeeps ==
  ASSUME TypeOK, NoTotalLost, NEW d \in Dirs, d \notin skipped, Read(d)
  PROVE  Balanced(d)'
<1> DEFINE s == pipe[d]
<1>1. /\ s \in Seq(Totals) /\ s # <<>> /\ totalMatches[d] \in Int
      /\ pipe'[d] = Tail(s) /\ totalMatches'[d] = totalMatches[d] + Head(s)
      /\ UNCHANGED <<fpc, total>>
  BY DEF TypeOK, Read, Totals
<1>2. totalMatches[d] + SumOver(DOMAIN s, s) = SumOver(Written(d), total)
  BY DEF NoTotalLost
<1>3. Written(d)' = Written(d)
  BY <1>1 DEF Written
<1> HIDE DEF s
<1>4. SumOver(DOMAIN s, s) = Head(s) + SumOver(DOMAIN Tail(s), Tail(s))
  BY <1>1, SumTail
<1>5. Head(s) \in Int /\ SumOver(DOMAIN Tail(s), Tail(s)) \in Int
  <2>1. Head(s) \in Totals /\ Tail(s) \in Seq(Totals)
    BY <1>1, HeadTailProperties
  <2>2. Head(s) \in Int
    BY <2>1 DEF Totals, ERROR
  <2> DEFINE t == Tail(s)
  <2> HIDE DEF t
  <2>3. /\ t \in Seq(Totals) /\ DOMAIN t = 1 .. Len(t) /\ Len(t) \in Nat
        /\ \A k \in DOMAIN t : t[k] \in Totals
    BY <2>1 DEF t
  <2>4. IsFiniteSet(DOMAIN t)
    BY <2>3, FS_Interval
  <2>5. SumOver(DOMAIN t, t) \in Int
    BY <2>3, <2>4, SumParts
  <2> QED
    BY <2>2, <2>5 DEF t
<1>6. (totalMatches[d] + Head(s)) + SumOver(DOMAIN Tail(s), Tail(s))
        = SumOver(Written(d), total)
  BY <1>1, <1>2, <1>4, <1>5
<1> QED
  BY <1>1, <1>3, <1>6 DEF Balanced

\* A file's process adds its total to the pipe when it has written it.
LEMMA WriteKeeps ==
  ASSUME TypeOK, NoTotalLost, NEW f \in Files, fileDir[f] \notin skipped, Write(f)
  PROVE  Balanced(fileDir[f])'
<1> DEFINE d == fileDir[f]
           s == pipe[d]
           W == Written(d)
<1>1. d \in Dirs
  BY FilesAssumption
<1>2. /\ s \in Seq(Totals) /\ total[f] \in Totals /\ totalMatches[d] \in Int
      /\ pipe'[d] = Append(s, total[f])
      /\ UNCHANGED <<totalMatches, total>>
  BY <1>1 DEF TypeOK, Write, Totals
<1>3. totalMatches[d] + SumOver(DOMAIN s, s) = SumOver(W, total)
  BY <1>1 DEF NoTotalLost
<1>4. Written(d)' = W \cup {f} /\ f \notin W
  BY DEF Written, FilesOf, Write, TypeOK
<1>5. IsFiniteSet(W) /\ \A g \in W \cup {f} : total[g] \in Totals
  <2>1. W \subseteq Files /\ \A g \in Files : total[g] \in Totals
    BY DEF Written, FilesOf, TypeOK, Totals
  <2> HIDE DEF W
  <2> QED
    BY <2>1, FilesAssumption, FS_Subset
<1>6. /\ \A k \in DOMAIN s : s[k] \in Totals
      /\ IsFiniteSet(DOMAIN s)
  <2>1. DOMAIN s = 1 .. Len(s) /\ Len(s) \in Nat /\ \A k \in DOMAIN s : s[k] \in Totals
    BY <1>2
  <2> HIDE DEF s
  <2> QED
    BY <2>1, FS_Interval
<1> HIDE DEF s, W
<1>7. SumOver(DOMAIN s, s) \in Int /\ total[f] \in Int
  <2>1. SumOver(DOMAIN s, s) \in Int
    BY <1>6, SumParts
  <2> QED
    BY <2>1, <1>2 DEF Totals, ERROR
<1>8. SumOver(W \cup {f}, total) = SumOver(W, total) + total[f]
  BY <1>4, <1>5, SumAdds
<1>9. SumOver(DOMAIN Append(s, total[f]), Append(s, total[f]))
        = SumOver(DOMAIN s, s) + total[f]
  BY <1>2, SumAppend
<1>10. totalMatches[d] + SumOver(DOMAIN Append(s, total[f]), Append(s, total[f]))
         = SumOver(W \cup {f}, total)
  BY <1>2, <1>3, <1>7, <1>8, <1>9
<1> QED
  BY <1>2, <1>4, <1>10 DEF Balanced

\* No step loses a total or reads it twice.
LEMMA LostStep == EntryInv /\ NoTotalLost /\ [Next]_vars => NoTotalLost'
<1> SUFFICES ASSUME EntryInv, NoTotalLost, [Next]_vars PROVE NoTotalLost'
  OBVIOUS
<1>0. /\ Root \in Dirs /\ pc \in [Dirs -> DirStates] /\ fpc \in [Files -> FileStates]
      /\ todo \in [Dirs -> SUBSET (Files \cup Dirs)]
      /\ Files \cap Dirs = {}
  BY TreeAssumption, FilesAssumption DEF EntryInv, TypeOK, DirStates, FileStates
<1>01. totalMatches \in [Dirs -> Int] /\ pipe \in [Dirs -> Seq(Nat \cup {ERROR})]
      /\ total \in [Files -> Nat \cup {ERROR}] /\ fileDir \in [Files -> Dirs]
  BY FilesAssumption DEF EntryInv, TypeOK
\* Steps that leave the pipes and the written totals alone.
<1>a. ASSUME pipe' = pipe, skipped \subseteq skipped',
             \A e \in Dirs \ skipped' : totalMatches'[e] = totalMatches[e],
             \A f \in Files : /\ fpc'[f] \in {"close", "exit", "exited", "reaped"}
                                  <=> fpc[f] \in {"close", "exit", "exited", "reaped"}
                              /\ fpc[f] \in {"close", "exit", "exited", "reaped"}
                                  => total'[f] = total[f]
      PROVE  NoTotalLost'
  <2> SUFFICES ASSUME NEW e \in Dirs, e \notin skipped' PROVE Balanced(e)'
    BY DEF NoTotalLost, Balanced
  <2>1. Written(e)' = Written(e) /\ \A f \in Written(e) : total'[f] = total[f]
    BY <1>a DEF Written, FilesOf
  <2> QED
    BY <1>a, <2>1, LostSame
<1>1. CASE CountLines
  BY <1>1, <1>0, <1>01, <1>a, EntryOfOne
  DEF EntryInv, ScanInv, CountLines
<1>2. ASSUME NEW d \in Dirs, Explore(d) PROVE NoTotalLost'
  BY <1>2, <1>0, <1>01, <1>a, EntryOfOne
  DEF EntryInv, ScanInv, Explore
<1>3. ASSUME NEW d \in Dirs, ExploreFails(d) PROVE NoTotalLost'
  BY <1>3, <1>0, <1>01, <1>a, EntryOfOne
  DEF EntryInv, ScanInv, ExploreFails, Return
<1>4. ASSUME NEW d \in Dirs, NEW f \in Files, ForkFile(d, f) PROVE NoTotalLost'
  BY <1>4, <1>0, <1>01, <1>a, EntryOfOne
  DEF EntryInv, ScanInv, ForkFile
<1>5. ASSUME NEW d \in Dirs, NEW c \in Dirs, ForkDir(d, c) PROVE NoTotalLost'
  BY <1>5, <1>0, <1>01, <1>a, EntryOfOne
  DEF EntryInv, ScanInv, ForkDir
<1>6. ASSUME NEW d \in Dirs, NEW e \in Files \cup Dirs, ForkFails(d, e) PROVE NoTotalLost'
  BY <1>6, <1>0, <1>01, <1>a, EntryOfOne
  DEF EntryInv, ScanInv, ForkFails
<1>7. ASSUME NEW d \in Dirs, ScanDone(d) PROVE NoTotalLost'
  BY <1>7, <1>0, <1>01, <1>a, EntryOfOne
  DEF EntryInv, ScanInv, ScanDone
<1>8. ASSUME NEW d \in Dirs, Wait(d) PROVE NoTotalLost'
  BY <1>8, <1>0, <1>01, <1>a, EntryOfOne
  DEF EntryInv, ScanInv, Wait, Reap
<1>9. ASSUME NEW d \in Dirs, Read(d) PROVE NoTotalLost'
  <2> SUFFICES ASSUME NEW e \in Dirs, e \notin skipped' PROVE Balanced(e)'
    BY DEF NoTotalLost, Balanced
  <2>1. TypeOK /\ e \notin skipped
    BY <1>9 DEF EntryInv, Read
  <2>2. CASE e = d
    BY <1>9, <2>1, <2>2, ReadKeeps
  <2>3. CASE e # d
    <3>1. pipe'[e] = pipe[e] /\ totalMatches'[e] = totalMatches[e] /\ UNCHANGED <<fpc, total>>
      BY <1>9, <1>01, <2>3 DEF Read
    <3>2. Written(e)' = Written(e)
      BY <3>1 DEF Written
    <3> QED
      BY <2>1, <3>1, <3>2, LostSame
  <2> QED
    BY <2>2, <2>3
<1>10. ASSUME NEW d \in Dirs, ReadEnd(d) PROVE NoTotalLost'
  BY <1>10, <1>0, <1>01, <1>a, EntryOfOne
  DEF EntryInv, ScanInv, ReadEnd
<1>11. ASSUME NEW d \in Dirs, WaitDone(d) PROVE NoTotalLost'
  BY <1>11, <1>0, <1>01, <1>a, EntryOfOne
  DEF EntryInv, ScanInv, WaitDone, Return
<1>12. ASSUME NEW d \in Dirs, UnlinkFifo(d) PROVE NoTotalLost'
  BY <1>12, <1>0, <1>01, <1>a, EntryOfOne
  DEF EntryInv, ScanInv, UnlinkFifo
<1>13. ASSUME NEW f \in Files, Search(f) PROVE NoTotalLost'
  BY <1>13, <1>0, <1>01, <1>a, EntryOfOne
  DEF EntryInv, ScanInv, Search
<1>14. ASSUME NEW f \in Files, SearchFails(f) PROVE NoTotalLost'
  BY <1>14, <1>0, <1>01, <1>a, EntryOfOne
  DEF EntryInv, ScanInv, SearchFails
<1>15. ASSUME NEW f \in Files, Write(f) PROVE NoTotalLost'
  <2> SUFFICES ASSUME NEW e \in Dirs, e \notin skipped' PROVE Balanced(e)'
    BY DEF NoTotalLost, Balanced
  <2>1. TypeOK /\ e \notin skipped
    BY <1>15 DEF EntryInv, Write
  <2>2. CASE e = fileDir[f]
    BY <1>15, <2>1, <2>2, WriteKeeps
  <2>3. CASE e # fileDir[f]
    <3>1. pipe'[e] = pipe[e] /\ UNCHANGED <<totalMatches, total>>
      BY <1>15, <1>01, <2>3 DEF Write
    <3>2. Written(e)' = Written(e)
      BY <1>15, <1>0, <2>3 DEF Written, FilesOf, Write
    <3> QED
      BY <2>1, <3>1, <3>2, LostSame
  <2> QED
    BY <2>2, <2>3
<1>16. ASSUME NEW f \in Files, Close(f) PROVE NoTotalLost'
  BY <1>16, <1>0, <1>01, <1>a, EntryOfOne
  DEF EntryInv, ScanInv, Close
<1>17. ASSUME NEW f \in Files, Exit(f) PROVE NoTotalLost'
  BY <1>17, <1>0, <1>01, <1>a, EntryOfOne
  DEF EntryInv, ScanInv, Exit
<1>18. CASE UNCHANGED vars
  BY <1>18, <1>0, <1>01, <1>a, EntryOfOne
  DEF EntryInv, ScanInv, vars
<1> QED
  BY <1>1, <1>2, <1>3, <1>4, <1>5, <1>6, <1>7, <1>8, <1>9, <1>10, <1>11, <1>12, <1>13,
      <1>14, <1>15, <1>16, <1>17, <1>18
  DEF Next, DirStep, FileStep

\* No total is lost in a pipe or read twice, for every tree, every capacity
\* of a pipe and every order of the processes.
THEOREM NoTotalIsLost == Spec => []NoTotalLost
<1>1. Spec => [](EntryInv /\ NoTotalLost)
  <2>1. Init => EntryInv /\ NoTotalLost
    BY TypeInit, ScanInit, SkipInit, WaitInit, LostInit DEF EntryInv
  <2> QED
    BY <2>1, EntryStep, LostStep, PTL DEF Spec
<1> QED
  BY <1>1, PTL

(***************************************************************************)
(* What explorePath returns.                                               *)
(***************************************************************************)

\* A pipe holds totals only when some have been written.
FilledInv == \A d \in Dirs : pipe[d] # <<>> => Written(d) # {}

\* Every pipe is empty at first.
LEMMA FilledInit == Init => FilledInv
BY DEF Init, FilledInv

\* What has been written stays written.
LEMMA FilledStep == EntryInv /\ FilledInv /\ [Next]_vars => FilledInv'
<1> SUFFICES ASSUME EntryInv, FilledInv, [Next]_vars PROVE FilledInv'
  OBVIOUS
<1>0. /\ Root \in Dirs /\ pc \in [Dirs -> DirStates] /\ fpc \in [Files -> FileStates]
      /\ todo \in [Dirs -> SUBSET (Files \cup Dirs)]
      /\ Files \cap Dirs = {}
  BY TreeAssumption, FilesAssumption DEF EntryInv, TypeOK, DirStates, FileStates
<1>01. /\ pipe \in [Dirs -> Seq(Nat \cup {ERROR})] /\ fileDir \in [Files -> Dirs]
  BY FilesAssumption DEF EntryInv, TypeOK
<1>a. ASSUME \A f \in Files : fpc[f] \in {"close", "exit", "exited", "reaped"}
                                => fpc'[f] \in {"close", "exit", "exited", "reaped"},
             \A e \in Dirs : pipe'[e] # <<>> =>
               \/ pipe[e] # <<>>
               \/ \E f \in FilesOf(e) : fpc'[f] \in {"close", "exit", "exited", "reaped"}
      PROVE  FilledInv'
  BY <1>a, EntryOfOne DEF FilledInv, Written
<1>1. CASE CountLines
  BY <1>1, <1>0, <1>01, <1>a, EntryOfOne
  DEF EntryInv, ScanInv, CountLines
<1>2. ASSUME NEW d \in Dirs, Explore(d) PROVE FilledInv'
  BY <1>2, <1>0, <1>01, <1>a, EntryOfOne
  DEF EntryInv, ScanInv, Explore
<1>3. ASSUME NEW d \in Dirs, ExploreFails(d) PROVE FilledInv'
  BY <1>3, <1>0, <1>01, <1>a, EntryOfOne
  DEF EntryInv, ScanInv, ExploreFails, Return
<1>4. ASSUME NEW d \in Dirs, NEW f \in Files, ForkFile(d, f) PROVE FilledInv'
  BY <1>4, <1>0, <1>01, <1>a, EntryOfOne
  DEF EntryInv, ScanInv, ForkFile
<1>5. ASSUME NEW d \in Dirs, NEW c \in Dirs, ForkDir(d, c) PROVE FilledInv'
  BY <1>5, <1>0, <1>01, <1>a, EntryOfOne
  DEF EntryInv, ScanInv, ForkDir
<1>6. ASSUME NEW d \in Dirs, NEW e \in Files \cup Dirs, ForkFails(d, e) PROVE FilledInv'
  BY <1>6, <1>0, <1>01, <1>a, EntryOfOne
  DEF EntryInv, ScanInv, ForkFails
<1>7. ASSUME NEW d \in Dirs, ScanDone(d) PROVE FilledInv'
  BY <1>7, <1>0, <1>01, <1>a, EntryOfOne
  DEF EntryInv, ScanInv, ScanDone
<1>8. ASSUME NEW d \in Dirs, Wait(d) PROVE FilledInv'
  BY <1>8, <1>0, <1>01, <1>a, EntryOfOne
  DEF EntryInv, ScanInv, Wait, Reap
<1>9. ASSUME NEW d \in Dirs, Read(d) PROVE FilledInv'
  <2>1. \A e \in Dirs : pipe'[e] # <<>> => pipe[e] # <<>>
    BY <1>9, <1>01 DEF Read
  <2>2. fpc' = fpc
    BY <1>9 DEF Read
  <2> QED
    BY <1>a, <2>1, <2>2
<1>10. ASSUME NEW d \in Dirs, ReadEnd(d) PROVE FilledInv'
  BY <1>10, <1>0, <1>01, <1>a, EntryOfOne
  DEF EntryInv, ScanInv, ReadEnd
<1>11. ASSUME NEW d \in Dirs, WaitDone(d) PROVE FilledInv'
  BY <1>11, <1>0, <1>01, <1>a, EntryOfOne
  DEF EntryInv, ScanInv, WaitDone, Return
<1>12. ASSUME NEW d \in Dirs, UnlinkFifo(d) PROVE FilledInv'
  BY <1>12, <1>0, <1>01, <1>a, EntryOfOne
  DEF EntryInv, ScanInv, UnlinkFifo
<1>13. ASSUME NEW f \in Files, Search(f) PROVE FilledInv'
  BY <1>13, <1>0, <1>01, <1>a, EntryOfOne
  DEF EntryInv, ScanInv, Search
<1>14. ASSUME NEW f \in Files, SearchFails(f) PROVE FilledInv'
  BY <1>14, <1>0, <1>01, <1>a, EntryOfOne
  DEF EntryInv, ScanInv, SearchFails
<1>15. ASSUME NEW f \in Files, Write(f) PROVE FilledInv'
  <2>1. f \in FilesOf(fileDir[f]) /\ fpc' = [fpc EXCEPT ![f] = "close"]
    BY <1>15 DEF FilesOf, Write
  <2>2. \A e \in Dirs : e # fileDir[f] => pipe'[e] = pipe[e]
    BY <1>15, <1>01 DEF Write
  <2> QED
    BY <1>0, <1>a, <2>1, <2>2
<1>16. ASSUME NEW f \in Files, Close(f) PROVE FilledInv'
  BY <1>16, <1>0, <1>01, <1>a, EntryOfOne
  DEF EntryInv, ScanInv, Close
<1>17. ASSUME NEW f \in Files, Exit(f) PROVE FilledInv'
  BY <1>17, <1>0, <1>01, <1>a, EntryOfOne
  DEF EntryInv, ScanInv, Exit
<1>18. CASE UNCHANGED vars
  BY <1>18, <1>0, <1>01, <1>a, EntryOfOne
  DEF EntryInv, ScanInv, vars
<1> QED
  BY <1>1, <1>2, <1>3, <1>4, <1>5, <1>6, <1>7, <1>8, <1>9, <1>10, <1>11, <1>12, <1>13,
      <1>14, <1>15, <1>16, <1>17, <1>18
  DEF Next, DirStep, FileStep

NoneReaped(d) ==
  (\A c \in Subdirs(d) : pc[c] # "reaped") /\ (\A f \in FilesOf(d) : fpc[f] # "reaped")

\* After the first child that is waited for, the pipe is read to its end,
\* and its end is seen only when no file's process can write to it any more.
PipeInv ==
  \A d \in Dirs :
    /\ pc[d] \in {"absent", "explore", "scan"} => NoneReaped(d)
    /\ pc[d] = "wait" =>
         \/ NoneReaped(d)
         \/ pipe[d] = <<>> /\ \A f \in FilesOf(d) : fpc[f] \notin {"search", "write"}
    /\ pc[d] \in Done => pipe[d] = <<>>

\* Nothing is in a pipe at first.
LEMMA PipeInit == Init => PipeInv
BY TreeAssumption, EntryOfOne DEF Init, PipeInv, NoneReaped, Done

\* The last wait() comes after the end of the pipe.
LEMMA PipeStep == EntryInv /\ FilledInv /\ PipeInv /\ [Next]_vars => PipeInv'
<1> SUFFICES ASSUME EntryInv, FilledInv, PipeInv, [Next]_vars PROVE PipeInv'
  OBVIOUS
<1>0. /\ Root \in Dirs /\ pc \in [Dirs -> DirStates] /\ fpc \in [Files -> FileStates]
      /\ todo \in [Dirs -> SUBSET (Files \cup Dirs)]
      /\ Files \cap Dirs = {}
  BY TreeAssumption, FilesAssumption DEF EntryInv, TypeOK, DirStates, FileStates
<1>01. /\ pipe \in [Dirs -> Seq(Nat \cup {ERROR})] /\ fileDir \in [Files -> Dirs]
  BY FilesAssumption DEF EntryInv, TypeOK
<1>1. CASE CountLines
  BY <1>1, <1>0, <1>01, EntryOfOne
  DEF EntryInv, ScanInv, WaitInv, PipeInv, NoneReaped, Unread, Done, CountLines
<1>2. ASSUME NEW d \in Dirs, Explore(d) PROVE PipeInv'
  BY <1>2, <1>0, <1>01, EntryOfOne
  DEF EntryInv, ScanInv, WaitInv, PipeInv, NoneReaped, Unread, Done, Explore
<1>3. ASSUME NEW d \in Dirs, ExploreFails(d) PROVE PipeInv'
  <2>1. \A f \in FilesOf(d) : fpc[f] = "absent"
    BY <1>3 DEF EntryInv, ScanInv, Unread, ExploreFails
  <2>2. pipe[d] = <<>>
    BY <2>1 DEF FilledInv, Written
  <2> QED
    BY <1>3, <1>0, <2>2, EntryOfOne DEF PipeInv, NoneReaped, Done, ExploreFails, Return
<1>4. ASSUME NEW d \in Dirs, NEW f \in Files, ForkFile(d, f) PROVE PipeInv'
  BY <1>4, <1>0, <1>01, EntryOfOne
  DEF EntryInv, ScanInv, WaitInv, PipeInv, NoneReaped, Unread, Done, ForkFile
<1>5. ASSUME NEW d \in Dirs, NEW c \in Dirs, ForkDir(d, c) PROVE PipeInv'
  BY <1>5, <1>0, <1>01, EntryOfOne
  DEF EntryInv, ScanInv, WaitInv, PipeInv, NoneReaped, Unread, Done, ForkDir
<1>6. ASSUME NEW d \in Dirs, NEW e \in Files \cup Dirs, ForkFails(d, e) PROVE PipeInv'
  BY <1>6, <1>0, <1>01, EntryOfOne
  DEF EntryInv, ScanInv, WaitInv, PipeInv, NoneReaped, Unread, Done, ForkFails
<1>7. ASSUME NEW d \in Dirs, ScanDone(d) PROVE PipeInv'
  BY <1>7, <1>0, <1>01, EntryOfOne
  DEF EntryInv, ScanInv, WaitInv, PipeInv, NoneReaped, Unread, Done, ScanDone
<1>8. ASSUME NEW d \in Dirs, Wait(d) PROVE PipeInv'
  <2>1. /\ pc[d] = "wait" /\ pc'[d] = "read" /\ pipe' = pipe
        /\ \A e \in Dirs \ {d} : pc'[e] # pc[e] => pc[e] = "exited" /\ pc'[e] = "reaped"
    BY <1>8, <1>0, EntryOfOne DEF Wait, Reap
  <2>2. \A f \in Files : fpc'[f] # fpc[f] => fpc'[f] = "reaped"
    BY <1>8, <1>0, EntryOfOne DEF Wait, Reap
  <2>3. \A e \in Dirs \ {d} : NoneReaped(e) => NoneReaped(e)'
    BY <1>8, <1>0, EntryOfOne DEF NoneReaped, Wait, Reap
  <2>4. \A e \in Dirs : \A f \in FilesOf(e) :
          fpc[f] \notin {"search", "write"} => fpc'[f] \notin {"search", "write"}
    BY <2>2, EntryOfOne
  <2> QED
    BY <1>0, <2>1, <2>3, <2>4 DEF PipeInv, Done
<1>9. ASSUME NEW d \in Dirs, Read(d) PROVE PipeInv'
  BY <1>9, <1>0, <1>01, EntryOfOne
  DEF EntryInv, ScanInv, WaitInv, PipeInv, NoneReaped, Unread, Done, Read
<1>10. ASSUME NEW d \in Dirs, ReadEnd(d) PROVE PipeInv'
  <2>1. \A f \in FilesOf(d) : fpc[f] \notin {"search", "write"}
    BY <1>10 DEF ReadEnd, HasWriter
  <2> QED
    BY <1>10, <1>0, <2>1, EntryOfOne DEF PipeInv, NoneReaped, Done, ReadEnd
<1>11. ASSUME NEW d \in Dirs, WaitDone(d) PROVE PipeInv'
  <2>1. pipe[d] = <<>>
    <3>1. ASSUME pipe[d] # <<>>, NoneReaped(d) PROVE FALSE
      <4>1. PICK f \in FilesOf(d) : fpc[f] \in {"close", "exit", "exited", "reaped"}
        BY <3>1 DEF FilledInv, Written
      <4> QED
        BY <1>11, <3>1, <4>1 DEF NoneReaped, WaitDone, Children, LiveFile
    <3> QED
      BY <1>11, <3>1 DEF PipeInv, WaitDone
  <2>2. pc' = [pc EXCEPT ![d] = pc'[d]] /\ pc'[d] \in Done /\ UNCHANGED <<fpc, pipe>>
    BY <1>11, <1>0 DEF WaitDone, Return, Done
  <2>3. \A e \in Dirs : NoneReaped(e) => NoneReaped(e)'
    BY <1>11, <1>0, EntryOfOne DEF NoneReaped, WaitDone, Return
  <2> QED
    BY <1>0, <2>1, <2>2, <2>3 DEF PipeInv, Done
<1>12. ASSUME NEW d \in Dirs, UnlinkFifo(d) PROVE PipeInv'
  BY <1>12, <1>0, <1>01, EntryOfOne
  DEF EntryInv, ScanInv, WaitInv, PipeInv, NoneReaped, Unread, Done, UnlinkFifo
<1>13. ASSUME NEW f \in Files, Search(f) PROVE PipeInv'
  BY <1>13, <1>0, <1>01, EntryOfOne
  DEF EntryInv, ScanInv, WaitInv, PipeInv, NoneReaped, Unread, Done, Search
<1>14. ASSUME NEW f \in Files, SearchFails(f) PROVE PipeInv'
  BY <1>14, <1>0, <1>01, EntryOfOne
  DEF EntryInv, ScanInv, WaitInv, PipeInv, NoneReaped, Unread, Done, SearchFails
<1>15. ASSUME NEW f \in Files, Write(f) PROVE PipeInv'
  <2>1. fpc[f] = "write" /\ f \in FilesOf(fileDir[f]) /\ fileDir[f] \in Dirs
    BY <1>15, <1>01 DEF Write, FilesOf
  <2>2. pc[fileDir[f]] \notin Done
    BY <2>1 DEF EntryInv, WaitInv
  <2>3. \A e \in Dirs : NoneReaped(e) => NoneReaped(e)'
    BY <1>15, <1>0, EntryOfOne DEF NoneReaped, Write
  <2>4. pc' = pc /\ \A e \in Dirs : e # fileDir[f] => pipe'[e] = pipe[e]
    BY <1>15, <1>01 DEF Write
  <2>5. \A g \in Files :
          fpc[g] \notin {"search", "write"} => fpc'[g] \notin {"search", "write"}
    BY <1>15, <1>0 DEF Write
  <2> QED
    BY <2>1, <2>2, <2>3, <2>4, <2>5, EntryOfOne DEF PipeInv
<1>16. ASSUME NEW f \in Files, Close(f) PROVE PipeInv'
  BY <1>16, <1>0, <1>01, EntryOfOne
  DEF EntryInv, ScanInv, WaitInv, PipeInv, NoneReaped, Unread, Done, Close
<1>17. ASSUME NEW f \in Files, Exit(f) PROVE PipeInv'
  BY <1>17, <1>0, <1>01, EntryOfOne
  DEF EntryInv, ScanInv, WaitInv, PipeInv, NoneReaped, Unread, Done, Exit
<1>18. CASE UNCHANGED vars
  BY <1>18, <1>0, <1>01, EntryOfOne
  DEF EntryInv, ScanInv, WaitInv, PipeInv, NoneReaped, Unread, Done, vars
<1> QED
  BY <1>1, <1>2, <1>3, <1>4, <1>5, <1>6, <1>7, <1>8, <1>9, <1>10, <1>11, <1>12, <1>13,
      <1>14, <1>15, <1>16, <1>17, <1>18
  DEF Next, DirStep, FileStep

\* When explorePath returns it has the total of every file it forked for,
\* for every tree: it neither misses nor repeats one.
THEOREM ReturnsTheTotal == Spec => []ReturnsTotal
<1>1. EntryInv /\ NoTotalLost /\ PipeInv => ReturnsTotal
  <2> SUFFICES ASSUME EntryInv, NoTotalLost, PipeInv, NEW d \in Dirs \ skipped, pc[d] \in Done
               PROVE  totalMatches[d] = SumOver(FilesOf(d) \ skipped, total)
    BY DEF ReturnsTotal, Done
  <2>1. Written(d) = FilesOf(d) \ skipped
    <3>1. ASSUME NEW f \in FilesOf(d), f \notin skipped PROVE f \in Written(d)
      BY <3>1, EntryOfOne DEF EntryInv, ScanInv, ForkInv, WaitInv, Written, Unread, Done
    <3>2. ASSUME NEW f \in Written(d) PROVE f \in FilesOf(d) /\ f \notin skipped
      BY <3>2, EntryOfOne DEF EntryInv, SkipInv, Written
    <3> QED
      BY <3>1, <3>2
  <2>2. pipe[d] = <<>>
    BY DEF PipeInv
  <2>3. SumOver(DOMAIN pipe[d], pipe[d]) = 0
    BY <2>2, SumOfNone
  <2>4. totalMatches[d] + 0 = SumOver(Written(d), total)
    BY <2>3 DEF NoTotalLost
  <2>5. totalMatches[d] \in Int
    BY DEF EntryInv, TypeOK
  <2> QED
    BY <2>1, <2>4, <2>5
<1>2. Spec => [](EntryInv /\ FilledInv /\ PipeInv)
  <2>1. Init => EntryInv /\ FilledInv /\ PipeInv
    BY TypeInit, ScanInit, SkipInit, WaitInit, FilledInit, PipeInit DEF EntryInv
  <2> QED
    BY <2>1, EntryStep, FilledStep, PipeStep, PTL DEF Spec
<1> QED
  BY <1>1, <1>2, NoTotalIsLost, PTL

(***************************************************************************)
(* The log.                                                                *)
(***************************************************************************)

\* Only main counts the lines, and then it exits.
CountInv ==
  /\ pc[Root] \notin {"absent", "unlink", "reaped"}
  /\ pc[Root] = "exited" <=> totall # NoResult
  /\ \A d \in Dirs : pc[d] = "count" => d = Root

\* main has just begun.
LEMMA CountInit == Init => CountInv
BY TreeAssumption DEF Init, CountInv

\* The root is nobody's child.
LEMMA CountStep == EntryInv /\ CountInv /\ [Next]_vars => CountInv'
<1> SUFFICES ASSUME EntryInv, CountInv, [Next]_vars PROVE CountInv'
  OBVIOUS
<1>0. /\ Root \in Dirs /\ pc \in [Dirs -> DirStates] /\ fpc \in [Files -> FileStates]
      /\ todo \in [Dirs -> SUBSET (Files \cup Dirs)]
      /\ Files \cap Dirs = {}
  BY TreeAssumption, FilesAssumption DEF EntryInv, TypeOK, DirStates, FileStates
<1>01. lines \in Nat /\ NoResult \notin Nat
  BY PipeAssumption DEF EntryInv, TypeOK
<1>1. CASE CountLines
  BY <1>1, <1>0, <1>01, EntryOfOne
  DEF EntryInv, ScanInv, CountInv, CountLines
<1>2. ASSUME NEW d \in Dirs, Explore(d) PROVE CountInv'
  BY <1>2, <1>0, <1>01, EntryOfOne
  DEF EntryInv, ScanInv, CountInv, Explore
<1>3. ASSUME NEW d \in Dirs, ExploreFails(d) PROVE CountInv'
  BY <1>3, <1>0, <1>01, EntryOfOne
  DEF EntryInv, ScanInv, CountInv, ExploreFails, Return
<1>4. ASSUME NEW d \in Dirs, NEW f \in Files, ForkFile(d, f) PROVE CountInv'
  BY <1>4, <1>0, <1>01, EntryOfOne
  DEF EntryInv, ScanInv, CountInv, ForkFile
<1>5. ASSUME NEW d \in Dirs, NEW c \in Dirs, ForkDir(d, c) PROVE CountInv'
  BY <1>5, <1>0, <1>01, EntryOfOne
  DEF EntryInv, ScanInv, CountInv, ForkDir
<1>6. ASSUME NEW d \in Dirs, NEW e \in Files \cup Dirs, ForkFails(d, e) PROVE CountInv'
  BY <1>6, <1>0, <1>01, EntryOfOne
  DEF EntryInv, ScanInv, CountInv, ForkFails
<1>7. ASSUME NEW d \in Dirs, ScanDone(d) PROVE CountInv'
  BY <1>7, <1>0, <1>01, EntryOfOne
  DEF EntryInv, ScanInv, CountInv, ScanDone
<1>8. ASSUME NEW d \in Dirs, Wait(d) PROVE CountInv'
  BY <1>8, <1>0, <1>01, EntryOfOne
  DEF EntryInv, ScanInv, CountInv, Wait, Reap
<1>9. ASSUME NEW d \in Dirs, Read(d) PROVE CountInv'
  BY <1>9, <1>0, <1>01, EntryOfOne
  DEF EntryInv, ScanInv, CountInv, Read
<1>10. ASSUME NEW d \in Dirs, ReadEnd(d) PROVE CountInv'
  BY <1>10, <1>0, <1>01, EntryOfOne
  DEF EntryInv, ScanInv, CountInv, ReadEnd
<1>11. ASSUME NEW d \in Dirs, WaitDone(d) PROVE CountInv'
  BY <1>11, <1>0, <1>01, EntryOfOne
  DEF EntryInv, ScanInv, CountInv, WaitDone, Return
<1>12. ASSUME NEW d \in Dirs, UnlinkFifo(d) PROVE CountInv'
  BY <1>12, <1>0, <1>01, EntryOfOne
  DEF EntryInv, ScanInv, CountInv, UnlinkFifo
<1>13. ASSUME NEW f \in Files, Search(f) PROVE CountInv'
  BY <1>13, <1>0, <1>01, EntryOfOne
  DEF EntryInv, ScanInv, CountInv, Search
<1>14. ASSUME NEW f \in Files, SearchFails(f) PROVE CountInv'
  BY <1>14, <1>0, <1>01, EntryOfOne
  DEF EntryInv, ScanInv, CountInv, SearchFails
<1>15. ASSUME NEW f \in Files, Write(f) PROVE CountInv'
  BY <1>15, <1>0, <1>01, EntryOfOne
  DEF EntryInv, ScanInv, CountInv, Write
<1>16. ASSUME NEW f \in Files, Close(f) PROVE CountInv'
  BY <1>16, <1>0, <1>01, EntryOfOne
  DEF EntryInv, ScanInv, CountInv, Close
<1>17. ASSUME NEW f \in Files, Exit(f) PROVE CountInv'
  BY <1>17, <1>0, <1>01, EntryOfOne
  DEF EntryInv, ScanInv, CountInv, Exit
<1>18. CASE UNCHANGED vars
  BY <1>18, <1>0, <1>01, EntryOfOne
  DEF EntryInv, ScanInv, CountInv, vars
<1> QED
  BY <1>1, <1>2, <1>3, <1>4, <1>5, <1>6, <1>7, <1>8, <1>9, <1>10, <1>11, <1>12, <1>13,
      <1>14, <1>15, <1>16, <1>17, <1>18
  DEF Next, DirStep, FileStep

Found == {f \in Files : total[f] > 0}

\* Until main counts them, the lines are the matches of the files searched so
\* far.
LinesInv ==
  /\ \A f \in Files : fpc[f] \in {"absent", "search"} => total[f] = 0
  /\ SumOver(Found, total) = IF totall = NoResult THEN lines ELSE totall

\* Nothing is searched at first.
LEMMA LinesInit == Init => LinesInv
<1> SUFFICES ASSUME Init PROVE LinesInv
  OBVIOUS
<1>1. Found = {}
  BY DEF Init, Found
<1> QED
  BY <1>1, SumOfNone DEF Init, LinesInv

\* A search that finds something adds its matches to the lines.
LEMMA SearchAdds ==
  ASSUME TypeOK, LinesInv, totall = NoResult, NEW f \in Files, Search(f)
  PROVE  SumOver(Found', total') = lines'
<1>0. /\ total \in [Files -> Totals] /\ lines \in Nat /\ matches[f] \in Nat
      /\ total' = [total EXCEPT ![f] = matches[f]] /\ lines' = lines + matches[f]
      /\ total[f] = 0 /\ SumOver(Found, total) = lines
  BY FilesAssumption DEF TypeOK, LinesInv, Search, Totals
<1>1. f \notin Found /\ Found \subseteq Files /\ \A g \in Found : total'[g] = total[g]
  BY <1>0 DEF Found
<1>2. IsFiniteSet(Found)
  BY <1>1, FilesAssumption, FS_Subset
<1>3. SumOver(Found, total') = lines
  BY <1>0, <1>1, SumSame
<1>4. CASE matches[f] = 0
  <2>1. Found' = Found
    BY <1>0, <1>4 DEF Found
  <2> QED
    BY <1>0, <1>3, <1>4, <2>1
<1>5. CASE matches[f] > 0
  <2>1. Found' = Found \cup {f}
    BY <1>0, <1>5 DEF Found
  <2>2. \A g \in Found \cup {f} : total'[g] \in Totals
    BY <1>0, <1>1 DEF Totals
  <2>3. SumOver(Found \cup {f}, total') = SumOver(Found, total') + total'[f]
    BY <1>1, <1>2, <2>2, SumAdds
  <2>4. total'[f] = matches[f]
    BY <1>0
  <2> QED
    BY <1>0, <1>3, <2>1, <2>3, <2>4
<1> QED
  BY <1>0, <1>4, <1>5

\* When main has counted, nobody searches any more.
LEMMA LinesStep == EntryInv /\ CountInv /\ LinesInv /\ [Next]_vars => LinesInv'
<1> SUFFICES ASSUME EntryInv, CountInv, LinesInv, [Next]_vars PROVE LinesInv'
  OBVIOUS
<1>0. /\ Root \in Dirs /\ pc \in [Dirs -> DirStates] /\ fpc \in [Files -> FileStates]
      /\ todo \in [Dirs -> SUBSET (Files \cup Dirs)]
      /\ Files \cap Dirs = {}
  BY TreeAssumption, FilesAssumption DEF EntryInv, TypeOK, DirStates, FileStates
<1>01. /\ lines \in Nat /\ NoResult \notin Nat /\ total \in [Files -> Nat \cup {ERROR}]
  BY PipeAssumption DEF EntryInv, TypeOK
\* Steps that leave the lines and the totals alone.
<1>a. ASSUME UNCHANGED <<lines, totall, total>>,
             \A f \in Files : fpc'[f] \in {"absent", "search"}
                                => fpc[f] \in {"absent", "search"}
      PROVE  LinesInv'
  <2>1. Found' = Found
    BY <1>a DEF Found
  <2> QED
    BY <1>a, <2>1 DEF LinesInv
<1>1. CASE CountLines
  <2>1. Found' = Found /\ total' = total /\ fpc' = fpc
    BY <1>1 DEF Found, CountLines
  <2>2. totall = NoResult /\ totall' = lines
    BY <1>1 DEF CountInv, CountLines
  <2> QED
    BY <1>01, <2>1, <2>2 DEF LinesInv
<1>2. ASSUME NEW d \in Dirs, Explore(d) PROVE LinesInv'
  BY <1>2, <1>0, <1>a, EntryOfOne
  DEF EntryInv, ScanInv, Explore
<1>3. ASSUME NEW d \in Dirs, ExploreFails(d) PROVE LinesInv'
  BY <1>3, <1>0, <1>a, EntryOfOne
  DEF EntryInv, ScanInv, ExploreFails, Return
<1>4. ASSUME NEW d \in Dirs, NEW f \in Files, ForkFile(d, f) PROVE LinesInv'
  BY <1>4, <1>0, <1>a, EntryOfOne
  DEF EntryInv, ScanInv, ForkFile
<1>5. ASSUME NEW d \in Dirs, NEW c \in Dirs, ForkDir(d, c) PROVE LinesInv'
  BY <1>5, <1>0, <1>a, EntryOfOne
  DEF EntryInv, ScanInv, ForkDir
<1>6. ASSUME NEW d \in Dirs, NEW e \in Files \cup Dirs, ForkFails(d, e) PROVE LinesInv'
  BY <1>6, <1>0, <1>a, EntryOfOne
  DEF EntryInv, ScanInv, ForkFails
<1>7. ASSUME NEW d \in Dirs, ScanDone(d) PROVE LinesInv'
  BY <1>7, <1>0, <1>a, EntryOfOne
  DEF EntryInv, ScanInv, ScanDone
<1>8. ASSUME NEW d \in Dirs, Wait(d) PROVE LinesInv'
  BY <1>8, <1>0, <1>a, EntryOfOne
  DEF EntryInv, ScanInv, Wait, Reap
<1>9. ASSUME NEW d \in Dirs, Read(d) PROVE LinesInv'
  BY <1>9, <1>0, <1>a, EntryOfOne
  DEF EntryInv, ScanInv, Read
<1>10. ASSUME NEW d \in Dirs, ReadEnd(d) PROVE LinesInv'
  BY <1>10, <1>0, <1>a, EntryOfOne
  DEF EntryInv, ScanInv, ReadEnd
<1>11. ASSUME NEW d \in Dirs, WaitDone(d) PROVE LinesInv'
  BY <1>11, <1>0, <1>a, EntryOfOne
  DEF EntryInv, ScanInv, WaitDone, Return
<1>12. ASSUME NEW d \in Dirs, UnlinkFifo(d) PROVE LinesInv'
  BY <1>12, <1>0, <1>a, EntryOfOne
  DEF EntryInv, ScanInv, UnlinkFifo
<1>13. ASSUME NEW f \in Files, Search(f) PROVE LinesInv'
  <2>1. totall = NoResult /\ totall' = totall
    BY <1>13, NobodyLeft DEF CountInv, Done, Search
  <2>2. SumOver(Found', total') = lines'
    BY <1>13, <2>1, SearchAdds DEF EntryInv
  <2>3. \A g \in Files : fpc'[g] \in {"absent", "search"} => total'[g] = 0
    BY <1>13, <1>0, <1>01 DEF LinesInv, Search
  <2> QED
    BY <2>1, <2>2, <2>3 DEF LinesInv
<1>14. ASSUME NEW f \in Files, SearchFails(f) PROVE LinesInv'
  <2>1. UNCHANGED <<lines, totall>> /\ total' = [total EXCEPT ![f] = ERROR] /\ total[f] = 0
    BY <1>14 DEF LinesInv, SearchFails
  <2>2. Found' = Found /\ \A g \in Found : total'[g] = total[g]
    BY <2>1, <1>01 DEF Found, ERROR
  <2>3. SumOver(Found', total') = SumOver(Found, total)
    BY <2>2, SumSame
  <2>4. \A g \in Files : fpc'[g] \in {"absent", "search"} => total'[g] = 0
    BY <1>14, <1>0, <1>01 DEF LinesInv, SearchFails
  <2> QED
    BY <2>1, <2>3, <2>4 DEF LinesInv
<1>15. ASSUME NEW f \in Files, Write(f) PROVE LinesInv'
  BY <1>15, <1>0, <1>a, EntryOfOne
  DEF EntryInv, ScanInv, Write
<1>16. ASSUME NEW f \in Files, Close(f) PROVE LinesInv'
  BY <1>16, <1>0, <1>a, EntryOfOne
  DEF EntryInv, ScanInv, Close
<1>17. ASSUME NEW f \in Files, Exit(f) PROVE LinesInv'
  BY <1>17, <1>0, <1>a, EntryOfOne
  DEF EntryInv, ScanInv, Exit
<1>18. CASE UNCHANGED vars
  BY <1>18, <1>0, <1>a, EntryOfOne
  DEF EntryInv, ScanInv, vars
<1> QED
  BY <1>1, <1>2, <1>3, <1>4, <1>5, <1>6, <1>7, <1>8, <1>9, <1>10, <1>11, <1>12, <1>13,
      <1>14, <1>15, <1>16, <1>17, <1>18
  DEF Next, DirStep, FileStep

\* Both hold in every reachable state.
LEMMA LinesInvariant == Spec => [](EntryInv /\ CountInv /\ LinesInv)
<1>1. Init => EntryInv /\ CountInv /\ LinesInv
  BY TypeInit, ScanInit, SkipInit, WaitInit, CountInit, LinesInit DEF EntryInv
<1> QED
  BY <1>1, EntryStep, CountStep, LinesStep, PTL DEF Spec

\* What main counts are the matches of all the files it could reach, and
\* nobody writes to the log any more, for every tree.
THEOREM CountIsExact == Spec => []LinesExact
<1>1. EntryInv /\ CountInv /\ LinesInv => LinesExact
  <2> SUFFICES ASSUME EntryInv, CountInv, LinesInv, totall # NoResult
               PROVE  /\ \A f \in Files : fpc[f] = "reaped" \/ Unreachable(f)
                      /\ totall = SumOver(Found, total)
    BY DEF LinesExact, Found
  <2>1. pc[Root] \in Done
    BY DEF CountInv, Done
  <2>2. \A f \in Files : fpc[f] = "reaped" \/ Unreachable(f)
    BY <2>1, AllSearched
  <2> QED
    BY <2>2 DEF LinesInv
<1> QED
  BY <1>1, LinesInvariant, PTL

(***************************************************************************)
(* The FIFO.                                                               *)
(***************************************************************************)

\* While the name exists after a process was forked, there is a child that
\* has not unlinked it yet.
FifoInv ==
  skipped = {} /\ fifo =>
    \/ \E c \in Dirs \ {Root} : LiveDir(c)
    \/ \A c \in Dirs \ {Root} : pc[c] = "absent"

\* A name that an earlier run has left was there before any child.
LEMMA FifoInit == Init => FifoInv
BY DEF Init, FifoInv

\* A child is alive from the mkfifo before its fork to an unlink after it.
LEMMA FifoStep == EntryInv /\ CountInv /\ FifoInv /\ [Next]_vars => FifoInv'
<1> SUFFICES ASSUME EntryInv, CountInv, FifoInv, [Next]_vars PROVE FifoInv'
  OBVIOUS
<1>0. /\ Root \in Dirs /\ pc \in [Dirs -> DirStates] /\ fpc \in [Files -> FileStates]
      /\ todo \in [Dirs -> SUBSET (Files \cup Dirs)]
      /\ Files \cap Dirs = {}
  BY TreeAssumption, FilesAssumption DEF EntryInv, TypeOK, DirStates, FileStates
<1>1. CASE CountLines
  <2>1. \A c \in Dirs \ {Root} : pc'[c] = pc[c]
    BY <1>1, <1>0 DEF CountLines
  <2> QED
    BY <1>1, <2>1 DEF FifoInv, LiveDir, CountLines
<1>2. ASSUME NEW d \in Dirs, Explore(d) PROVE FifoInv'
  BY <1>2, <1>0, EntryOfOne
  DEF EntryInv, ScanInv, FifoInv, LiveDir, Explore
<1>3. ASSUME NEW d \in Dirs, ExploreFails(d) PROVE FifoInv'
  BY <1>3, <1>0, EntryOfOne
  DEF EntryInv, ScanInv, FifoInv, LiveDir, ExploreFails, Return
<1>4. ASSUME NEW d \in Dirs, NEW f \in Files, ForkFile(d, f) PROVE FifoInv'
  BY <1>4, <1>0, EntryOfOne
  DEF EntryInv, ScanInv, FifoInv, LiveDir, ForkFile
<1>5. ASSUME NEW d \in Dirs, NEW c \in Dirs, ForkDir(d, c) PROVE FifoInv'
  BY <1>5, <1>0, EntryOfOne
  DEF EntryInv, ScanInv, FifoInv, LiveDir, ForkDir
<1>6. ASSUME NEW d \in Dirs, NEW e \in Files \cup Dirs, ForkFails(d, e) PROVE FifoInv'
  BY <1>6, <1>0, EntryOfOne
  DEF EntryInv, ScanInv, FifoInv, LiveDir, ForkFails
<1>7. ASSUME NEW d \in Dirs, ScanDone(d) PROVE FifoInv'
  BY <1>7, <1>0, EntryOfOne
  DEF EntryInv, ScanInv, FifoInv, LiveDir, ScanDone
<1>8. ASSUME NEW d \in Dirs, Wait(d) PROVE FifoInv'
  BY <1>8, <1>0, EntryOfOne
  DEF EntryInv, ScanInv, FifoInv, LiveDir, Wait, Reap
<1>9. ASSUME NEW d \in Dirs, Read(d) PROVE FifoInv'
  BY <1>9, <1>0, EntryOfOne
  DEF EntryInv, ScanInv, FifoInv, LiveDir, Read
<1>10. ASSUME NEW d \in Dirs, ReadEnd(d) PROVE FifoInv'
  BY <1>10, <1>0, EntryOfOne
  DEF EntryInv, ScanInv, FifoInv, LiveDir, ReadEnd
<1>11. ASSUME NEW d \in Dirs, WaitDone(d) PROVE FifoInv'
  BY <1>11, <1>0, EntryOfOne
  DEF EntryInv, ScanInv, FifoInv, LiveDir, WaitDone, Return
<1>12. ASSUME NEW d \in Dirs, UnlinkFifo(d) PROVE FifoInv'
  BY <1>12, <1>0, EntryOfOne
  DEF EntryInv, ScanInv, FifoInv, LiveDir, UnlinkFifo
<1>13. ASSUME NEW f \in Files, Search(f) PROVE FifoInv'
  BY <1>13, <1>0, EntryOfOne
  DEF EntryInv, ScanInv, FifoInv, LiveDir, Search
<1>14. ASSUME NEW f \in Files, SearchFails(f) PROVE FifoInv'
  BY <1>14, <1>0, EntryOfOne
  DEF EntryInv, ScanInv, FifoInv, LiveDir, SearchFails
<1>15. ASSUME NEW f \in Files, Write(f) PROVE FifoInv'
  BY <1>15, <1>0, EntryOfOne
  DEF EntryInv, ScanInv, FifoInv, LiveDir, Write
<1>16. ASSUME NEW f \in Files, Close(f) PROVE FifoInv'
  BY <1>16, <1>0, EntryOfOne
  DEF EntryInv, ScanInv, FifoInv, LiveDir, Close
<1>17. ASSUME NEW f \in Files, Exit(f) PROVE FifoInv'
  BY <1>17, <1>0, EntryOfOne
  DEF EntryInv, ScanInv, FifoInv, LiveDir, Exit
<1>18. CASE UNCHANGED vars
  BY <1>18, <1>0, EntryOfOne
  DEF EntryInv, ScanInv, FifoInv, LiveDir, vars
<1> QED
  BY <1>1, <1>2, <1>3, <1>4, <1>5, <1>6, <1>7, <1>8, <1>9, <1>10, <1>11, <1>12, <1>13,
      <1>14, <1>15, <1>16, <1>17, <1>18
  DEF Next, DirStep, FileStep

\* When main exits after a search in which nothing failed and which had a
\* subdirectory, the FIFO is gone, for every tree and every order in which
\* the processes make it and unlink it.
THEOREM FifoIsRemoved == Spec => []FifoRemoved
<1>1. EntryInv /\ CountInv /\ FifoInv => FifoRemoved
  <2> SUFFICES ASSUME EntryInv, CountInv, FifoInv, pc[Root] = "exited", skipped = {},
                      NEW c \in Subdirs(Root)
               PROVE  ~fifo
    BY DEF FifoRemoved
  <2>1. c \in Dirs \ {Root} /\ Root \in Dirs
    BY EntryOfOne, TreeAssumption
  <2>2. pc[c] # "absent"
    BY <2>1 DEF EntryInv, ForkInv, ScanInv, Unread
  <2>3. \A e \in Dirs \ {Root} : ~LiveDir(e)
    BY NobodyLeft DEF LiveDir, Done
  <2> QED
    BY <2>1, <2>2, <2>3 DEF FifoInv
<1>2. Init => EntryInv /\ CountInv /\ FifoInv
  BY TypeInit, ScanInit, SkipInit, WaitInit, CountInit, FifoInit DEF EntryInv
<1>3. Spec => [](EntryInv /\ CountInv /\ FifoInv)
  BY <1>2, EntryStep, CountStep, FifoStep, PTL DEF Spec
<1> QED
  BY <1>1, <1>3, PTL

(***************************************************************************)
(* Nobody waits for ever.  Three calls can block: wait() until a child     *)
(* exits, read until there is a total or the last writer has gone, write   *)
(* until there is room.                                                    *)
(***************************************************************************)

\* The process of d is at a call that returns.
Ready(d) ==
  \/ pc[d] \in {"explore", "scan", "unlink"} \/ (d = Root /\ pc[d] = "count")
  \/ /\ pc[d] = "wait"
     /\ \/ \E c \in Subdirs(d) : pc[c] = "exited"
        \/ \E f \in FilesOf(d) : fpc[f] = "exited"
        \/ Children(d) = {}
  \/ pc[d] = "read" /\ (pipe[d] # <<>> \/ ~HasWriter(d))

\* And so is that of f.
ReadyFile(f) ==
  \/ fpc[f] \in {"search", "close", "exit"}
  \/ fpc[f] = "write" /\ Len(pipe[fileDir[f]]) < Capacity

SomebodyReady == (\E d \in Dirs : Ready(d)) \/ \E f \in Files : ReadyFile(f)

\* Who reads has closed its own write end.
ClosedInv == \A d \in Dirs : pc[d] = "read" => closed[d]

\* A process comes to its read loop only from the wait loop that has closed.
LEMMA ClosedStep == TypeOK /\ ClosedInv /\ [Next]_vars => ClosedInv'
<1> SUFFICES ASSUME TypeOK, ClosedInv, [Next]_vars PROVE ClosedInv'
  OBVIOUS
<1>0. /\ Root \in Dirs /\ pc \in [Dirs -> DirStates] /\ closed \in [Dirs -> BOOLEAN]
  BY TreeAssumption DEF TypeOK, DirStates
<1>1. CASE CountLines
  BY <1>0, <1>1 DEF ClosedInv, CountLines
<1>2. ASSUME NEW d \in Dirs, Explore(d) \/ ScanDone(d) \/ ReadEnd(d) \/ Read(d) \/ UnlinkFifo(d)
      PROVE  ClosedInv'
  BY <1>0, <1>2 DEF ClosedInv, Explore, ScanDone, ReadEnd, Read, UnlinkFifo
<1>3. ASSUME NEW d \in Dirs, ExploreFails(d) \/ WaitDone(d) PROVE ClosedInv'
  BY <1>0, <1>3 DEF ClosedInv, ExploreFails, WaitDone, Return
<1>4. ASSUME NEW d \in Dirs, NEW f \in Files, ForkFile(d, f) PROVE ClosedInv'
  BY <1>0, <1>4 DEF ClosedInv, ForkFile
<1>5. ASSUME NEW d \in Dirs, NEW c \in Dirs, ForkDir(d, c) PROVE ClosedInv'
  BY <1>0, <1>5 DEF ClosedInv, ForkDir
<1>6. ASSUME NEW d \in Dirs, NEW e \in Files \cup Dirs, ForkFails(d, e) PROVE ClosedInv'
  BY <1>0, <1>6 DEF ClosedInv, ForkFails
<1>7. ASSUME NEW d \in Dirs, Wait(d) PROVE ClosedInv'
  BY <1>0, <1>7, EntryOfOne DEF ClosedInv, Wait, Reap
<1>8. ASSUME NEW f \in Files, FileStep(f) PROVE ClosedInv'
  BY <1>8 DEF ClosedInv, FileStep, Search, SearchFails, Write, Close, Exit
<1>9. CASE UNCHANGED vars
  BY <1>9 DEF ClosedInv, vars
<1> QED
  BY <1>1, <1>2, <1>3, <1>4, <1>5, <1>6, <1>7, <1>8, <1>9 DEF Next, DirStep

\* A write waits only for the reader of its pipe, and a reader that has not
\* begun to read only for the process of a file that has written.
LEMMA WriterMoves ==
  ASSUME EntryInv, FilledInv, PipeInv, NEW f \in Files, LiveFile(f)
  PROVE  SomebodyReady
<1> SUFFICES ASSUME fpc[f] = "write", ~ReadyFile(f)
             PROVE  SomebodyReady
  BY DEF SomebodyReady, ReadyFile, LiveFile, EntryInv, TypeOK
<1> DEFINE d == fileDir[f]
<1>1. d \in Dirs /\ f \in FilesOf(d) /\ pc[d] \in DirStates
  BY FilesAssumption DEF FilesOf, EntryInv, TypeOK, DirStates
<1>2. pipe[d] # <<>>
  BY <1>1, PipeAssumption DEF ReadyFile, EntryInv, TypeOK
<1>3. pc[d] \notin Unread /\ pc[d] \notin Done
  BY <1>1 DEF EntryInv, ScanInv, WaitInv
<1>4. CASE pc[d] = "wait"
  <2>1. NoneReaped(d)
    BY <1>1, <1>2, <1>4 DEF PipeInv
  <2>2. PICK g \in FilesOf(d) : fpc[g] \in {"close", "exit", "exited", "reaped"}
    BY <1>1, <1>2 DEF FilledInv, Written
  <2>3. CASE fpc[g] \in {"close", "exit"}
    BY <2>3, EntryOfOne, <1>1 DEF SomebodyReady, ReadyFile
  <2>4. CASE fpc[g] = "exited"
    BY <1>1, <1>4, <2>4 DEF SomebodyReady, Ready
  <2> QED
    BY <2>1, <2>2, <2>3, <2>4 DEF NoneReaped
<1>5. CASE pc[d] \in {"scan", "read"}
  BY <1>1, <1>2, <1>5 DEF SomebodyReady, Ready
<1> QED
  BY <1>1, <1>3, <1>4, <1>5 DEF DirStates, Unread, Done

\* Until main has ended there is always a process that can go on, however
\* little a pipe holds: the processes of hw3.c never all wait for each other.
THEOREM NoDeadlock == Spec => [](pc[Root] # "exited" => SomebodyReady)
<1>1. ASSUME EntryInv, CountInv, FilledInv, PipeInv, ClosedInv, pc[Root] # "exited"
      PROVE  SomebodyReady
  <2> SUFFICES ASSUME \A f \in Files : ~LiveFile(f)
               PROVE  \E d \in Dirs : Ready(d)
    BY <1>1, WriterMoves DEF SomebodyReady
  <2> DEFINE L == {d \in Dirs : LiveDir(d)}
  <2>1. Root \in L
    BY <1>1, TreeAssumption DEF CountInv, LiveDir
  <2>2. PICK d \in L : \A e \in L : e \in Below(d) => e = d
    <3>1. L \in SUBSET Dirs /\ L # {}
      BY <2>1
    <3> HIDE DEF L
    <3> QED
      BY <3>1, Lowest
  <2>3. \A e \in Below(d) \ {d} : ~LiveDir(e)
    BY <2>2 DEF Below
  <2>4. \A c \in Subdirs(d) : ~LiveDir(c)
    BY <2>2, <2>3, BelowBasics, SubdirsProper DEF Subdirs
  <2>5. pc[d] \in DirStates /\ LiveDir(d)
    BY <1>1, <2>2 DEF EntryInv, TypeOK, DirStates
  <2>6. CASE pc[d] = "wait"
    <3>1. \A f \in FilesOf(d) : ~LiveFile(f)
      BY DEF FilesOf
    <3>2. \/ Children(d) = {}
          \/ \E c \in Subdirs(d) : pc[c] = "exited"
          \/ \E f \in FilesOf(d) : fpc[f] = "exited"
      BY <2>4, <3>1 DEF Children
    <3> QED
      BY <2>2, <2>6, <3>2 DEF Ready
  <2>7. CASE pc[d] = "read"
    <3>1. ~HasWriter(d)
      BY <1>1, <2>2, <2>3, <2>7 DEF HasWriter, ClosedInv, FilesOf, LiveFile
    <3> QED
      BY <2>7, <3>1 DEF Ready
  <2>8. CASE pc[d] \notin {"wait", "read"}
    BY <1>1, <2>5, <2>8 DEF Ready, DirStates, LiveDir, CountInv
  <2> QED
    BY <2>6, <2>7, <2>8
<1>2. EntryInv /\ CountInv /\ FilledInv /\ PipeInv /\ ClosedInv =>
        (pc[Root] # "exited" => SomebodyReady)
  BY <1>1
<1>3. Init => EntryInv /\ CountInv /\ FilledInv /\ PipeInv /\ ClosedInv
  BY TypeInit, ScanInit, SkipInit, WaitInit, CountInit, FilledInit, PipeInit
  DEF EntryInv, ClosedInv, Init
<1>4. EntryInv => TypeOK
  BY DEF EntryInv
<1>5. Spec => [](EntryInv /\ CountInv /\ FilledInv /\ PipeInv /\ ClosedInv)
  BY <1>3, <1>4, EntryStep, CountStep, FilledStep, PipeStep, ClosedStep, PTL DEF Spec
<1> QED
  BY <1>2, <1>5, PTL

(***************************************************************************)
(* Refinement of CountOnce: the contributions of the files are the lines   *)
(* their processes write, the answer is what main counts.                  *)
(***************************************************************************)

Searched == {f \in Files : fpc[f] \notin {"absent", "search"} /\ total[f] # ERROR}
Excused == {f \in Files : Unreachable(f) \/ total[f] = ERROR}
Sum == IF totall = NoResult THEN lines ELSE totall

Abstract == INSTANCE CountOnce WITH
  counted <- Searched, excused <- Excused, sum <- Sum,
  interrupted <- FALSE, answer <- totall

RefInv == EntryInv /\ CountInv /\ LinesInv

\* No process is started for a file that cannot be reached.
LEMMA UnreachableIdle ==
  ASSUME EntryInv, NEW f \in Files, Unreachable(f)
  PROVE  fpc[f] = "absent"
<1>1. CASE f \in skipped
  BY <1>1 DEF EntryInv, SkipInv
<1>2. CASE f \notin skipped
  BY <1>2, BelowSkipped DEF Unreachable
<1> QED
  BY <1>1, <1>2

\* No file that is excused has been searched.
LEMMA ExcusedApart == EntryInv => Searched \cap Excused = {}
BY UnreachableIdle DEF Searched, Excused

\* Steps that CountOnce does not see.
LEMMA Hidden ==
  ASSUME UNCHANGED <<lines, totall, total, skipped>>,
         \A f \in Files : fpc'[f] \in {"absent", "search"}
                            <=> fpc[f] \in {"absent", "search"}
  PROVE  [Abstract!Next]_Abstract!vars
<1>1. Searched' = Searched /\ Excused' = Excused /\ Sum' = Sum
  BY DEF Searched, Excused, Unreachable, Sum
<1> QED
  BY <1>1 DEF Abstract!vars

\* A file or directory that fails excuses itself and the files below it.
LEMMA SkipExcuses ==
  ASSUME EntryInv', NEW e, skipped' = skipped \cup {e},
         UNCHANGED <<lines, totall, total, fpc>>
  PROVE  [Abstract!Next]_Abstract!vars
<1>1. Searched' \cap Excused' = {}
  <2>1. (EntryInv => Searched \cap Excused = {})'
    BY ExcusedApart, PTL
  <2> QED
    BY <2>1
<1>2. Excused' = Excused \cup Excused' /\ Excused' \in SUBSET Files
  BY DEF Excused, Unreachable
<1>3. Searched' = Searched /\ Sum' = Sum
  BY DEF Searched, Sum
<1>4. Abstract!Excuse(Excused')
  BY <1>1, <1>2, <1>3 DEF Abstract!Excuse
<1> QED
  BY <1>2, <1>4 DEF Abstract!Next

\* The process of a file writes its lines: the file is counted.
LEMMA SearchCounts ==
  ASSUME RefInv, NEW f \in Files, Search(f)
  PROVE  [Abstract!Next]_Abstract!vars
<1>1. /\ fpc[f] = "search" /\ fpc' = [fpc EXCEPT ![f] = "write"]
      /\ total[f] = 0 /\ total' = [total EXCEPT ![f] = matches[f]]
      /\ lines' = lines + matches[f] /\ UNCHANGED <<totall, skipped>>
  BY DEF Search, RefInv, LinesInv
<1>2. /\ fpc \in [Files -> FileStates] /\ total \in [Files -> Nat \cup {ERROR}]
      /\ matches[f] # ERROR /\ 0 # ERROR
  BY FilesAssumption DEF RefInv, EntryInv, TypeOK, FileStates, ERROR
<1>3. f \notin Searched /\ f \notin Excused
  BY <1>1, <1>2, UnreachableIdle DEF RefInv, Searched, Excused
<1>4. Searched' = Searched \cup {f}
  BY <1>1, <1>2 DEF Searched
<1>5. totall = NoResult
  BY <1>1, NobodyLeft DEF RefInv, CountInv, Done
<1>6. Sum' = Sum + matches[f]
  BY <1>1, <1>5 DEF Sum
<1>7. Excused' = Excused
  BY <1>1, <1>2 DEF Excused, Unreachable
<1>8. Abstract!Count(f)
  BY <1>1, <1>3, <1>4, <1>5, <1>6, <1>7 DEF Abstract!Count
<1> QED
  BY <1>8 DEF Abstract!Next

\* A file that cannot be opened is excused.
LEMMA ErrorExcuses ==
  ASSUME RefInv, NEW f \in Files, SearchFails(f)
  PROVE  [Abstract!Next]_Abstract!vars
<1>1. /\ fpc[f] = "search" /\ fpc' = [fpc EXCEPT ![f] = "write"]
      /\ total' = [total EXCEPT ![f] = ERROR]
      /\ UNCHANGED <<lines, totall, skipped>>
  BY DEF SearchFails
<1>2. fpc \in [Files -> FileStates] /\ total \in [Files -> Nat \cup {ERROR}]
  BY DEF RefInv, EntryInv, TypeOK, FileStates
<1>3. f \notin Searched /\ Searched' = Searched
  BY <1>1, <1>2 DEF Searched
<1>4. Excused' = Excused \cup {f} /\ Sum' = Sum
  BY <1>1, <1>2 DEF Excused, Unreachable, Sum
<1>5. Abstract!Excuse({f})
  BY <1>1, <1>3, <1>4 DEF Abstract!Excuse
<1> QED
  BY <1>5 DEF Abstract!Next

\* main counts the lines: everything has been searched or is excused.
LEMMA CountAnswers ==
  ASSUME RefInv, CountLines
  PROVE  [Abstract!Next]_Abstract!vars
<1>1. /\ pc[Root] = "count" /\ totall' = lines /\ totall = NoResult
      /\ UNCHANGED <<fpc, total, skipped>>
  BY DEF CountLines, RefInv, CountInv
<1>2. Searched \cup Excused = Files
  <2>1. ASSUME NEW f \in Files, f \notin Excused PROVE f \in Searched
    BY <1>1, <2>1, AllSearched DEF RefInv, Done, Searched, Excused
  <2> QED
    BY <2>1 DEF Excused, Searched
<1>3. Searched' = Searched /\ Excused' = Excused
  BY <1>1 DEF Searched, Excused, Unreachable
<1>4. Sum = lines /\ Sum' = lines
  <2>1. lines # NoResult
    BY PipeAssumption DEF RefInv, EntryInv, TypeOK
  <2> QED
    BY <1>1, <2>1 DEF Sum
<1>5. Abstract!Answer
  BY <1>1, <1>2, <1>3, <1>4 DEF Abstract!Answer
<1> QED
  BY <1>5 DEF Abstract!Next

\* Every step of the program is a step of CountOnce or a stutter.
LEMMA RefStep == RefInv /\ EntryInv' /\ [Next]_vars => [Abstract!Next]_Abstract!vars
<1> SUFFICES ASSUME RefInv, EntryInv', [Next]_vars PROVE [Abstract!Next]_Abstract!vars
  OBVIOUS
<1>0. /\ EntryInv /\ Files \cap Dirs = {} /\ fpc \in [Files -> FileStates]
  BY FilesAssumption DEF RefInv, EntryInv, TypeOK, FileStates
<1>1. CASE CountLines
  BY <1>1, CountAnswers
<1>2. ASSUME NEW d \in Dirs, Explore(d)
      PROVE  [Abstract!Next]_Abstract!vars
  BY <1>2, <1>0, Hidden DEF Explore
<1>3. ASSUME NEW d \in Dirs, ExploreFails(d)
      PROVE  [Abstract!Next]_Abstract!vars
  BY <1>3, SkipExcuses DEF ExploreFails
<1>4. ASSUME NEW d \in Dirs, NEW f \in Files, ForkFile(d, f)
      PROVE  [Abstract!Next]_Abstract!vars
  BY <1>4, <1>0, EntryOfOne, Hidden DEF EntryInv, ScanInv, ForkFile
<1>5. ASSUME NEW d \in Dirs, NEW c \in Dirs, ForkDir(d, c)
      PROVE  [Abstract!Next]_Abstract!vars
  BY <1>5, <1>0, Hidden DEF ForkDir
<1>6. ASSUME NEW d \in Dirs, NEW e \in Files \cup Dirs, ForkFails(d, e)
      PROVE  [Abstract!Next]_Abstract!vars
  BY <1>6, SkipExcuses DEF ForkFails
<1>7. ASSUME NEW d \in Dirs, ScanDone(d)
      PROVE  [Abstract!Next]_Abstract!vars
  BY <1>7, <1>0, Hidden DEF ScanDone
<1>8. ASSUME NEW d \in Dirs, Wait(d)
      PROVE  [Abstract!Next]_Abstract!vars
  BY <1>8, <1>0, Hidden DEF Wait, Reap
<1>9. ASSUME NEW d \in Dirs, Read(d)
      PROVE  [Abstract!Next]_Abstract!vars
  BY <1>9, <1>0, Hidden DEF Read
<1>10. ASSUME NEW d \in Dirs, ReadEnd(d)
      PROVE  [Abstract!Next]_Abstract!vars
  BY <1>10, <1>0, Hidden DEF ReadEnd
<1>11. ASSUME NEW d \in Dirs, WaitDone(d)
      PROVE  [Abstract!Next]_Abstract!vars
  BY <1>11, <1>0, Hidden DEF WaitDone
<1>12. ASSUME NEW d \in Dirs, UnlinkFifo(d)
      PROVE  [Abstract!Next]_Abstract!vars
  BY <1>12, <1>0, Hidden DEF UnlinkFifo
<1>13. ASSUME NEW f \in Files, Search(f)
      PROVE  [Abstract!Next]_Abstract!vars
  BY <1>13, SearchCounts
<1>14. ASSUME NEW f \in Files, SearchFails(f)
      PROVE  [Abstract!Next]_Abstract!vars
  BY <1>14, ErrorExcuses
<1>15. ASSUME NEW f \in Files, Write(f)
      PROVE  [Abstract!Next]_Abstract!vars
  BY <1>15, <1>0, Hidden DEF Write
<1>16. ASSUME NEW f \in Files, Close(f)
      PROVE  [Abstract!Next]_Abstract!vars
  BY <1>16, <1>0, Hidden DEF Close
<1>17. ASSUME NEW f \in Files, Exit(f)
      PROVE  [Abstract!Next]_Abstract!vars
  BY <1>17, <1>0, Hidden DEF Exit
<1>18. CASE UNCHANGED vars
  BY <1>18, Hidden DEF vars
<1> QED
  BY <1>1, <1>2, <1>3, <1>4, <1>5, <1>6, <1>7, <1>8, <1>9, <1>10, <1>11, <1>12, <1>13,
     <1>14, <1>15, <1>16, <1>17, <1>18
  DEF Next, DirStep, FileStep

\* The processes and pipes of withPipeandFIFO implement CountOnce, for every
\* tree and capacity: every file is counted once or excused, and what main
\* counts is their sum and is final.
THEOREM ImplementsCountOnce == Spec => Abstract!Spec
<1>1. Init => Abstract!Init
  <2> SUFFICES ASSUME Init PROVE Abstract!Init
    OBVIOUS
  <2>1. Searched = {} /\ Excused = {} /\ Sum = 0 /\ totall = NoResult
    BY DEF Init, Searched, Excused, Unreachable, Sum, ERROR
  <2> QED
    BY <2>1 DEF Abstract!Init
<1>2. Spec => []RefInv
  BY LinesInvariant, PTL DEF RefInv
<1>3. RefInv /\ RefInv' /\ [Next]_vars => [Abstract!Next]_Abstract!vars
  BY RefStep DEF RefInv
<1> QED
  BY <1>1, <1>2, <1>3, PTL DEF Spec, Abstract!Spec
=============================================================================
