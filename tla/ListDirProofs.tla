---------------------------- MODULE ListDirProofs ----------------------------
(***************************************************************************)
(* Theorems about ListDir: what main counts is exactly what the processes  *)
(* of all the files it could reach have written, for every tree, every     *)
(* number of matches and every choice of the system calls that fail.       *)
(***************************************************************************)
EXTENDS ListDir, SearchTreeProofs

(***************************************************************************)
(* Types.                                                                  *)
(***************************************************************************)

DirStates == {"absent", "explore", "scan", "wait", "count", "exited", "reaped"}
FileStates == {"absent", "search", "exited", "reaped"}

\* At first every variable has its type.
LEMMA TypeInit == Init => TypeOK
BY TreeAssumption DEF Init, TypeOK

\* Every step keeps the types; an exit status keeps eight bits.
LEMMA TypeStep == TypeOK /\ [Next]_vars => TypeOK'
<1> SUFFICES ASSUME TypeOK, [Next]_vars PROVE TypeOK'
  OBVIOUS
<1>0. Root \in Dirs /\ matches \in [Files -> Nat]
  BY TreeAssumption, FilesAssumption
<1>1. CASE CountLines
  BY <1>1, <1>0
  DEF TypeOK, CountLines
<1>2. ASSUME NEW d \in Dirs, Explore(d) PROVE TypeOK'
  <2>1. FilesOf(d) \cup Subdirs(d) \subseteq Files \cup Dirs
    BY DEF FilesOf, Subdirs
  <2> QED
    BY <1>2, <1>0, <2>1 DEF TypeOK, Explore
<1>3. ASSUME NEW d \in Dirs, ExploreFails(d) PROVE TypeOK'
  BY <1>3, <1>0
  DEF TypeOK, ExploreFails, Return
<1>4. ASSUME NEW d \in Dirs, ScanDone(d) PROVE TypeOK'
  BY <1>4, <1>0
  DEF TypeOK, ScanDone
<1>5. ASSUME NEW d \in Dirs, WaitDone(d) PROVE TypeOK'
  BY <1>5, <1>0
  DEF TypeOK, WaitDone, Return
<1>6. ASSUME NEW d \in Dirs, NEW e \in Files \cup Dirs, Fork(d, e)
      PROVE  TypeOK'
  BY <1>6, <1>0
  DEF TypeOK, Fork
<1>7. ASSUME NEW d \in Dirs, NEW e \in Files \cup Dirs, ForkFails(d, e)
      PROVE  TypeOK'
  BY <1>7, <1>0
  DEF TypeOK, ForkFails
<1>8. ASSUME NEW d \in Dirs, NEW e \in Files \cup Dirs, Reap(d, e)
      PROVE  TypeOK'
  BY <1>8, <1>0
  DEF TypeOK, Reap
<1>9. ASSUME NEW f \in Files, Search(f) PROVE TypeOK'
  <2>1. matches[f] \in Nat /\ matches[f] % 256 \in 0 .. 255
    BY <1>0
  <2> QED
    BY <1>9, <1>0, <2>1 DEF TypeOK, Search
<1>10. ASSUME NEW f \in Files, SearchFails(f) PROVE TypeOK'
  <2>1. ERROR % 256 \in 0 .. 255
    <3>1. ERROR \in Int
      BY DEF ERROR
    <3> HIDE DEF ERROR
    <3> QED
      BY <3>1
  <2> HIDE DEF ERROR
  <2> QED
    BY <1>10, <1>0, <2>1 DEF TypeOK, SearchFails
<1>11. CASE UNCHANGED vars
  BY <1>11, <1>0
  DEF TypeOK, vars
<1> QED
  BY <1>1, <1>2, <1>3, <1>4, <1>5, <1>6, <1>7, <1>8, <1>9, <1>10, <1>11
  DEF Next, DirStep, FileStep

\* Every variable of listdir keeps its type, for every tree.
THEOREM TypeCorrect == Spec => []TypeOK
BY TypeInit, TypeStep, PTL DEF Spec

(***************************************************************************)
(* Entries and their directories.                                          *)
(***************************************************************************)

Unread == {"absent", "explore"}
Done == {"count", "exited", "reaped"}

\* Entries are started by the process of their directory, while it reads.
ScanInv ==
  \A d \in Dirs :
    /\ pc[d] # "scan" => todo[d] = {}
    /\ pc[d] \in Unread => /\ \A f \in FilesOf(d) : fpc[f] = "absent"
                           /\ \A c \in Subdirs(d) : pc[c] = "absent"
    /\ \A e \in todo[d] : \/ e \in FilesOf(d) /\ fpc[e] = "absent"
                          \/ e \in Subdirs(d) /\ pc[e] = "absent"

\* Nothing is started at first.
LEMMA ScanInit == Init => ScanInv
BY TreeAssumption, EntryOfOne DEF Init, ScanInv, Unread

\* An entry that is started leaves todo.
LEMMA ScanStep == TypeOK /\ ScanInv /\ [Next]_vars => ScanInv'
<1> SUFFICES ASSUME TypeOK, ScanInv, [Next]_vars PROVE ScanInv'
  OBVIOUS
<1>0. /\ Root \in Dirs /\ pc \in [Dirs -> DirStates] /\ fpc \in [Files -> FileStates]
      /\ todo \in [Dirs -> SUBSET (Files \cup Dirs)]
      /\ Files \cap Dirs = {}
  BY TreeAssumption, FilesAssumption DEF TypeOK, DirStates, FileStates
<1>1. CASE CountLines
  BY <1>1, <1>0, EntryOfOne
  DEF ScanInv, Unread, CountLines
<1>2. ASSUME NEW d \in Dirs, Explore(d) PROVE ScanInv'
  BY <1>2, <1>0, EntryOfOne
  DEF ScanInv, Unread, Explore
<1>3. ASSUME NEW d \in Dirs, ExploreFails(d) PROVE ScanInv'
  BY <1>3, <1>0, EntryOfOne
  DEF ScanInv, Unread, ExploreFails, Return
<1>4. ASSUME NEW d \in Dirs, ScanDone(d) PROVE ScanInv'
  BY <1>4, <1>0, EntryOfOne
  DEF ScanInv, Unread, ScanDone
<1>5. ASSUME NEW d \in Dirs, WaitDone(d) PROVE ScanInv'
  BY <1>5, <1>0, EntryOfOne
  DEF ScanInv, Unread, WaitDone, Return
<1>6. ASSUME NEW d \in Dirs, NEW e \in Files \cup Dirs, Fork(d, e)
      PROVE  ScanInv'
  BY <1>6, <1>0, EntryOfOne
  DEF ScanInv, Unread, Fork
<1>7. ASSUME NEW d \in Dirs, NEW e \in Files \cup Dirs, ForkFails(d, e)
      PROVE  ScanInv'
  BY <1>7, <1>0, EntryOfOne
  DEF ScanInv, Unread, ForkFails
<1>8. ASSUME NEW d \in Dirs, NEW e \in Files \cup Dirs, Reap(d, e)
      PROVE  ScanInv'
  BY <1>8, <1>0, EntryOfOne
  DEF ScanInv, Unread, Reap
<1>9. ASSUME NEW f \in Files, Search(f) PROVE ScanInv'
  BY <1>9, <1>0, EntryOfOne
  DEF ScanInv, Unread, Search
<1>10. ASSUME NEW f \in Files, SearchFails(f) PROVE ScanInv'
  BY <1>10, <1>0, EntryOfOne
  DEF ScanInv, Unread, SearchFails
<1>11. CASE UNCHANGED vars
  BY <1>11, <1>0, EntryOfOne
  DEF ScanInv, Unread, vars
<1> QED
  BY <1>1, <1>2, <1>3, <1>4, <1>5, <1>6, <1>7, <1>8, <1>9, <1>10, <1>11
  DEF Next, DirStep, FileStep

(***************************************************************************)
(* What was skipped.                                                       *)
(***************************************************************************)

\* A skipped directory has started nothing, a skipped file is not searched,
\* and the directory of a skipped entry has it behind.
SkipInv ==
  /\ \A d \in skipped \cap Dirs :
       /\ pc[d] \in {"absent"} \cup Done
       /\ \A f \in FilesOf(d) : fpc[f] = "absent"
       /\ \A c \in Subdirs(d) : pc[c] = "absent"
  /\ \A f \in skipped \cap Files : fpc[f] # "search"
  /\ \A d \in Dirs : \A e \in FilesOf(d) \cup Subdirs(d) :
       e \in skipped => pc[d] \notin Unread /\ e \notin todo[d]

\* At first nothing is skipped.
LEMMA SkipInit == Init => SkipInv
BY DEF Init, SkipInv

\* Only what has just failed is skipped.
LEMMA SkipStep == TypeOK /\ ScanInv /\ SkipInv /\ [Next]_vars => SkipInv'
<1> SUFFICES ASSUME TypeOK, ScanInv, SkipInv, [Next]_vars PROVE SkipInv'
  OBVIOUS
<1>0. /\ Root \in Dirs /\ pc \in [Dirs -> DirStates] /\ fpc \in [Files -> FileStates]
      /\ todo \in [Dirs -> SUBSET (Files \cup Dirs)]
      /\ Files \cap Dirs = {}
  BY TreeAssumption, FilesAssumption DEF TypeOK, DirStates, FileStates
<1>1. CASE CountLines
  BY <1>1, <1>0, EntryOfOne
  DEF ScanInv, SkipInv, Unread, Done, CountLines
<1>2. ASSUME NEW d \in Dirs, Explore(d) PROVE SkipInv'
  BY <1>2, <1>0, EntryOfOne
  DEF ScanInv, SkipInv, Unread, Done, Explore
<1>3. ASSUME NEW d \in Dirs, ExploreFails(d) PROVE SkipInv'
  BY <1>3, <1>0, EntryOfOne
  DEF ScanInv, SkipInv, Unread, Done, ExploreFails, Return
<1>4. ASSUME NEW d \in Dirs, ScanDone(d) PROVE SkipInv'
  BY <1>4, <1>0, EntryOfOne
  DEF ScanInv, SkipInv, Unread, Done, ScanDone
<1>5. ASSUME NEW d \in Dirs, WaitDone(d) PROVE SkipInv'
  BY <1>5, <1>0, EntryOfOne
  DEF ScanInv, SkipInv, Unread, Done, WaitDone, Return
<1>6. ASSUME NEW d \in Dirs, NEW e \in Files \cup Dirs, Fork(d, e)
      PROVE  SkipInv'
  BY <1>6, <1>0, EntryOfOne
  DEF ScanInv, SkipInv, Unread, Done, Fork
<1>7. ASSUME NEW d \in Dirs, NEW e \in Files \cup Dirs, ForkFails(d, e)
      PROVE  SkipInv'
  BY <1>7, <1>0, EntryOfOne
  DEF ScanInv, SkipInv, Unread, Done, ForkFails
<1>8. ASSUME NEW d \in Dirs, NEW e \in Files \cup Dirs, Reap(d, e)
      PROVE  SkipInv'
  BY <1>8, <1>0, EntryOfOne
  DEF ScanInv, SkipInv, Unread, Done, Reap
<1>9. ASSUME NEW f \in Files, Search(f) PROVE SkipInv'
  BY <1>9, <1>0, EntryOfOne
  DEF ScanInv, SkipInv, Unread, Done, Search
<1>10. ASSUME NEW f \in Files, SearchFails(f) PROVE SkipInv'
  BY <1>10, <1>0, EntryOfOne
  DEF ScanInv, SkipInv, Unread, Done, SearchFails
<1>11. CASE UNCHANGED vars
  BY <1>11, <1>0, EntryOfOne
  DEF ScanInv, SkipInv, Unread, Done, vars
<1> QED
  BY <1>1, <1>2, <1>3, <1>4, <1>5, <1>6, <1>7, <1>8, <1>9, <1>10, <1>11
  DEF Next, DirStep, FileStep

(***************************************************************************)
(* What was forked for and what has been waited for.                       *)
(***************************************************************************)

\* An entry that has been read has been forked for or skipped.
ForkInv ==
  \A d \in Dirs \ skipped : pc[d] \notin Unread =>
    /\ \A c \in Subdirs(d) : c \in todo[d] \/ c \in skipped \/ pc[c] # "absent"
    /\ \A f \in FilesOf(d) : f \in todo[d] \/ f \in skipped \/ fpc[f] # "absent"

\* A process has reaped its children when its loop of waits is over.
WaitInv ==
  \A d \in Dirs : pc[d] \in Done =>
    /\ \A c \in Subdirs(d) : pc[c] \in {"absent", "reaped"}
    /\ \A f \in FilesOf(d) : fpc[f] \in {"absent", "reaped"}

\* Nothing is read at first.
LEMMA WaitInit == Init => ForkInv /\ WaitInv
BY TreeAssumption DEF Init, ForkInv, WaitInv, Done, Unread

\* An entry leaves todo only when it is forked for or skipped.
LEMMA ForkStep == TypeOK /\ ScanInv /\ SkipInv /\ ForkInv /\ [Next]_vars => ForkInv'
<1> SUFFICES ASSUME TypeOK, ScanInv, SkipInv, ForkInv, [Next]_vars PROVE ForkInv'
  OBVIOUS
<1>0. /\ Root \in Dirs /\ pc \in [Dirs -> DirStates] /\ fpc \in [Files -> FileStates]
      /\ todo \in [Dirs -> SUBSET (Files \cup Dirs)]
      /\ Files \cap Dirs = {}
  BY TreeAssumption, FilesAssumption DEF TypeOK, DirStates, FileStates
<1>1. CASE CountLines
  BY <1>1, <1>0, EntryOfOne
  DEF ScanInv, SkipInv, ForkInv, Unread, Done, CountLines
<1>2. ASSUME NEW d \in Dirs, Explore(d) PROVE ForkInv'
  BY <1>2, <1>0, EntryOfOne
  DEF ScanInv, SkipInv, ForkInv, Unread, Done, Explore
<1>3. ASSUME NEW d \in Dirs, ExploreFails(d) PROVE ForkInv'
  BY <1>3, <1>0, EntryOfOne
  DEF ScanInv, SkipInv, ForkInv, Unread, Done, ExploreFails, Return
<1>4. ASSUME NEW d \in Dirs, ScanDone(d) PROVE ForkInv'
  BY <1>4, <1>0, EntryOfOne
  DEF ScanInv, SkipInv, ForkInv, Unread, Done, ScanDone
<1>5. ASSUME NEW d \in Dirs, WaitDone(d) PROVE ForkInv'
  BY <1>5, <1>0, EntryOfOne
  DEF ScanInv, SkipInv, ForkInv, Unread, Done, WaitDone, Return
<1>6. ASSUME NEW d \in Dirs, NEW e \in Files \cup Dirs, Fork(d, e)
      PROVE  ForkInv'
  BY <1>6, <1>0, EntryOfOne
  DEF ScanInv, SkipInv, ForkInv, Unread, Done, Fork
<1>7. ASSUME NEW d \in Dirs, NEW e \in Files \cup Dirs, ForkFails(d, e)
      PROVE  ForkInv'
  BY <1>7, <1>0, EntryOfOne
  DEF ScanInv, SkipInv, ForkInv, Unread, Done, ForkFails
<1>8. ASSUME NEW d \in Dirs, NEW e \in Files \cup Dirs, Reap(d, e)
      PROVE  ForkInv'
  BY <1>8, <1>0, EntryOfOne
  DEF ScanInv, SkipInv, ForkInv, Unread, Done, Reap
<1>9. ASSUME NEW f \in Files, Search(f) PROVE ForkInv'
  BY <1>9, <1>0, EntryOfOne
  DEF ScanInv, SkipInv, ForkInv, Unread, Done, Search
<1>10. ASSUME NEW f \in Files, SearchFails(f) PROVE ForkInv'
  BY <1>10, <1>0, EntryOfOne
  DEF ScanInv, SkipInv, ForkInv, Unread, Done, SearchFails
<1>11. CASE UNCHANGED vars
  BY <1>11, <1>0, EntryOfOne
  DEF ScanInv, SkipInv, ForkInv, Unread, Done, vars
<1> QED
  BY <1>1, <1>2, <1>3, <1>4, <1>5, <1>6, <1>7, <1>8, <1>9, <1>10, <1>11
  DEF Next, DirStep, FileStep

\* After its last wait() a process starts nobody.
LEMMA WaitStep == TypeOK /\ ScanInv /\ WaitInv /\ [Next]_vars => WaitInv'
<1> SUFFICES ASSUME TypeOK, ScanInv, WaitInv, [Next]_vars PROVE WaitInv'
  OBVIOUS
<1>0. /\ Root \in Dirs /\ pc \in [Dirs -> DirStates] /\ fpc \in [Files -> FileStates]
      /\ todo \in [Dirs -> SUBSET (Files \cup Dirs)]
      /\ Files \cap Dirs = {}
  BY TreeAssumption, FilesAssumption DEF TypeOK, DirStates, FileStates
<1>1. CASE CountLines
  BY <1>1, <1>0, EntryOfOne
  DEF ScanInv, WaitInv, Unread, Done, CountLines
<1>2. ASSUME NEW d \in Dirs, Explore(d) PROVE WaitInv'
  BY <1>2, <1>0, EntryOfOne
  DEF ScanInv, WaitInv, Unread, Done, Explore
<1>3. ASSUME NEW d \in Dirs, ExploreFails(d) PROVE WaitInv'
  BY <1>3, <1>0, EntryOfOne
  DEF ScanInv, WaitInv, Unread, Done, ExploreFails, Return
<1>4. ASSUME NEW d \in Dirs, ScanDone(d) PROVE WaitInv'
  BY <1>4, <1>0, EntryOfOne
  DEF ScanInv, WaitInv, Unread, Done, ScanDone
<1>5. ASSUME NEW d \in Dirs, WaitDone(d) PROVE WaitInv'
  BY <1>5, <1>0, EntryOfOne
  DEF ScanInv, WaitInv, Unread, Done, WaitDone, Return
<1>6. ASSUME NEW d \in Dirs, NEW e \in Files \cup Dirs, Fork(d, e)
      PROVE  WaitInv'
  BY <1>6, <1>0, EntryOfOne
  DEF ScanInv, WaitInv, Unread, Done, Fork
<1>7. ASSUME NEW d \in Dirs, NEW e \in Files \cup Dirs, ForkFails(d, e)
      PROVE  WaitInv'
  BY <1>7, <1>0, EntryOfOne
  DEF ScanInv, WaitInv, Unread, Done, ForkFails
<1>8. ASSUME NEW d \in Dirs, NEW e \in Files \cup Dirs, Reap(d, e)
      PROVE  WaitInv'
  BY <1>8, <1>0, EntryOfOne
  DEF ScanInv, WaitInv, Unread, Done, Reap
<1>9. ASSUME NEW f \in Files, Search(f) PROVE WaitInv'
  BY <1>9, <1>0, EntryOfOne
  DEF ScanInv, WaitInv, Unread, Done, Search
<1>10. ASSUME NEW f \in Files, SearchFails(f) PROVE WaitInv'
  BY <1>10, <1>0, EntryOfOne
  DEF ScanInv, WaitInv, Unread, Done, SearchFails
<1>11. CASE UNCHANGED vars
  BY <1>11, <1>0, EntryOfOne
  DEF ScanInv, WaitInv, Unread, Done, vars
<1> QED
  BY <1>1, <1>2, <1>3, <1>4, <1>5, <1>6, <1>7, <1>8, <1>9, <1>10, <1>11
  DEF Next, DirStep, FileStep

(***************************************************************************)
(* Along the tree.                                                         *)
(***************************************************************************)

\* All that the invariants say of a directory and its entries.
EntryInv == TypeOK /\ ScanInv /\ SkipInv /\ ForkInv /\ WaitInv

\* When main has waited, nobody is left.
LEMMA NobodyLeft ==
  ASSUME EntryInv, pc[Root] \in Done
  PROVE  \A f \in Files : fpc[f] \in {"absent", "reaped"}
<1> DEFINE D == {d \in Dirs : pc[d] \in {"absent"} \cup Done}
<1>1. ASSUME NEW d \in D, NEW c \in Subdirs(d) PROVE c \in D
  <2>1. c \in Dirs
    BY <1>1, EntryOfOne
  <2>2. pc[c] \in {"absent", "reaped"}
    BY <1>1 DEF EntryInv, ScanInv, WaitInv, Unread
  <2> QED
    BY <2>1, <2>2 DEF Done
<1>2. D = Dirs
  BY <1>1, TreeAssumption
<1>3. ASSUME NEW f \in Files PROVE fpc[f] \in {"absent", "reaped"}
  <2>1. fileDir[f] \in D /\ f \in FilesOf(fileDir[f])
    BY <1>2, FilesAssumption DEF FilesOf
  <2> QED
    BY <2>1 DEF EntryInv, ScanInv, WaitInv, Unread
<1> QED
  BY <1>3

\* Nobody searches below a directory that was skipped.
LEMMA BelowSkipped ==
  ASSUME EntryInv, NEW f \in Files, NEW s \in skipped \cap Dirs, fileDir[f] \in Below(s)
  PROVE  fpc[f] = "absent"
<1> DEFINE D == {d \in Dirs : /\ \A g \in FilesOf(d) : fpc[g] = "absent"
                              /\ \A c \in Subdirs(d) : pc[c] = "absent"}
<1>1. s \in D
  BY DEF EntryInv, SkipInv
<1>2. ASSUME NEW d \in D, NEW c \in Subdirs(d) PROVE c \in D
  <2>1. c \in Dirs /\ pc[c] = "absent"
    BY <1>2, EntryOfOne
  <2> QED
    BY <2>1 DEF EntryInv, ScanInv, Unread
<1>3. Below(s) \subseteq D
  BY <1>1, <1>2, BelowInduction
<1>4. f \in FilesOf(fileDir[f])
  BY DEF FilesOf
<1> QED
  BY <1>3, <1>4

\* When main has waited, every file it could reach has been searched.
LEMMA AllSearched ==
  ASSUME EntryInv, pc[Root] \in Done, NEW f \in Files, ~Missed(f)
  PROVE  fpc[f] = "reaped"
<1> DEFINE Cut(d) == \E s \in skipped \cap Dirs : d \in Below(s)
           D == {d \in Dirs : (pc[d] \in Done /\ d \notin skipped) \/ Cut(d)}
<1>1. Root \in D
  BY TreeAssumption, BelowBasics
<1>2. ASSUME NEW d \in D, NEW c \in Subdirs(d) PROVE c \in D
  <2>1. c \in Dirs
    BY <1>2, EntryOfOne
  <2>2. CASE c \in skipped
    BY <2>1, <2>2, BelowBasics
  <2>3. CASE c \notin skipped /\ pc[d] \in Done /\ d \notin skipped
    <3>1. pc[c] # "absent"
      BY <1>2, <2>3 DEF EntryInv, ForkInv, ScanInv, Unread, Done
    <3>2. pc[c] = "reaped"
      BY <1>2, <2>3, <3>1 DEF EntryInv, WaitInv
    <3> QED
      BY <2>1, <2>3, <3>2 DEF Done
  <2>4. CASE Cut(d)
    BY <1>2, <2>1, <2>4, BelowBasics
  <2> QED
    BY <1>2, <2>2, <2>3, <2>4
<1>3. D = Dirs
  BY <1>1, <1>2, TreeAssumption
<1>4. fileDir[f] \in D /\ f \in FilesOf(fileDir[f])
  BY <1>3, FilesAssumption DEF FilesOf
<1>5. f \notin skipped /\ ~Cut(fileDir[f])
  BY DEF Missed
<1>6. pc[fileDir[f]] \in Done /\ fileDir[f] \notin skipped
  BY <1>4, <1>5
<1>7. fpc[f] # "absent"
  BY <1>4, <1>5, <1>6 DEF EntryInv, ForkInv, ScanInv, Unread, Done
<1> QED
  BY <1>4, <1>6, <1>7 DEF EntryInv, WaitInv

(***************************************************************************)
(* The log.                                                                *)
(***************************************************************************)

\* The files whose processes have written all their matches.
Searched == {f \in Files : fpc[f] \in {"exited", "reaped"} /\ f \notin skipped}

\* Only main counts the lines, and then it exits.
CountInv ==
  /\ pc[Root] \notin {"absent", "reaped"}
  /\ pc[Root] = "exited" <=> counter # NoResult
  /\ \A d \in Dirs : pc[d] = "count" => d = Root

\* Until main counts them, the lines are those of the files searched so far.
LinesInv == MatchesOf(Searched) = IF counter = NoResult THEN lines ELSE counter

\* Nothing is searched or counted at first.
LEMMA LinesInit == Init => CountInv /\ LinesInv
<1> SUFFICES ASSUME Init PROVE CountInv /\ LinesInv
  OBVIOUS
<1>1. Searched = {}
  BY DEF Init, Searched
<1> QED
  BY <1>1, TreeAssumption, MatchesOfNone DEF Init, CountInv, LinesInv

\* The root is nobody's child.
LEMMA CountStep == EntryInv /\ CountInv /\ [Next]_vars => CountInv'
<1> SUFFICES ASSUME EntryInv, CountInv, [Next]_vars PROVE CountInv'
  OBVIOUS
<1>0. /\ Root \in Dirs /\ pc \in [Dirs -> DirStates] /\ fpc \in [Files -> FileStates]
      /\ todo \in [Dirs -> SUBSET (Files \cup Dirs)]
      /\ Files \cap Dirs = {}
  BY TreeAssumption, FilesAssumption DEF EntryInv, TypeOK, DirStates, FileStates
<1>01. lines \in Nat /\ NoResult \notin Nat
  BY ListDirAssumption DEF EntryInv, TypeOK
<1>1. CASE CountLines
  BY <1>1, <1>0, <1>01, EntryOfOne
  DEF EntryInv, ScanInv, CountInv, CountLines
<1>2. ASSUME NEW d \in Dirs, Explore(d) PROVE CountInv'
  BY <1>2, <1>0, <1>01, EntryOfOne
  DEF EntryInv, ScanInv, CountInv, Explore
<1>3. ASSUME NEW d \in Dirs, ExploreFails(d) PROVE CountInv'
  BY <1>3, <1>0, <1>01, EntryOfOne
  DEF EntryInv, ScanInv, CountInv, ExploreFails, Return
<1>4. ASSUME NEW d \in Dirs, ScanDone(d) PROVE CountInv'
  BY <1>4, <1>0, <1>01, EntryOfOne
  DEF EntryInv, ScanInv, CountInv, ScanDone
<1>5. ASSUME NEW d \in Dirs, WaitDone(d) PROVE CountInv'
  BY <1>5, <1>0, <1>01, EntryOfOne
  DEF EntryInv, ScanInv, CountInv, WaitDone, Return
<1>6. ASSUME NEW d \in Dirs, NEW e \in Files \cup Dirs, Fork(d, e)
      PROVE  CountInv'
  BY <1>6, <1>0, <1>01, EntryOfOne
  DEF EntryInv, ScanInv, CountInv, Fork
<1>7. ASSUME NEW d \in Dirs, NEW e \in Files \cup Dirs, ForkFails(d, e)
      PROVE  CountInv'
  BY <1>7, <1>0, <1>01, EntryOfOne
  DEF EntryInv, ScanInv, CountInv, ForkFails
<1>8. ASSUME NEW d \in Dirs, NEW e \in Files \cup Dirs, Reap(d, e)
      PROVE  CountInv'
  BY <1>8, <1>0, <1>01, EntryOfOne
  DEF EntryInv, ScanInv, CountInv, Reap
<1>9. ASSUME NEW f \in Files, Search(f) PROVE CountInv'
  BY <1>9, <1>0, <1>01, EntryOfOne
  DEF EntryInv, ScanInv, CountInv, Search
<1>10. ASSUME NEW f \in Files, SearchFails(f) PROVE CountInv'
  BY <1>10, <1>0, <1>01, EntryOfOne
  DEF EntryInv, ScanInv, CountInv, SearchFails
<1>11. CASE UNCHANGED vars
  BY <1>11, <1>0, <1>01, EntryOfOne
  DEF EntryInv, ScanInv, CountInv, vars
<1> QED
  BY <1>1, <1>2, <1>3, <1>4, <1>5, <1>6, <1>7, <1>8, <1>9, <1>10, <1>11
  DEF Next, DirStep, FileStep

\* A search adds its matches once; when main has counted, nobody searches.
LEMMA LinesStep == EntryInv /\ CountInv /\ LinesInv /\ [Next]_vars => LinesInv'
<1> SUFFICES ASSUME EntryInv, CountInv, LinesInv, [Next]_vars PROVE LinesInv'
  OBVIOUS
<1>0. /\ Root \in Dirs /\ pc \in [Dirs -> DirStates] /\ fpc \in [Files -> FileStates]
      /\ todo \in [Dirs -> SUBSET (Files \cup Dirs)]
      /\ Files \cap Dirs = {}
  BY TreeAssumption, FilesAssumption DEF EntryInv, TypeOK, DirStates, FileStates
<1>01. lines \in Nat /\ NoResult \notin Nat
  BY ListDirAssumption DEF EntryInv, TypeOK
<1>02. ASSUME UNCHANGED <<lines, counter>>, Searched' = Searched PROVE LinesInv'
  BY <1>02 DEF LinesInv, MatchesOf
<1>1. CASE CountLines
  <2>1. Searched' = Searched
    BY <1>1 DEF Searched, CountLines
  <2>2. counter = NoResult /\ counter' = lines
    BY <1>1 DEF CountInv, CountLines
  <2> QED
    BY <1>01, <2>1, <2>2 DEF LinesInv, MatchesOf
<1>2. ASSUME NEW d \in Dirs, Explore(d) PROVE LinesInv'
  <2>1. Searched' = Searched
    BY <1>2, <1>0, EntryOfOne DEF EntryInv, ScanInv, Searched, Explore
  <2> QED
    BY <1>2, <1>02, <2>1 DEF Explore
<1>3. ASSUME NEW d \in Dirs, ExploreFails(d) PROVE LinesInv'
  <2>1. Searched' = Searched
    BY <1>3, <1>0, EntryOfOne DEF EntryInv, ScanInv, Searched, ExploreFails, Return
  <2> QED
    BY <1>3, <1>02, <2>1 DEF ExploreFails
<1>4. ASSUME NEW d \in Dirs, ScanDone(d) PROVE LinesInv'
  <2>1. Searched' = Searched
    BY <1>4, <1>0, EntryOfOne DEF EntryInv, ScanInv, Searched, ScanDone
  <2> QED
    BY <1>4, <1>02, <2>1 DEF ScanDone
<1>5. ASSUME NEW d \in Dirs, WaitDone(d) PROVE LinesInv'
  <2>1. Searched' = Searched
    BY <1>5, <1>0, EntryOfOne DEF EntryInv, ScanInv, Searched, WaitDone, Return
  <2> QED
    BY <1>5, <1>02, <2>1 DEF WaitDone
<1>6. ASSUME NEW d \in Dirs, NEW e \in Files \cup Dirs, Fork(d, e)
      PROVE  LinesInv'
  <2>1. Searched' = Searched
    BY <1>6, <1>0, EntryOfOne DEF EntryInv, ScanInv, Searched, Fork
  <2> QED
    BY <1>6, <1>02, <2>1 DEF Fork
<1>7. ASSUME NEW d \in Dirs, NEW e \in Files \cup Dirs, ForkFails(d, e)
      PROVE  LinesInv'
  <2>1. Searched' = Searched
    BY <1>7, <1>0, EntryOfOne DEF EntryInv, ScanInv, Searched, ForkFails
  <2> QED
    BY <1>7, <1>02, <2>1 DEF ForkFails
<1>8. ASSUME NEW d \in Dirs, NEW e \in Files \cup Dirs, Reap(d, e)
      PROVE  LinesInv'
  <2>1. Searched' = Searched
    BY <1>8, <1>0, EntryOfOne DEF EntryInv, ScanInv, Searched, Reap
  <2> QED
    BY <1>8, <1>02, <2>1 DEF Reap
<1>9. ASSUME NEW f \in Files, Search(f) PROVE LinesInv'
  <2>1. fpc[f] = "search" /\ lines' = lines + matches[f] /\ counter' = counter
    BY <1>9 DEF Search
  <2>2. f \notin Searched /\ Searched \subseteq Files
    BY <2>1 DEF Searched
  <2>3. Searched' = Searched \cup {f}
    BY <1>9, <1>0 DEF EntryInv, SkipInv, Searched, Search
  <2>4. counter = NoResult
    BY <2>1, NobodyLeft DEF CountInv, Done
  <2>5. MatchesOf(Searched \cup {f}) = MatchesOf(Searched) + matches[f]
    BY <2>2, MatchesAdd
  <2>6. MatchesOf(Searched)' = MatchesOf(Searched \cup {f})
    BY <2>3 DEF MatchesOf
  <2> QED
    BY <2>1, <2>4, <2>5, <2>6 DEF LinesInv
<1>10. ASSUME NEW f \in Files, SearchFails(f) PROVE LinesInv'
  <2>1. Searched' = Searched
    BY <1>10, <1>0, EntryOfOne DEF EntryInv, ScanInv, Searched, SearchFails
  <2> QED
    BY <1>10, <1>02, <2>1 DEF SearchFails
<1>11. CASE UNCHANGED vars
  <2>1. Searched' = Searched
    BY <1>11, <1>0, EntryOfOne DEF EntryInv, ScanInv, Searched, vars
  <2> QED
    BY <1>11, <1>02, <2>1 DEF vars
<1> QED
  BY <1>1, <1>2, <1>3, <1>4, <1>5, <1>6, <1>7, <1>8, <1>9, <1>10, <1>11
  DEF Next, DirStep, FileStep

(***************************************************************************)
(* Theorems.                                                               *)
(***************************************************************************)

\* The invariants hold in every reachable state.
LEMMA Invariant == Spec => [](EntryInv /\ CountInv /\ LinesInv)
<1>1. Init => EntryInv /\ CountInv /\ LinesInv
  BY TypeInit, ScanInit, SkipInit, WaitInit, LinesInit DEF EntryInv
<1>2. EntryInv /\ [Next]_vars => EntryInv'
  BY TypeStep, ScanStep, SkipStep, ForkStep, WaitStep DEF EntryInv
<1> QED
  BY <1>1, <1>2, CountStep, LinesStep, PTL DEF Spec

\* What main counts are the matches of all the files it could reach, each
\* once, and nobody writes to the log any more, for every tree.
THEOREM CountIsExact == Spec => []LinesExact
<1>1. EntryInv /\ CountInv /\ LinesInv => LinesExact
  <2> SUFFICES ASSUME EntryInv, CountInv, LinesInv, counter # NoResult
               PROVE  /\ \A f \in Files : fpc[f] \in {"absent", "reaped"}
                      /\ counter = MatchesOf({f \in Files : ~Missed(f)})
    BY DEF LinesExact
  <2>1. pc[Root] \in Done
    BY DEF CountInv, Done
  <2>2. \A f \in Files : fpc[f] \in {"absent", "reaped"}
    BY <2>1, NobodyLeft
  <2>3. Searched = {f \in Files : ~Missed(f)}
    <3>1. ASSUME NEW f \in Files, ~Missed(f) PROVE f \in Searched
      BY <2>1, <3>1, AllSearched DEF Searched, Missed
    <3>2. ASSUME NEW f \in Searched PROVE ~Missed(f)
      BY <3>2, BelowSkipped DEF Searched, Missed
    <3> QED
      BY <3>1, <3>2 DEF Searched
  <2> QED
    BY <2>2, <2>3 DEF LinesInv
<1> QED
  BY <1>1, Invariant, PTL

(***************************************************************************)
(* Nobody waits for ever.  A process blocks in wait() only while a child   *)
(* of its own runs, so of the live processes one that has no live one      *)
(* below it can go on.                                                     *)
(***************************************************************************)

\* The process of d is at a call that returns: wait() does when a child has
\* exited and when there is none.
Ready(d) ==
  \/ pc[d] \in {"explore", "scan"} \/ (d = Root /\ pc[d] = "count")
  \/ /\ pc[d] = "wait"
     /\ \/ \E c \in Subdirs(d) : pc[c] = "exited"
        \/ \E f \in FilesOf(d) : fpc[f] = "exited"
        \/ /\ \A c \in Subdirs(d) : pc[c] \in {"absent", "reaped"}
           /\ \A f \in FilesOf(d) : fpc[f] \in {"absent", "reaped"}

\* Until main has ended there is always a process that can go on: the
\* processes of hw2.c never all wait for each other.
THEOREM NoDeadlock ==
  Spec => [](pc[Root] # "exited" =>
               (\E d \in Dirs : Ready(d)) \/ \E f \in Files : fpc[f] = "search")
<1>1. ASSUME EntryInv, CountInv, pc[Root] # "exited",
             \A f \in Files : fpc[f] # "search"
      PROVE  \E d \in Dirs : Ready(d)
  <2> DEFINE L == {d \in Dirs : pc[d] \notin {"absent", "exited", "reaped"}}
  <2>1. Root \in L
    BY <1>1, TreeAssumption DEF CountInv
  <2>2. PICK d \in L : \A e \in L : e \in Below(d) => e = d
    <3>1. L \in SUBSET Dirs /\ L # {}
      BY <2>1
    <3> HIDE DEF L
    <3> QED
      BY <3>1, Lowest
  <2>3. \A c \in Subdirs(d) : c \in Below(d) /\ c # d /\ c \in Dirs
    BY BelowBasics, SubdirsProper DEF Subdirs
  <2>4. pc[d] \in DirStates /\ \A f \in Files : fpc[f] \in FileStates
    BY <1>1 DEF EntryInv, TypeOK, DirStates, FileStates
  <2>5. \A c \in Subdirs(d) : pc[c] \in {"absent", "exited", "reaped"}
    BY <2>2, <2>3
  <2>6. \A f \in FilesOf(d) : fpc[f] \in {"absent", "exited", "reaped"}
    BY <1>1, <2>4 DEF FilesOf, FileStates
  <2>7. Ready(d)
    BY <1>1, <2>2, <2>4, <2>5, <2>6 DEF Ready, DirStates, CountInv
  <2> QED
    BY <2>7
<1>2. EntryInv /\ CountInv =>
        (pc[Root] # "exited" =>
           (\E d \in Dirs : Ready(d)) \/ \E f \in Files : fpc[f] = "search")
  BY <1>1
<1> QED
  BY <1>2, Invariant, PTL

(***************************************************************************)
(* Refinement of CountOnce: the contributions of the files are the lines   *)
(* their processes write, the answer is what main counts.                  *)
(***************************************************************************)

Excused == {f \in Files : Missed(f)}
Sum == IF counter = NoResult THEN lines ELSE counter

Abstract == INSTANCE CountOnce WITH
  counted <- Searched, excused <- Excused, sum <- Sum,
  interrupted <- FALSE, answer <- counter

RefInv == EntryInv /\ CountInv /\ LinesInv

\* No file that is excused has been searched or is being searched.
LEMMA ExcusedIdle ==
  ASSUME EntryInv, NEW f \in Files, Missed(f)
  PROVE  fpc[f] # "search" /\ f \notin Searched
<1>1. CASE f \in skipped
  BY <1>1 DEF EntryInv, SkipInv, Searched
<1>2. CASE f \notin skipped
  BY <1>2, BelowSkipped DEF Missed, Searched
<1> QED
  BY <1>1, <1>2

\* The same in terms of sets.
LEMMA ExcusedApart == EntryInv => Searched \cap Excused = {}
BY ExcusedIdle DEF Excused

\* Steps that CountOnce does not see.
LEMMA Hidden ==
  ASSUME UNCHANGED <<lines, counter, skipped>>, Searched' = Searched
  PROVE  [Abstract!Next]_Abstract!vars
<1>1. Excused' = Excused /\ Sum' = Sum
  BY DEF Excused, Missed, Sum
<1> QED
  BY <1>1 DEF Abstract!vars

\* A file or directory that fails excuses itself and the files below it.
LEMMA SkipExcuses ==
  ASSUME EntryInv', NEW e, skipped' = skipped \cup {e},
         UNCHANGED <<lines, counter>>, Searched' = Searched
  PROVE  [Abstract!Next]_Abstract!vars
<1>1. Searched' \cap Excused' = {}
  <2>1. (EntryInv => Searched \cap Excused = {})'
    BY ExcusedApart, PTL
  <2> QED
    BY <2>1
<1>2. Excused' = Excused \cup Excused' /\ Excused' \in SUBSET Files
  BY DEF Excused, Missed
<1>3. Sum' = Sum
  BY DEF Sum
<1>4. Abstract!Excuse(Excused')
  BY <1>1, <1>2, <1>3 DEF Abstract!Excuse
<1> QED
  BY <1>2, <1>4 DEF Abstract!Next

\* The process of a file writes its lines: the file is counted.
LEMMA SearchCounts ==
  ASSUME RefInv, NEW f \in Files, Search(f)
  PROVE  [Abstract!Next]_Abstract!vars
<1>1. /\ fpc[f] = "search" /\ fpc' = [fpc EXCEPT ![f] = "exited"]
      /\ lines' = lines + matches[f] /\ UNCHANGED <<counter, skipped>>
  BY DEF Search
<1>2. f \notin Searched /\ ~Missed(f) /\ f \notin Excused
  BY <1>1, ExcusedIdle DEF RefInv, Searched, Excused
<1>3. Searched' = Searched \cup {f}
  <2>1. fpc \in [Files -> FileStates] /\ f \notin skipped
    BY <1>2 DEF RefInv, EntryInv, TypeOK, FileStates, Missed
  <2> QED
    BY <1>1, <2>1 DEF Searched
<1>4. counter = NoResult
  BY <1>1, NobodyLeft DEF RefInv, CountInv, Done
<1>5. Excused' = Excused /\ Sum' = Sum + matches[f]
  BY <1>1, <1>4 DEF Excused, Missed, Sum
<1>6. Abstract!Count(f)
  BY <1>1, <1>2, <1>3, <1>4, <1>5 DEF Abstract!Count
<1> QED
  BY <1>6 DEF Abstract!Next

\* main counts the lines: everything has been searched or is excused.
LEMMA CountAnswers ==
  ASSUME RefInv, CountLines
  PROVE  [Abstract!Next]_Abstract!vars
<1>1. /\ pc[Root] = "count" /\ counter' = lines /\ counter = NoResult
      /\ UNCHANGED <<fpc, skipped>>
  BY DEF CountLines, RefInv, CountInv
<1>2. Searched \cup Excused = Files
  <2>1. ASSUME NEW f \in Files, ~Missed(f) PROVE f \in Searched
    BY <1>1, <2>1, AllSearched DEF RefInv, Done, Searched, Missed
  <2> QED
    BY <2>1 DEF Excused, Searched
<1>3. Searched' = Searched /\ Excused' = Excused
  BY <1>1 DEF Searched, Excused, Missed
<1>4. Sum = lines /\ Sum' = lines
  <2>1. lines # NoResult
    BY ListDirAssumption DEF RefInv, EntryInv, TypeOK
  <2> QED
    BY <1>1, <2>1 DEF Sum
<1>5. Abstract!Answer
  BY <1>1, <1>2, <1>3, <1>4 DEF Abstract!Answer
<1> QED
  BY <1>5 DEF Abstract!Next

\* Every step of the program is a step of CountOnce or a stutter.
LEMMA RefStep == RefInv /\ EntryInv' /\ [Next]_vars => [Abstract!Next]_Abstract!vars
<1> SUFFICES ASSUME RefInv, EntryInv', [Next]_vars PROVE [Abstract!Next]_Abstract!vars
  OBVIOUS
<1>0. /\ EntryInv /\ Root \in Dirs /\ Files \cap Dirs = {}
      /\ pc \in [Dirs -> DirStates] /\ fpc \in [Files -> FileStates]
  BY TreeAssumption, FilesAssumption DEF RefInv, EntryInv, TypeOK, DirStates, FileStates
<1>1. CASE CountLines
  BY <1>1, CountAnswers
<1>2. ASSUME NEW d \in Dirs, Explore(d)
      PROVE  [Abstract!Next]_Abstract!vars
  <2>1. Searched' = Searched
    BY <1>2, <1>0, EntryOfOne DEF EntryInv, ScanInv, Searched, Explore
  <2> QED
    BY <1>2, <2>1, Hidden DEF Explore
<1>3. ASSUME NEW d \in Dirs, ExploreFails(d)
      PROVE  [Abstract!Next]_Abstract!vars
  <2>1. Searched' = Searched
    BY <1>3, <1>0, EntryOfOne DEF EntryInv, ScanInv, Searched, ExploreFails, Return
  <2>2. skipped' = skipped \cup {d} /\ UNCHANGED <<lines, counter>>
    BY <1>3 DEF ExploreFails
  <2> QED
    BY <2>1, <2>2, SkipExcuses
<1>4. ASSUME NEW d \in Dirs, ScanDone(d)
      PROVE  [Abstract!Next]_Abstract!vars
  <2>1. Searched' = Searched
    BY <1>4, <1>0, EntryOfOne DEF EntryInv, ScanInv, Searched, ScanDone
  <2> QED
    BY <1>4, <2>1, Hidden DEF ScanDone
<1>5. ASSUME NEW d \in Dirs, WaitDone(d)
      PROVE  [Abstract!Next]_Abstract!vars
  <2>1. Searched' = Searched
    BY <1>5, <1>0, EntryOfOne DEF EntryInv, ScanInv, Searched, WaitDone
  <2> QED
    BY <1>5, <2>1, Hidden DEF WaitDone
<1>6. ASSUME NEW d \in Dirs, NEW e \in Files \cup Dirs, Fork(d, e)
      PROVE  [Abstract!Next]_Abstract!vars
  <2>1. Searched' = Searched
    BY <1>6, <1>0, EntryOfOne DEF EntryInv, ScanInv, Searched, Fork
  <2> QED
    BY <1>6, <2>1, Hidden DEF Fork
<1>7. ASSUME NEW d \in Dirs, NEW e \in Files \cup Dirs, ForkFails(d, e)
      PROVE  [Abstract!Next]_Abstract!vars
  <2>1. Searched' = Searched
    BY <1>7, <1>0, EntryOfOne DEF EntryInv, ScanInv, Searched, ForkFails
  <2>2. skipped' = skipped \cup {e} /\ UNCHANGED <<lines, counter>>
    BY <1>7 DEF ForkFails
  <2> QED
    BY <2>1, <2>2, SkipExcuses
<1>8. ASSUME NEW d \in Dirs, NEW e \in Files \cup Dirs, Reap(d, e)
      PROVE  [Abstract!Next]_Abstract!vars
  <2>1. Searched' = Searched
    BY <1>8, <1>0, EntryOfOne DEF EntryInv, ScanInv, Searched, Reap
  <2> QED
    BY <1>8, <2>1, Hidden DEF Reap
<1>9. ASSUME NEW f \in Files, Search(f)
      PROVE  [Abstract!Next]_Abstract!vars
  BY <1>9, SearchCounts
<1>10. ASSUME NEW f \in Files, SearchFails(f)
      PROVE  [Abstract!Next]_Abstract!vars
  <2>1. Searched' = Searched
    BY <1>10, <1>0, EntryOfOne DEF EntryInv, ScanInv, Searched, SearchFails
  <2>2. skipped' = skipped \cup {f} /\ UNCHANGED <<lines, counter>>
    BY <1>10 DEF SearchFails
  <2> QED
    BY <2>1, <2>2, SkipExcuses
<1>11. CASE UNCHANGED vars
  <2>1. Searched' = Searched
    BY <1>11 DEF Searched, vars
  <2> QED
    BY <1>11, <2>1, Hidden DEF vars
<1> QED
  BY <1>1, <1>2, <1>3, <1>4, <1>5, <1>6, <1>7, <1>8, <1>9, <1>10, <1>11
  DEF Next, DirStep, FileStep

\* The processes of listdir implement CountOnce, for every tree: every file is
\* counted once or excused, and what main counts is their sum and is final.
THEOREM ImplementsCountOnce == Spec => Abstract!Spec
<1>1. Init => Abstract!Init
  <2> SUFFICES ASSUME Init PROVE Abstract!Init
    OBVIOUS
  <2>1. Searched = {} /\ Excused = {} /\ Sum = 0 /\ counter = NoResult
    BY DEF Init, Searched, Excused, Missed, Sum
  <2> QED
    BY <2>1 DEF Abstract!Init
<1>2. Spec => []RefInv
  BY Invariant, PTL DEF RefInv
<1>3. RefInv /\ RefInv' /\ [Next]_vars => [Abstract!Next]_Abstract!vars
  BY RefStep DEF RefInv
<1> QED
  BY <1>1, <1>2, <1>3, PTL DEF Spec, Abstract!Spec
=============================================================================
