--------------------------- MODULE GrepThreadProofs ---------------------------
(***************************************************************************)
(* Theorems about GrepThread: reusing one argument for all the threads of  *)
(* a process is safe, and what main counts is what the threads of all the  *)
(* files it could reach have written, for every tree.                      *)
(***************************************************************************)
EXTENDS GrepThread, SearchTreeProofs

(***************************************************************************)
(* Types, entries and arguments.                                           *)
(***************************************************************************)

DirStates == {"absent", "explore", "scan", "join", "wait", "read", "count", "exited",
              "reaped"}
ThreadStates == {"absent", "created", "search", "exited", "joined"}
Unread == {"absent", "explore"}
Done == {"count", "exited", "reaped"}

\* Entries are started by the process of their directory, while it reads.
ScanInv ==
  \A d \in Dirs :
    /\ pc[d] \notin {"scan", "join"} => todo[d] = {}
    /\ pc[d] \in Unread => /\ \A f \in FilesOf(d) : tpc[f] = "absent"
                           /\ \A c \in Subdirs(d) : pc[c] = "absent"
    /\ \A e \in todo[d] : \/ e \in FilesOf(d) /\ tpc[e] = "absent"
                          \/ e \in Subdirs(d) /\ pc[e] = "absent"

\* A thread that is not joined yet is the one its process waits for, so that
\* the argument is still the thread's, and so is the semaphore.
ArgInv ==
  /\ \A d \in Dirs : pc[d] = "join" =>
       /\ threadArgs[d] \in FilesOf(d)
       /\ tpc[threadArgs[d]] \in {"created", "search", "exited"}
       /\ semID[d] = IF tpc[threadArgs[d]] = "search" THEN 0 ELSE 1
  /\ \A f \in Files : tpc[f] \in {"created", "search", "exited"} =>
       pc[fileDir[f]] = "join" /\ threadArgs[fileDir[f]] = f
  /\ \A f \in Files : tpc[f] = "search" => path[f] = f

TypeInv == TypeOK /\ ScanInv /\ ArgInv

\* At first there is no thread.
LEMMA TypeInit == Init => TypeInv
BY TreeAssumption, FilesAssumption, EntryOfOne
DEF Init, TypeInv, TypeOK, ScanInv, ArgInv, Unread, threads, results

\* Every step keeps the types; the semaphore is never more than 1.
LEMMA TypeStep == TypeInv /\ [Next]_vars => TypeOK'
<1> SUFFICES ASSUME TypeInv, [Next]_vars PROVE TypeOK'
  OBVIOUS
<1>0. /\ Root \in Dirs /\ matches \in [Files -> Nat] /\ fileDir \in [Files -> Dirs]
      /\ TypeOK /\ ArgInv
  BY TreeAssumption, FilesAssumption DEF TypeInv
<1>1. CASE CountLines
  BY <1>1, <1>0
  DEF TypeOK, CountLines, threads, results
<1>2. CASE StdinEnds
  BY <1>2, <1>0
  DEF TypeOK, StdinEnds, threads, results
<1>3. ASSUME NEW d \in Dirs, Explore(d) PROVE TypeOK'
  <2>1. FilesOf(d) \cup Subdirs(d) \subseteq Files \cup Dirs
    BY DEF FilesOf, Subdirs
  <2> QED
    BY <1>3, <1>0, <2>1 DEF TypeOK, Explore, threads, results
<1>4. ASSUME NEW d \in Dirs, ExploreFails(d) PROVE TypeOK'
  BY <1>4, <1>0
  DEF TypeOK, ExploreFails, Return, threads, results
<1>5. ASSUME NEW d \in Dirs, Join(d) PROVE TypeOK'
  <2>1. threadArgs[d] \in Files
    BY <1>5, <1>0 DEF ArgInv, Join, FilesOf
  <2> QED
    BY <1>5, <1>0, <2>1 DEF TypeOK, Join, results
<1>6. ASSUME NEW d \in Dirs, ScanDone(d) PROVE TypeOK'
  BY <1>6, <1>0
  DEF TypeOK, ScanDone, threads, results
<1>7. ASSUME NEW d \in Dirs, ReadEnd(d) PROVE TypeOK'
  BY <1>7, <1>0
  DEF TypeOK, ReadEnd, threads, results
<1>8. ASSUME NEW d \in Dirs, WaitDone(d) PROVE TypeOK'
  BY <1>8, <1>0
  DEF TypeOK, WaitDone, Return, threads, results
<1>9. ASSUME NEW d \in Dirs, NEW c \in Dirs, ForkDir(d, c) PROVE TypeOK'
  BY <1>9, <1>0
  DEF TypeOK, ForkDir, threads, results
<1>10. ASSUME NEW d \in Dirs, NEW c \in Dirs, ForkFails(d, c) PROVE TypeOK'
  BY <1>10, <1>0
  DEF TypeOK, ForkFails, threads, results
<1>11. ASSUME NEW d \in Dirs, NEW c \in Dirs, Reap(d, c) PROVE TypeOK'
  BY <1>11, <1>0
  DEF TypeOK, Reap, threads, results
<1>12. ASSUME NEW d \in Dirs, NEW f \in Files, CreateThread(d, f) PROVE TypeOK'
  BY <1>12, <1>0
  DEF TypeOK, CreateThread, NewThread, threads, results
<1>13. ASSUME NEW f \in Files, Start(f) PROVE TypeOK'
  BY <1>13, <1>0
  DEF TypeOK, Start, threads, results
<1>14. ASSUME NEW f \in Files, Search(f) PROVE TypeOK'
  <2>1. tpc[f] = "search" /\ semID[fileDir[f]] = 0 /\ path[f] = f
    BY <1>14, <1>0 DEF ArgInv, Search, End
  <2> QED
    BY <1>14, <1>0, <2>1 DEF TypeOK, Search, End
<1>15. ASSUME NEW f \in Files, SearchFails(f) PROVE TypeOK'
  <2>1. tpc[f] = "search" /\ semID[fileDir[f]] = 0 /\ path[f] = f
    BY <1>15, <1>0 DEF ArgInv, SearchFails, End
  <2> QED
    BY <1>15, <1>0, <2>1 DEF TypeOK, SearchFails, End
<1>16. CASE UNCHANGED vars
  BY <1>16, <1>0
  DEF TypeOK, vars, threads, results
<1> QED
  BY <1>1, <1>2, <1>3, <1>4, <1>5, <1>6, <1>7, <1>8, <1>9, <1>10, <1>11, <1>12, <1>13,
     <1>14, <1>15, <1>16
  DEF Next, DirStep, ThreadStep

\* An entry that is started leaves todo.
LEMMA ScanStep == TypeInv /\ [Next]_vars => ScanInv'
<1> SUFFICES ASSUME TypeInv, [Next]_vars PROVE ScanInv'
  OBVIOUS
<1>0. /\ Root \in Dirs /\ pc \in [Dirs -> DirStates] /\ tpc \in [Files -> ThreadStates]
      /\ todo \in [Dirs -> SUBSET (Files \cup Dirs)]
      /\ semID \in [Dirs -> {0, 1}] /\ threadArgs \in [Dirs -> Files \cup {None}]
      /\ path \in [Files -> Files \cup {None}]
      /\ Files \cap Dirs = {} /\ fileDir \in [Files -> Dirs]
  BY TreeAssumption, FilesAssumption DEF TypeInv, TypeOK, DirStates, ThreadStates
<1>1. CASE CountLines
  BY <1>1, <1>0, EntryOfOne
  DEF TypeInv, ScanInv, ArgInv, Unread, CountLines, threads, results
<1>2. CASE StdinEnds
  BY <1>2, <1>0, EntryOfOne
  DEF TypeInv, ScanInv, ArgInv, Unread, StdinEnds, threads, results
<1>3. ASSUME NEW d \in Dirs, Explore(d) PROVE ScanInv'
  BY <1>3, <1>0, EntryOfOne
  DEF TypeInv, ScanInv, ArgInv, Unread, Explore, threads, results
<1>4. ASSUME NEW d \in Dirs, ExploreFails(d) PROVE ScanInv'
  BY <1>4, <1>0, EntryOfOne
  DEF TypeInv, ScanInv, ArgInv, Unread, ExploreFails, Return, threads, results
<1>5. ASSUME NEW d \in Dirs, Join(d) PROVE ScanInv'
  BY <1>5, <1>0, EntryOfOne
  DEF TypeInv, ScanInv, ArgInv, Unread, Join, threads, results
<1>6. ASSUME NEW d \in Dirs, ScanDone(d) PROVE ScanInv'
  BY <1>6, <1>0, EntryOfOne
  DEF TypeInv, ScanInv, ArgInv, Unread, ScanDone, threads, results
<1>7. ASSUME NEW d \in Dirs, ReadEnd(d) PROVE ScanInv'
  BY <1>7, <1>0, EntryOfOne
  DEF TypeInv, ScanInv, ArgInv, Unread, ReadEnd, threads, results
<1>8. ASSUME NEW d \in Dirs, WaitDone(d) PROVE ScanInv'
  BY <1>8, <1>0, EntryOfOne
  DEF TypeInv, ScanInv, ArgInv, Unread, WaitDone, Return, threads, results
<1>9. ASSUME NEW d \in Dirs, NEW c \in Dirs, ForkDir(d, c) PROVE ScanInv'
  BY <1>9, <1>0, EntryOfOne
  DEF TypeInv, ScanInv, ArgInv, Unread, ForkDir, threads, results
<1>10. ASSUME NEW d \in Dirs, NEW c \in Dirs, ForkFails(d, c) PROVE ScanInv'
  BY <1>10, <1>0, EntryOfOne
  DEF TypeInv, ScanInv, ArgInv, Unread, ForkFails, threads, results
<1>11. ASSUME NEW d \in Dirs, NEW c \in Dirs, Reap(d, c) PROVE ScanInv'
  BY <1>11, <1>0, EntryOfOne
  DEF TypeInv, ScanInv, ArgInv, Unread, Reap, threads, results
<1>12. ASSUME NEW d \in Dirs, NEW f \in Files, CreateThread(d, f) PROVE ScanInv'
  BY <1>12, <1>0, EntryOfOne
  DEF TypeInv, ScanInv, ArgInv, Unread, CreateThread, NewThread, threads, results
<1>13. ASSUME NEW f \in Files, Start(f) PROVE ScanInv'
  BY <1>13, <1>0, EntryOfOne
  DEF TypeInv, ScanInv, ArgInv, Unread, Start, threads, results
<1>14. ASSUME NEW f \in Files, Search(f) PROVE ScanInv'
  BY <1>14, <1>0, EntryOfOne
  DEF TypeInv, ScanInv, ArgInv, Unread, Search, End, threads, results
<1>15. ASSUME NEW f \in Files, SearchFails(f) PROVE ScanInv'
  BY <1>15, <1>0, EntryOfOne
  DEF TypeInv, ScanInv, ArgInv, Unread, SearchFails, End, threads, results
<1>16. CASE UNCHANGED vars
  BY <1>16, <1>0, EntryOfOne
  DEF TypeInv, ScanInv, ArgInv, Unread, vars, threads, results
<1> QED
  BY <1>1, <1>2, <1>3, <1>4, <1>5, <1>6, <1>7, <1>8, <1>9, <1>10, <1>11, <1>12, <1>13,
     <1>14, <1>15, <1>16
  DEF Next, DirStep, ThreadStep

\* The argument is assigned again only when the thread has been joined.
LEMMA ArgStep == TypeInv /\ [Next]_vars => ArgInv'
<1> SUFFICES ASSUME TypeInv, [Next]_vars PROVE ArgInv'
  OBVIOUS
<1>0. /\ Root \in Dirs /\ pc \in [Dirs -> DirStates] /\ tpc \in [Files -> ThreadStates]
      /\ todo \in [Dirs -> SUBSET (Files \cup Dirs)]
      /\ semID \in [Dirs -> {0, 1}] /\ threadArgs \in [Dirs -> Files \cup {None}]
      /\ path \in [Files -> Files \cup {None}]
      /\ Files \cap Dirs = {} /\ fileDir \in [Files -> Dirs]
  BY TreeAssumption, FilesAssumption DEF TypeInv, TypeOK, DirStates, ThreadStates
<1>00. \A f \in Files, d \in Dirs : f \in FilesOf(d) <=> fileDir[f] = d
  BY DEF FilesOf
<1>1. CASE CountLines
  BY <1>1, <1>0, <1>00, EntryOfOne
  DEF TypeInv, ScanInv, ArgInv, CountLines, threads, results
<1>2. CASE StdinEnds
  BY <1>2, <1>0, <1>00, EntryOfOne
  DEF TypeInv, ScanInv, ArgInv, StdinEnds, threads, results
<1>3. ASSUME NEW d \in Dirs, Explore(d) PROVE ArgInv'
  BY <1>3, <1>0, <1>00, EntryOfOne
  DEF TypeInv, ScanInv, ArgInv, Explore, threads, results
<1>4. ASSUME NEW d \in Dirs, ExploreFails(d) PROVE ArgInv'
  BY <1>4, <1>0, <1>00, EntryOfOne
  DEF TypeInv, ScanInv, ArgInv, ExploreFails, Return, threads, results
<1>5. ASSUME NEW d \in Dirs, Join(d) PROVE ArgInv'
  BY <1>5, <1>0, <1>00, EntryOfOne
  DEF TypeInv, ScanInv, ArgInv, Join, threads, results
<1>6. ASSUME NEW d \in Dirs, ScanDone(d) PROVE ArgInv'
  BY <1>6, <1>0, <1>00, EntryOfOne
  DEF TypeInv, ScanInv, ArgInv, ScanDone, threads, results
<1>7. ASSUME NEW d \in Dirs, ReadEnd(d) PROVE ArgInv'
  BY <1>7, <1>0, <1>00, EntryOfOne
  DEF TypeInv, ScanInv, ArgInv, ReadEnd, threads, results
<1>8. ASSUME NEW d \in Dirs, WaitDone(d) PROVE ArgInv'
  BY <1>8, <1>0, <1>00, EntryOfOne
  DEF TypeInv, ScanInv, ArgInv, WaitDone, Return, threads, results
<1>9. ASSUME NEW d \in Dirs, NEW c \in Dirs, ForkDir(d, c) PROVE ArgInv'
  BY <1>9, <1>0, <1>00, EntryOfOne
  DEF TypeInv, ScanInv, ArgInv, ForkDir, threads, results
<1>10. ASSUME NEW d \in Dirs, NEW c \in Dirs, ForkFails(d, c) PROVE ArgInv'
  BY <1>10, <1>0, <1>00, EntryOfOne
  DEF TypeInv, ScanInv, ArgInv, ForkFails, threads, results
<1>11. ASSUME NEW d \in Dirs, NEW c \in Dirs, Reap(d, c) PROVE ArgInv'
  BY <1>11, <1>0, <1>00, EntryOfOne
  DEF TypeInv, ScanInv, ArgInv, Reap, threads, results
<1>12. ASSUME NEW d \in Dirs, NEW f \in Files, CreateThread(d, f) PROVE ArgInv'
  BY <1>12, <1>0, <1>00, EntryOfOne
  DEF TypeInv, ScanInv, ArgInv, CreateThread, NewThread, threads, results
<1>13. ASSUME NEW f \in Files, Start(f) PROVE ArgInv'
  BY <1>13, <1>0, <1>00, EntryOfOne
  DEF TypeInv, ScanInv, ArgInv, Start, threads, results
<1>14. ASSUME NEW f \in Files, Search(f) PROVE ArgInv'
  BY <1>14, <1>0, <1>00, EntryOfOne
  DEF TypeInv, ScanInv, ArgInv, Search, End, threads, results
<1>15. ASSUME NEW f \in Files, SearchFails(f) PROVE ArgInv'
  BY <1>15, <1>0, <1>00, EntryOfOne
  DEF TypeInv, ScanInv, ArgInv, SearchFails, End, threads, results
<1>16. CASE UNCHANGED vars
  BY <1>16, <1>0, <1>00, EntryOfOne
  DEF TypeInv, ScanInv, ArgInv, vars, threads, results
<1> QED
  BY <1>1, <1>2, <1>3, <1>4, <1>5, <1>6, <1>7, <1>8, <1>9, <1>10, <1>11, <1>12, <1>13,
     <1>14, <1>15, <1>16
  DEF Next, DirStep, ThreadStep

(***************************************************************************)
(* What was skipped.                                                       *)
(***************************************************************************)

\* A skipped directory has started nothing, a skipped file has been tried,
\* and the parent of a skipped directory has it behind.
SkipInv ==
  /\ \A d \in skipped \cap Dirs :
       /\ pc[d] \in {"absent"} \cup Done
       /\ \A f \in FilesOf(d) : tpc[f] = "absent"
       /\ \A c \in Subdirs(d) : pc[c] = "absent"
  /\ \A f \in skipped \cap Files : tpc[f] \in {"exited", "joined"}
  /\ \A d \in Dirs : \A c \in Subdirs(d) :
       c \in skipped => pc[d] \notin Unread /\ c \notin todo[d]

\* At first nothing is skipped.
LEMMA SkipInit == Init => SkipInv
BY DEF Init, SkipInv

\* Only what has just failed is skipped.
LEMMA SkipStep == TypeInv /\ SkipInv /\ [Next]_vars => SkipInv'
<1> SUFFICES ASSUME TypeInv, SkipInv, [Next]_vars PROVE SkipInv'
  OBVIOUS
<1>0. /\ Root \in Dirs /\ pc \in [Dirs -> DirStates] /\ tpc \in [Files -> ThreadStates]
      /\ todo \in [Dirs -> SUBSET (Files \cup Dirs)]
      /\ semID \in [Dirs -> {0, 1}] /\ threadArgs \in [Dirs -> Files \cup {None}]
      /\ path \in [Files -> Files \cup {None}]
      /\ Files \cap Dirs = {} /\ fileDir \in [Files -> Dirs]
  BY TreeAssumption, FilesAssumption DEF TypeInv, TypeOK, DirStates, ThreadStates
<1>1. CASE CountLines
  BY <1>1, <1>0, EntryOfOne
  DEF TypeInv, ScanInv, ArgInv, SkipInv, Unread, Done, CountLines, threads, results
<1>2. CASE StdinEnds
  BY <1>2, <1>0, EntryOfOne
  DEF TypeInv, ScanInv, ArgInv, SkipInv, Unread, Done, StdinEnds, threads, results
<1>3. ASSUME NEW d \in Dirs, Explore(d) PROVE SkipInv'
  BY <1>3, <1>0, EntryOfOne
  DEF TypeInv, ScanInv, ArgInv, SkipInv, Unread, Done, Explore, threads, results
<1>4. ASSUME NEW d \in Dirs, ExploreFails(d) PROVE SkipInv'
  BY <1>4, <1>0, EntryOfOne
  DEF TypeInv, ScanInv, ArgInv, SkipInv, Unread, Done, ExploreFails, Return, threads,
     results
<1>5. ASSUME NEW d \in Dirs, Join(d) PROVE SkipInv'
  BY <1>5, <1>0, EntryOfOne
  DEF TypeInv, ScanInv, ArgInv, SkipInv, Unread, Done, Join, threads, results
<1>6. ASSUME NEW d \in Dirs, ScanDone(d) PROVE SkipInv'
  BY <1>6, <1>0, EntryOfOne
  DEF TypeInv, ScanInv, ArgInv, SkipInv, Unread, Done, ScanDone, threads, results
<1>7. ASSUME NEW d \in Dirs, ReadEnd(d) PROVE SkipInv'
  BY <1>7, <1>0, EntryOfOne
  DEF TypeInv, ScanInv, ArgInv, SkipInv, Unread, Done, ReadEnd, threads, results
<1>8. ASSUME NEW d \in Dirs, WaitDone(d) PROVE SkipInv'
  BY <1>8, <1>0, EntryOfOne
  DEF TypeInv, ScanInv, ArgInv, SkipInv, Unread, Done, WaitDone, Return, threads,
     results
<1>9. ASSUME NEW d \in Dirs, NEW c \in Dirs, ForkDir(d, c) PROVE SkipInv'
  BY <1>9, <1>0, EntryOfOne
  DEF TypeInv, ScanInv, ArgInv, SkipInv, Unread, Done, ForkDir, threads, results
<1>10. ASSUME NEW d \in Dirs, NEW c \in Dirs, ForkFails(d, c) PROVE SkipInv'
  BY <1>10, <1>0, EntryOfOne
  DEF TypeInv, ScanInv, ArgInv, SkipInv, Unread, Done, ForkFails, threads, results
<1>11. ASSUME NEW d \in Dirs, NEW c \in Dirs, Reap(d, c) PROVE SkipInv'
  BY <1>11, <1>0, EntryOfOne
  DEF TypeInv, ScanInv, ArgInv, SkipInv, Unread, Done, Reap, threads, results
<1>12. ASSUME NEW d \in Dirs, NEW f \in Files, CreateThread(d, f) PROVE SkipInv'
  BY <1>12, <1>0, EntryOfOne
  DEF TypeInv, ScanInv, ArgInv, SkipInv, Unread, Done, CreateThread, NewThread, threads,
     results
<1>13. ASSUME NEW f \in Files, Start(f) PROVE SkipInv'
  BY <1>13, <1>0, EntryOfOne
  DEF TypeInv, ScanInv, ArgInv, SkipInv, Unread, Done, Start, threads, results
<1>14. ASSUME NEW f \in Files, Search(f) PROVE SkipInv'
  BY <1>14, <1>0, EntryOfOne
  DEF TypeInv, ScanInv, ArgInv, SkipInv, Unread, Done, Search, End, threads, results
<1>15. ASSUME NEW f \in Files, SearchFails(f) PROVE SkipInv'
  BY <1>15, <1>0, EntryOfOne
  DEF TypeInv, ScanInv, ArgInv, SkipInv, Unread, Done, SearchFails, End, threads,
     results
<1>16. CASE UNCHANGED vars
  BY <1>16, <1>0, EntryOfOne
  DEF TypeInv, ScanInv, ArgInv, SkipInv, Unread, Done, vars, threads, results
<1> QED
  BY <1>1, <1>2, <1>3, <1>4, <1>5, <1>6, <1>7, <1>8, <1>9, <1>10, <1>11, <1>12, <1>13,
     <1>14, <1>15, <1>16
  DEF Next, DirStep, ThreadStep

(***************************************************************************)
(* What was forked for and what has been waited for.                       *)
(***************************************************************************)

\* An entry that has been read has a thread or was forked for, or was skipped.
ForkInv ==
  \A d \in Dirs \ skipped : pc[d] \notin Unread =>
    /\ \A c \in Subdirs(d) : c \in todo[d] \/ c \in skipped \/ pc[c] # "absent"
    /\ \A f \in FilesOf(d) : f \in todo[d] \/ tpc[f] # "absent"

\* A process has reaped its children when its loop of waits is over.
WaitInv ==
  \A d \in Dirs : pc[d] \in Done => \A c \in Subdirs(d) : pc[c] \in {"absent", "reaped"}

\* Nothing is read at first.
LEMMA WaitInit == Init => ForkInv /\ WaitInv
BY TreeAssumption DEF Init, ForkInv, WaitInv, Done, Unread

\* An entry leaves todo only when it gets a thread or is forked for or skipped.
LEMMA ForkStep == TypeInv /\ SkipInv /\ ForkInv /\ [Next]_vars => ForkInv'
<1> SUFFICES ASSUME TypeInv, SkipInv, ForkInv, [Next]_vars PROVE ForkInv'
  OBVIOUS
<1>0. /\ Root \in Dirs /\ pc \in [Dirs -> DirStates] /\ tpc \in [Files -> ThreadStates]
      /\ todo \in [Dirs -> SUBSET (Files \cup Dirs)]
      /\ semID \in [Dirs -> {0, 1}] /\ threadArgs \in [Dirs -> Files \cup {None}]
      /\ path \in [Files -> Files \cup {None}]
      /\ Files \cap Dirs = {} /\ fileDir \in [Files -> Dirs]
  BY TreeAssumption, FilesAssumption DEF TypeInv, TypeOK, DirStates, ThreadStates
<1>1. CASE CountLines
  BY <1>1, <1>0, EntryOfOne
  DEF TypeInv, ScanInv, ArgInv, SkipInv, ForkInv, Unread, Done, CountLines, threads,
     results
<1>2. CASE StdinEnds
  BY <1>2, <1>0, EntryOfOne
  DEF TypeInv, ScanInv, ArgInv, SkipInv, ForkInv, Unread, Done, StdinEnds, threads,
     results
<1>3. ASSUME NEW d \in Dirs, Explore(d) PROVE ForkInv'
  BY <1>3, <1>0, EntryOfOne
  DEF TypeInv, ScanInv, ArgInv, SkipInv, ForkInv, Unread, Done, Explore, threads,
     results
<1>4. ASSUME NEW d \in Dirs, ExploreFails(d) PROVE ForkInv'
  BY <1>4, <1>0, EntryOfOne
  DEF TypeInv, ScanInv, ArgInv, SkipInv, ForkInv, Unread, Done, ExploreFails, Return,
     threads, results
<1>5. ASSUME NEW d \in Dirs, Join(d) PROVE ForkInv'
  BY <1>5, <1>0, EntryOfOne
  DEF TypeInv, ScanInv, ArgInv, SkipInv, ForkInv, Unread, Done, Join, threads, results
<1>6. ASSUME NEW d \in Dirs, ScanDone(d) PROVE ForkInv'
  BY <1>6, <1>0, EntryOfOne
  DEF TypeInv, ScanInv, ArgInv, SkipInv, ForkInv, Unread, Done, ScanDone, threads,
     results
<1>7. ASSUME NEW d \in Dirs, ReadEnd(d) PROVE ForkInv'
  BY <1>7, <1>0, EntryOfOne
  DEF TypeInv, ScanInv, ArgInv, SkipInv, ForkInv, Unread, Done, ReadEnd, threads,
     results
<1>8. ASSUME NEW d \in Dirs, WaitDone(d) PROVE ForkInv'
  BY <1>8, <1>0, EntryOfOne
  DEF TypeInv, ScanInv, ArgInv, SkipInv, ForkInv, Unread, Done, WaitDone, Return,
     threads, results
<1>9. ASSUME NEW d \in Dirs, NEW c \in Dirs, ForkDir(d, c) PROVE ForkInv'
  BY <1>9, <1>0, EntryOfOne
  DEF TypeInv, ScanInv, ArgInv, SkipInv, ForkInv, Unread, Done, ForkDir, threads,
     results
<1>10. ASSUME NEW d \in Dirs, NEW c \in Dirs, ForkFails(d, c) PROVE ForkInv'
  BY <1>10, <1>0, EntryOfOne
  DEF TypeInv, ScanInv, ArgInv, SkipInv, ForkInv, Unread, Done, ForkFails, threads,
     results
<1>11. ASSUME NEW d \in Dirs, NEW c \in Dirs, Reap(d, c) PROVE ForkInv'
  BY <1>11, <1>0, EntryOfOne
  DEF TypeInv, ScanInv, ArgInv, SkipInv, ForkInv, Unread, Done, Reap, threads, results
<1>12. ASSUME NEW d \in Dirs, NEW f \in Files, CreateThread(d, f) PROVE ForkInv'
  BY <1>12, <1>0, EntryOfOne
  DEF TypeInv, ScanInv, ArgInv, SkipInv, ForkInv, Unread, Done, CreateThread, NewThread,
     threads, results
<1>13. ASSUME NEW f \in Files, Start(f) PROVE ForkInv'
  BY <1>13, <1>0, EntryOfOne
  DEF TypeInv, ScanInv, ArgInv, SkipInv, ForkInv, Unread, Done, Start, threads, results
<1>14. ASSUME NEW f \in Files, Search(f) PROVE ForkInv'
  BY <1>14, <1>0, EntryOfOne
  DEF TypeInv, ScanInv, ArgInv, SkipInv, ForkInv, Unread, Done, Search, End, threads,
     results
<1>15. ASSUME NEW f \in Files, SearchFails(f) PROVE ForkInv'
  BY <1>15, <1>0, EntryOfOne
  DEF TypeInv, ScanInv, ArgInv, SkipInv, ForkInv, Unread, Done, SearchFails, End,
     threads, results
<1>16. CASE UNCHANGED vars
  BY <1>16, <1>0, EntryOfOne
  DEF TypeInv, ScanInv, ArgInv, SkipInv, ForkInv, Unread, Done, vars, threads, results
<1> QED
  BY <1>1, <1>2, <1>3, <1>4, <1>5, <1>6, <1>7, <1>8, <1>9, <1>10, <1>11, <1>12, <1>13,
     <1>14, <1>15, <1>16
  DEF Next, DirStep, ThreadStep

\* After its last wait() a process starts nobody.
LEMMA WaitStep == TypeInv /\ WaitInv /\ [Next]_vars => WaitInv'
<1> SUFFICES ASSUME TypeInv, WaitInv, [Next]_vars PROVE WaitInv'
  OBVIOUS
<1>0. /\ Root \in Dirs /\ pc \in [Dirs -> DirStates] /\ tpc \in [Files -> ThreadStates]
      /\ todo \in [Dirs -> SUBSET (Files \cup Dirs)]
      /\ semID \in [Dirs -> {0, 1}] /\ threadArgs \in [Dirs -> Files \cup {None}]
      /\ path \in [Files -> Files \cup {None}]
      /\ Files \cap Dirs = {} /\ fileDir \in [Files -> Dirs]
  BY TreeAssumption, FilesAssumption DEF TypeInv, TypeOK, DirStates, ThreadStates
<1>1. CASE CountLines
  BY <1>1, <1>0, EntryOfOne
  DEF TypeInv, ScanInv, WaitInv, Unread, Done, CountLines, threads, results
<1>2. CASE StdinEnds
  BY <1>2, <1>0, EntryOfOne
  DEF TypeInv, ScanInv, WaitInv, Unread, Done, StdinEnds, threads, results
<1>3. ASSUME NEW d \in Dirs, Explore(d) PROVE WaitInv'
  BY <1>3, <1>0, EntryOfOne
  DEF TypeInv, ScanInv, WaitInv, Unread, Done, Explore, threads, results
<1>4. ASSUME NEW d \in Dirs, ExploreFails(d) PROVE WaitInv'
  BY <1>4, <1>0, EntryOfOne
  DEF TypeInv, ScanInv, WaitInv, Unread, Done, ExploreFails, Return, threads, results
<1>5. ASSUME NEW d \in Dirs, Join(d) PROVE WaitInv'
  BY <1>5, <1>0, EntryOfOne
  DEF TypeInv, ScanInv, WaitInv, Unread, Done, Join, threads, results
<1>6. ASSUME NEW d \in Dirs, ScanDone(d) PROVE WaitInv'
  BY <1>6, <1>0, EntryOfOne
  DEF TypeInv, ScanInv, WaitInv, Unread, Done, ScanDone, threads, results
<1>7. ASSUME NEW d \in Dirs, ReadEnd(d) PROVE WaitInv'
  BY <1>7, <1>0, EntryOfOne
  DEF TypeInv, ScanInv, WaitInv, Unread, Done, ReadEnd, threads, results
<1>8. ASSUME NEW d \in Dirs, WaitDone(d) PROVE WaitInv'
  BY <1>8, <1>0, EntryOfOne
  DEF TypeInv, ScanInv, WaitInv, Unread, Done, WaitDone, Return, threads, results
<1>9. ASSUME NEW d \in Dirs, NEW c \in Dirs, ForkDir(d, c) PROVE WaitInv'
  BY <1>9, <1>0, EntryOfOne
  DEF TypeInv, ScanInv, WaitInv, Unread, Done, ForkDir, threads, results
<1>10. ASSUME NEW d \in Dirs, NEW c \in Dirs, ForkFails(d, c) PROVE WaitInv'
  BY <1>10, <1>0, EntryOfOne
  DEF TypeInv, ScanInv, WaitInv, Unread, Done, ForkFails, threads, results
<1>11. ASSUME NEW d \in Dirs, NEW c \in Dirs, Reap(d, c) PROVE WaitInv'
  BY <1>11, <1>0, EntryOfOne
  DEF TypeInv, ScanInv, WaitInv, Unread, Done, Reap, threads, results
<1>12. ASSUME NEW d \in Dirs, NEW f \in Files, CreateThread(d, f) PROVE WaitInv'
  BY <1>12, <1>0, EntryOfOne
  DEF TypeInv, ScanInv, WaitInv, Unread, Done, CreateThread, NewThread, threads, results
<1>13. ASSUME NEW f \in Files, Start(f) PROVE WaitInv'
  BY <1>13, <1>0, EntryOfOne
  DEF TypeInv, ScanInv, WaitInv, Unread, Done, Start, threads, results
<1>14. ASSUME NEW f \in Files, Search(f) PROVE WaitInv'
  BY <1>14, <1>0, EntryOfOne
  DEF TypeInv, ScanInv, WaitInv, Unread, Done, Search, End, threads, results
<1>15. ASSUME NEW f \in Files, SearchFails(f) PROVE WaitInv'
  BY <1>15, <1>0, EntryOfOne
  DEF TypeInv, ScanInv, WaitInv, Unread, Done, SearchFails, End, threads, results
<1>16. CASE UNCHANGED vars
  BY <1>16, <1>0, EntryOfOne
  DEF TypeInv, ScanInv, WaitInv, Unread, Done, vars, threads, results
<1> QED
  BY <1>1, <1>2, <1>3, <1>4, <1>5, <1>6, <1>7, <1>8, <1>9, <1>10, <1>11, <1>12, <1>13,
     <1>14, <1>15, <1>16
  DEF Next, DirStep, ThreadStep

(***************************************************************************)
(* Along the tree.                                                         *)
(***************************************************************************)

\* All that the invariants say of a directory and its entries.
EntryInv == TypeInv /\ SkipInv /\ ForkInv /\ WaitInv

\* When main has waited, nobody is left.
LEMMA NobodyLeft ==
  ASSUME EntryInv, pc[Root] \in Done
  PROVE  \A f \in Files : tpc[f] \in {"absent", "joined"}
<1> DEFINE D == {d \in Dirs : pc[d] \in {"absent"} \cup Done}
<1>1. ASSUME NEW d \in D, NEW c \in Subdirs(d) PROVE c \in D
  <2>1. c \in Dirs
    BY <1>1, EntryOfOne
  <2>2. pc[c] \in {"absent", "reaped"}
    BY <1>1 DEF EntryInv, TypeInv, ScanInv, WaitInv, Unread
  <2> QED
    BY <2>1, <2>2 DEF Done
<1>2. D = Dirs
  BY <1>1, TreeAssumption
<1>3. ASSUME NEW f \in Files PROVE tpc[f] \in {"absent", "joined"}
  <2>1. fileDir[f] \in D
    BY <1>2, FilesAssumption
  <2>2. pc[fileDir[f]] # "join"
    BY <2>1 DEF Done
  <2> QED
    BY <2>2 DEF EntryInv, TypeInv, TypeOK, ArgInv
<1> QED
  BY <1>3

\* Nobody searches below a directory that was skipped.
LEMMA BelowSkipped ==
  ASSUME EntryInv, NEW f \in Files, NEW s \in skipped \cap Dirs, fileDir[f] \in Below(s)
  PROVE  tpc[f] = "absent"
<1> DEFINE D == {d \in Dirs : /\ \A g \in FilesOf(d) : tpc[g] = "absent"
                              /\ \A c \in Subdirs(d) : pc[c] = "absent"}
<1>1. s \in D
  BY DEF EntryInv, SkipInv
<1>2. ASSUME NEW d \in D, NEW c \in Subdirs(d) PROVE c \in D
  <2>1. c \in Dirs /\ pc[c] = "absent"
    BY <1>2, EntryOfOne
  <2> QED
    BY <2>1 DEF EntryInv, TypeInv, ScanInv, Unread
<1>3. Below(s) \subseteq D
  BY <1>1, <1>2, BelowInduction
<1>4. f \in FilesOf(fileDir[f])
  BY DEF FilesOf
<1> QED
  BY <1>3, <1>4

\* When main has waited, every file it could reach has been searched.
LEMMA AllSearched ==
  ASSUME EntryInv, pc[Root] \in Done, NEW f \in Files, ~Missed(f)
  PROVE  tpc[f] = "joined"
<1> DEFINE Cut(d) == \E s \in skipped \cap Dirs : d \in Below(s)
           D == {d \in Dirs : (pc[d] \in Done /\ d \notin skipped) \/ Cut(d)}
<1>1. Root \in D
  BY TreeAssumption, BelowBasics
<1>2. ASSUME NEW d \in D, NEW c \in Subdirs(d) PROVE c \in D
  <2>1. c \in Dirs
    BY <1>2, EntryOfOne
  <2>2. CASE c \in skipped
    BY <2>1, <2>2, BelowBasics
  <2>3. CASE c \notin skipped /\ pc[d] \in Done /\ d \notin skipped
    <3>1. pc[c] # "absent"
      BY <1>2, <2>3 DEF EntryInv, TypeInv, ForkInv, ScanInv, Unread, Done
    <3>2. pc[c] = "reaped"
      BY <1>2, <2>3, <3>1 DEF EntryInv, WaitInv
    <3> QED
      BY <2>1, <2>3, <3>2 DEF Done
  <2>4. CASE Cut(d)
    BY <1>2, <2>1, <2>4, BelowBasics
  <2> QED
    BY <1>2, <2>2, <2>3, <2>4
<1>3. D = Dirs
  BY <1>1, <1>2, TreeAssumption
<1>4. fileDir[f] \in D /\ f \in FilesOf(fileDir[f])
  BY <1>3, FilesAssumption DEF FilesOf
<1>5. f \notin skipped /\ ~Cut(fileDir[f])
  BY DEF Missed
<1>6. pc[fileDir[f]] \in Done /\ fileDir[f] \notin skipped
  BY <1>4, <1>5
<1>7. tpc[f] # "absent"
  BY <1>4, <1>5, <1>6 DEF EntryInv, TypeInv, ForkInv, ScanInv, Unread, Done
<1> QED
  BY <1>7, NobodyLeft

(***************************************************************************)
(* The log.                                                                *)
(***************************************************************************)

\* The files whose threads have written all their matches.
Searched == {f \in Files : tpc[f] \in {"exited", "joined"} /\ f \notin skipped}

\* Only main counts the lines, and then it exits.
CountInv ==
  /\ pc[Root] \notin {"absent", "reaped"}
  /\ pc[Root] = "exited" <=> totall # None
  /\ \A d \in Dirs : pc[d] = "count" => d = Root

\* Until main counts them, the lines are those of the files searched so far.
LinesInv == MatchesOf(Searched) = IF totall = None THEN lines ELSE totall

\* Nothing is searched or counted at first.
LEMMA LinesInit == Init => CountInv /\ LinesInv
<1> SUFFICES ASSUME Init PROVE CountInv /\ LinesInv
  OBVIOUS
<1>1. Searched = {}
  BY DEF Init, Searched
<1> QED
  BY <1>1, TreeAssumption, MatchesOfNone DEF Init, CountInv, LinesInv

\* The root is nobody's child.
LEMMA CountStep == EntryInv /\ CountInv /\ [Next]_vars => CountInv'
<1> SUFFICES ASSUME EntryInv, CountInv, [Next]_vars PROVE CountInv'
  OBVIOUS
<1>0. /\ Root \in Dirs /\ pc \in [Dirs -> DirStates] /\ tpc \in [Files -> ThreadStates]
      /\ todo \in [Dirs -> SUBSET (Files \cup Dirs)]
      /\ semID \in [Dirs -> {0, 1}] /\ threadArgs \in [Dirs -> Files \cup {None}]
      /\ path \in [Files -> Files \cup {None}]
      /\ Files \cap Dirs = {} /\ fileDir \in [Files -> Dirs]
  BY TreeAssumption, FilesAssumption DEF EntryInv, TypeInv, TypeOK, DirStates, ThreadStates
<1>01. lines \in Nat /\ None \notin Nat
  BY GrepThreadAssumption DEF EntryInv, TypeInv, TypeOK
<1>1. CASE CountLines
  BY <1>1, <1>0, <1>01, EntryOfOne
  DEF EntryInv, TypeInv, ScanInv, CountInv, CountLines, threads, results
<1>2. CASE StdinEnds
  BY <1>2, <1>0, <1>01, EntryOfOne
  DEF EntryInv, TypeInv, ScanInv, CountInv, StdinEnds, threads, results
<1>3. ASSUME NEW d \in Dirs, Explore(d) PROVE CountInv'
  BY <1>3, <1>0, <1>01, EntryOfOne
  DEF EntryInv, TypeInv, ScanInv, CountInv, Explore, threads, results
<1>4. ASSUME NEW d \in Dirs, ExploreFails(d) PROVE CountInv'
  BY <1>4, <1>0, <1>01, EntryOfOne
  DEF EntryInv, TypeInv, ScanInv, CountInv, ExploreFails, Return, threads, results
<1>5. ASSUME NEW d \in Dirs, Join(d) PROVE CountInv'
  BY <1>5, <1>0, <1>01, EntryOfOne
  DEF EntryInv, TypeInv, ScanInv, CountInv, Join, threads, results
<1>6. ASSUME NEW d \in Dirs, ScanDone(d) PROVE CountInv'
  BY <1>6, <1>0, <1>01, EntryOfOne
  DEF EntryInv, TypeInv, ScanInv, CountInv, ScanDone, threads, results
<1>7. ASSUME NEW d \in Dirs, ReadEnd(d) PROVE CountInv'
  BY <1>7, <1>0, <1>01, EntryOfOne
  DEF EntryInv, TypeInv, ScanInv, CountInv, ReadEnd, threads, results
<1>8. ASSUME NEW d \in Dirs, WaitDone(d) PROVE CountInv'
  BY <1>8, <1>0, <1>01, EntryOfOne
  DEF EntryInv, TypeInv, ScanInv, CountInv, WaitDone, Return, threads, results
<1>9. ASSUME NEW d \in Dirs, NEW c \in Dirs, ForkDir(d, c) PROVE CountInv'
  BY <1>9, <1>0, <1>01, EntryOfOne
  DEF EntryInv, TypeInv, ScanInv, CountInv, ForkDir, threads, results
<1>10. ASSUME NEW d \in Dirs, NEW c \in Dirs, ForkFails(d, c) PROVE CountInv'
  BY <1>10, <1>0, <1>01, EntryOfOne
  DEF EntryInv, TypeInv, ScanInv, CountInv, ForkFails, threads, results
<1>11. ASSUME NEW d \in Dirs, NEW c \in Dirs, Reap(d, c) PROVE CountInv'
  BY <1>11, <1>0, <1>01, EntryOfOne
  DEF EntryInv, TypeInv, ScanInv, CountInv, Reap, threads, results
<1>12. ASSUME NEW d \in Dirs, NEW f \in Files, CreateThread(d, f) PROVE CountInv'
  BY <1>12, <1>0, <1>01, EntryOfOne
  DEF EntryInv, TypeInv, ScanInv, CountInv, CreateThread, NewThread, threads, results
<1>13. ASSUME NEW f \in Files, Start(f) PROVE CountInv'
  BY <1>13, <1>0, <1>01, EntryOfOne
  DEF EntryInv, TypeInv, ScanInv, CountInv, Start, threads, results
<1>14. ASSUME NEW f \in Files, Search(f) PROVE CountInv'
  BY <1>14, <1>0, <1>01, EntryOfOne
  DEF EntryInv, TypeInv, ScanInv, CountInv, Search, End, threads, results
<1>15. ASSUME NEW f \in Files, SearchFails(f) PROVE CountInv'
  BY <1>15, <1>0, <1>01, EntryOfOne
  DEF EntryInv, TypeInv, ScanInv, CountInv, SearchFails, End, threads, results
<1>16. CASE UNCHANGED vars
  BY <1>16, <1>0, <1>01, EntryOfOne
  DEF EntryInv, TypeInv, ScanInv, CountInv, vars, threads, results
<1> QED
  BY <1>1, <1>2, <1>3, <1>4, <1>5, <1>6, <1>7, <1>8, <1>9, <1>10, <1>11, <1>12, <1>13,
     <1>14, <1>15, <1>16
  DEF Next, DirStep, ThreadStep

\* A search adds its matches once; when main has counted, nobody searches.
LEMMA LinesStep == EntryInv /\ CountInv /\ LinesInv /\ [Next]_vars => LinesInv'
<1> SUFFICES ASSUME EntryInv, CountInv, LinesInv, [Next]_vars PROVE LinesInv'
  OBVIOUS
<1>0. /\ Root \in Dirs /\ pc \in [Dirs -> DirStates] /\ tpc \in [Files -> ThreadStates]
      /\ todo \in [Dirs -> SUBSET (Files \cup Dirs)]
      /\ semID \in [Dirs -> {0, 1}] /\ threadArgs \in [Dirs -> Files \cup {None}]
      /\ path \in [Files -> Files \cup {None}]
      /\ Files \cap Dirs = {} /\ fileDir \in [Files -> Dirs]
  BY TreeAssumption, FilesAssumption DEF EntryInv, TypeInv, TypeOK, DirStates, ThreadStates
<1>01. lines \in Nat /\ None \notin Nat
  BY GrepThreadAssumption DEF EntryInv, TypeInv, TypeOK
<1>02. ASSUME UNCHANGED <<lines, totall>>, Searched' = Searched PROVE LinesInv'
  BY <1>02 DEF LinesInv, MatchesOf
<1>1. CASE CountLines
  <2>1. Searched' = Searched
    BY <1>1 DEF Searched, CountLines, threads
  <2>2. totall = None /\ totall' = lines
    BY <1>1 DEF CountInv, CountLines
  <2> QED
    BY <1>01, <2>1, <2>2 DEF LinesInv, MatchesOf
<1>2. CASE StdinEnds
  <2>1. Searched' = Searched
    BY <1>2, <1>0, EntryOfOne
    DEF EntryInv, TypeInv, ScanInv, ArgInv, Searched, StdinEnds, threads, results
  <2> QED
    BY <1>2, <1>02, <2>1 DEF StdinEnds, threads, results
<1>3. ASSUME NEW d \in Dirs, Explore(d) PROVE LinesInv'
  <2>1. Searched' = Searched
    BY <1>3, <1>0, EntryOfOne
    DEF EntryInv, TypeInv, ScanInv, ArgInv, Searched, Explore, threads, results
  <2> QED
    BY <1>3, <1>02, <2>1 DEF Explore, threads, results
<1>4. ASSUME NEW d \in Dirs, ExploreFails(d) PROVE LinesInv'
  <2>1. Searched' = Searched
    BY <1>4, <1>0, EntryOfOne
    DEF EntryInv, TypeInv, ScanInv, ArgInv, Searched, ExploreFails, Return, threads,
     results
  <2> QED
    BY <1>4, <1>02, <2>1 DEF ExploreFails, Return, threads, results
<1>5. ASSUME NEW d \in Dirs, Join(d) PROVE LinesInv'
  <2>1. Searched' = Searched
    BY <1>5, <1>0, EntryOfOne
    DEF EntryInv, TypeInv, ScanInv, ArgInv, Searched, Join, threads, results
  <2> QED
    BY <1>5, <1>02, <2>1 DEF Join, threads, results
<1>6. ASSUME NEW d \in Dirs, ScanDone(d) PROVE LinesInv'
  <2>1. Searched' = Searched
    BY <1>6, <1>0, EntryOfOne
    DEF EntryInv, TypeInv, ScanInv, ArgInv, Searched, ScanDone, threads, results
  <2> QED
    BY <1>6, <1>02, <2>1 DEF ScanDone, threads, results
<1>7. ASSUME NEW d \in Dirs, ReadEnd(d) PROVE LinesInv'
  <2>1. Searched' = Searched
    BY <1>7, <1>0, EntryOfOne
    DEF EntryInv, TypeInv, ScanInv, ArgInv, Searched, ReadEnd, threads, results
  <2> QED
    BY <1>7, <1>02, <2>1 DEF ReadEnd, threads, results
<1>8. ASSUME NEW d \in Dirs, WaitDone(d) PROVE LinesInv'
  <2>1. Searched' = Searched
    BY <1>8, <1>0, EntryOfOne
    DEF EntryInv, TypeInv, ScanInv, ArgInv, Searched, WaitDone, Return, threads, results
  <2> QED
    BY <1>8, <1>02, <2>1 DEF WaitDone, Return, threads, results
<1>9. ASSUME NEW d \in Dirs, NEW c \in Dirs, ForkDir(d, c) PROVE LinesInv'
  <2>1. Searched' = Searched
    BY <1>9, <1>0, EntryOfOne
    DEF EntryInv, TypeInv, ScanInv, ArgInv, Searched, ForkDir, threads, results
  <2> QED
    BY <1>9, <1>02, <2>1 DEF ForkDir, threads, results
<1>10. ASSUME NEW d \in Dirs, NEW c \in Dirs, ForkFails(d, c) PROVE LinesInv'
  <2>1. Searched' = Searched
    BY <1>10, <1>0, EntryOfOne
    DEF EntryInv, TypeInv, ScanInv, ArgInv, Searched, ForkFails, threads, results
  <2> QED
    BY <1>10, <1>02, <2>1 DEF ForkFails, threads, results
<1>11. ASSUME NEW d \in Dirs, NEW c \in Dirs, Reap(d, c) PROVE LinesInv'
  <2>1. Searched' = Searched
    BY <1>11, <1>0, EntryOfOne
    DEF EntryInv, TypeInv, ScanInv, ArgInv, Searched, Reap, threads, results
  <2> QED
    BY <1>11, <1>02, <2>1 DEF Reap, threads, results
<1>12. ASSUME NEW d \in Dirs, NEW f \in Files, CreateThread(d, f) PROVE LinesInv'
  <2>1. Searched' = Searched
    BY <1>12, <1>0, EntryOfOne
    DEF EntryInv, TypeInv, ScanInv, ArgInv, Searched, CreateThread, NewThread, threads,
     results
  <2> QED
    BY <1>12, <1>02, <2>1 DEF CreateThread, NewThread, threads, results
<1>13. ASSUME NEW f \in Files, Start(f) PROVE LinesInv'
  <2>1. Searched' = Searched
    BY <1>13, <1>0, EntryOfOne
    DEF EntryInv, TypeInv, ScanInv, ArgInv, Searched, Start, threads, results
  <2> QED
    BY <1>13, <1>02, <2>1 DEF Start, threads, results
<1>14. ASSUME NEW f \in Files, Search(f) PROVE LinesInv'
  <2>1. tpc[f] = "search" /\ path[f] = f /\ lines' = lines + matches[f] /\ totall' = totall
    BY <1>14 DEF EntryInv, TypeInv, ArgInv, Search, End
  <2>2. f \notin Searched /\ Searched \subseteq Files
    BY <2>1 DEF Searched
  <2>3. Searched' = Searched \cup {f}
    BY <1>14, <1>0 DEF EntryInv, SkipInv, Searched, Search, End
  <2>4. totall = None
    BY <2>1, NobodyLeft DEF CountInv, Done
  <2>5. MatchesOf(Searched \cup {f}) = MatchesOf(Searched) + matches[f]
    BY <2>2, MatchesAdd
  <2>6. MatchesOf(Searched)' = MatchesOf(Searched \cup {f})
    BY <2>3 DEF MatchesOf
  <2> QED
    BY <2>1, <2>4, <2>5, <2>6 DEF LinesInv
<1>15. ASSUME NEW f \in Files, SearchFails(f) PROVE LinesInv'
  <2>1. Searched' = Searched
    BY <1>15, <1>0, EntryOfOne
    DEF EntryInv, TypeInv, ScanInv, ArgInv, Searched, SearchFails, End, threads, results
  <2> QED
    BY <1>15, <1>02, <2>1 DEF SearchFails, End, threads, results
<1>16. CASE UNCHANGED vars
  <2>1. Searched' = Searched
    BY <1>16, <1>0, EntryOfOne
    DEF EntryInv, TypeInv, ScanInv, ArgInv, Searched, vars, threads, results
  <2> QED
    BY <1>16, <1>02, <2>1 DEF vars, threads, results
<1> QED
  BY <1>1, <1>2, <1>3, <1>4, <1>5, <1>6, <1>7, <1>8, <1>9, <1>10, <1>11, <1>12, <1>13,
     <1>14, <1>15, <1>16
  DEF Next, DirStep, ThreadStep

(***************************************************************************)
(* Theorems.                                                               *)
(***************************************************************************)

\* The invariants hold in every reachable state.
LEMMA Invariant == Spec => [](EntryInv /\ CountInv /\ LinesInv)
<1>1. Init => EntryInv /\ CountInv /\ LinesInv
  BY TypeInit, SkipInit, WaitInit, LinesInit DEF EntryInv
<1>2. EntryInv /\ [Next]_vars => EntryInv'
  BY TypeStep, ScanStep, ArgStep, SkipStep, ForkStep, WaitStep DEF EntryInv, TypeInv
<1> QED
  BY <1>1, <1>2, CountStep, LinesStep, PTL DEF Spec

\* Every variable of grepTh keeps its type, for every tree: the semaphore of
\* a process is never posted twice.
THEOREM TypeCorrect == Spec => []TypeOK
<1>1. EntryInv => TypeOK
  BY DEF EntryInv, TypeInv
<1> QED
  BY <1>1, Invariant, PTL

\* What main counts are the matches of all the files it could reach, each
\* once: no thread searched another's file and nobody is still writing, for
\* every tree.
THEOREM CountIsExact == Spec => []LinesExact
<1>1. EntryInv /\ CountInv /\ LinesInv => LinesExact
  <2> SUFFICES ASSUME EntryInv, CountInv, LinesInv, totall # None
               PROVE  /\ \A f \in Files : tpc[f] \in {"absent", "joined"}
                      /\ totall = MatchesOf({f \in Files : ~Missed(f)})
    BY DEF LinesExact
  <2>1. pc[Root] \in Done
    BY DEF CountInv, Done
  <2>2. \A f \in Files : tpc[f] \in {"absent", "joined"}
    BY <2>1, NobodyLeft
  <2>3. Searched = {f \in Files : ~Missed(f)}
    <3>1. ASSUME NEW f \in Files, ~Missed(f) PROVE f \in Searched
      BY <2>1, <3>1, AllSearched DEF Searched, Missed
    <3>2. ASSUME NEW f \in Searched PROVE ~Missed(f)
      BY <3>2, BelowSkipped DEF Searched, Missed
    <3> QED
      BY <3>1, <3>2 DEF Searched
  <2> QED
    BY <2>2, <2>3 DEF LinesInv
<1> QED
  BY <1>1, Invariant, PTL

(***************************************************************************)
(* Nobody waits for ever.  The processes block in pthread_join and wait(), *)
(* the threads in sem_wait.                                                *)
(***************************************************************************)

\* The process of d waits for what the user types.
ReadsInput(d) == pc[d] = "read" /\ fd[d] = "stdin" /\ stdin

\* The process of d is at a call that returns.
Ready(d) ==
  \/ pc[d] \in {"explore", "scan"} \/ (d = Root /\ pc[d] = "count")
  \/ pc[d] = "join" /\ tpc[threadArgs[d]] = "exited"
  \/ /\ pc[d] = "wait"
     /\ \/ \E c \in Subdirs(d) : pc[c] = "exited"
        \/ \A c \in Subdirs(d) : pc[c] \in {"absent", "reaped"}
  \/ pc[d] = "read" /\ ~ReadsInput(d)

\* And so is the thread created for f.
ReadyThread(f) == tpc[f] = "search" \/ (tpc[f] = "created" /\ semID[fileDir[f]] > 0)

\* Until main has ended there is always a process or a thread that can go on,
\* unless a process reads the standard input through the descriptor nobody
\* has initialised.
THEOREM NoDeadlock ==
  Spec => [](pc[Root] # "exited" =>
               \/ \E d \in Dirs : Ready(d) \/ ReadsInput(d)
               \/ \E f \in Files : ReadyThread(f))
<1>1. ASSUME EntryInv, CountInv, pc[Root] # "exited",
             \A f \in Files : ~ReadyThread(f)
      PROVE  \E d \in Dirs : Ready(d) \/ ReadsInput(d)
  <2> DEFINE L == {d \in Dirs : pc[d] \notin {"absent", "exited", "reaped"}}
  <2>1. Root \in L
    BY <1>1, TreeAssumption DEF CountInv
  <2>2. PICK d \in L : \A e \in L : e \in Below(d) => e = d
    <3>1. L \in SUBSET Dirs /\ L # {}
      BY <2>1
    <3> HIDE DEF L
    <3> QED
      BY <3>1, Lowest
  <2>3. \A c \in Subdirs(d) : pc[c] \in {"absent", "exited", "reaped"}
    BY <2>2, BelowBasics, SubdirsProper DEF Subdirs
  <2>4. pc[d] \in DirStates
    BY <1>1, <2>2 DEF EntryInv, TypeInv, TypeOK, DirStates
  <2>5. CASE pc[d] = "join"
    <3>1. /\ threadArgs[d] \in Files /\ fileDir[threadArgs[d]] = d
          /\ tpc[threadArgs[d]] \in {"created", "search", "exited"}
          /\ semID[d] = IF tpc[threadArgs[d]] = "search" THEN 0 ELSE 1
      BY <1>1, <2>2, <2>5 DEF EntryInv, TypeInv, ArgInv, FilesOf
    <3>2. tpc[threadArgs[d]] = "exited"
      BY <1>1, <3>1 DEF ReadyThread
    <3> QED
      BY <2>2, <2>5, <3>2 DEF Ready
  <2>6. CASE pc[d] = "wait"
    BY <2>2, <2>3, <2>6 DEF Ready
  <2>7. CASE pc[d] \notin {"join", "wait"}
    BY <1>1, <2>2, <2>4, <2>7 DEF Ready, DirStates, CountInv
  <2> QED
    BY <2>5, <2>6, <2>7
<1>2. EntryInv /\ CountInv =>
        (pc[Root] # "exited" =>
           \/ \E d \in Dirs : Ready(d) \/ ReadsInput(d)
           \/ \E f \in Files : ReadyThread(f))
  BY <1>1
<1> QED
  BY <1>2, Invariant, PTL

(***************************************************************************)
(* Refinement of CountOnce: the contributions of the files are the lines   *)
(* their threads write, the answer is what main counts.                  *)
(***************************************************************************)

Excused == {f \in Files : Missed(f)}
Sum == IF totall = None THEN lines ELSE totall

Abstract == INSTANCE CountOnce WITH
  counted <- Searched, excused <- Excused, sum <- Sum,
  interrupted <- FALSE, answer <- totall, NoResult <- None

RefInv == EntryInv /\ CountInv /\ LinesInv

\* No file that is excused has been searched or is being searched.
LEMMA ExcusedIdle ==
  ASSUME EntryInv, NEW f \in Files, Missed(f)
  PROVE  tpc[f] # "search" /\ f \notin Searched
<1>1. CASE f \in skipped
  BY <1>1 DEF EntryInv, SkipInv, Searched
<1>2. CASE f \notin skipped
  BY <1>2, BelowSkipped DEF Missed, Searched
<1> QED
  BY <1>1, <1>2

\* The same in terms of sets.
LEMMA ExcusedApart == EntryInv => Searched \cap Excused = {}
BY ExcusedIdle DEF Excused

\* Steps that CountOnce does not see.
LEMMA Hidden ==
  ASSUME UNCHANGED <<lines, totall, skipped>>, Searched' = Searched
  PROVE  [Abstract!Next]_Abstract!vars
<1>1. Excused' = Excused /\ Sum' = Sum
  BY DEF Excused, Missed, Sum
<1> QED
  BY <1>1 DEF Abstract!vars

\* A file or directory that fails excuses itself and the files below it.
LEMMA SkipExcuses ==
  ASSUME EntryInv', NEW e, skipped' = skipped \cup {e},
         UNCHANGED <<lines, totall>>, Searched' = Searched
  PROVE  [Abstract!Next]_Abstract!vars
<1>1. Searched' \cap Excused' = {}
  <2>1. (EntryInv => Searched \cap Excused = {})'
    BY ExcusedApart, PTL
  <2> QED
    BY <2>1
<1>2. Excused' = Excused \cup Excused' /\ Excused' \in SUBSET Files
  BY DEF Excused, Missed
<1>3. Sum' = Sum
  BY DEF Sum
<1>4. Abstract!Excuse(Excused')
  BY <1>1, <1>2, <1>3 DEF Abstract!Excuse
<1> QED
  BY <1>2, <1>4 DEF Abstract!Next

\* The thread of a file writes its lines: the file is counted.
LEMMA SearchCounts ==
  ASSUME RefInv, NEW f \in Files, Search(f)
  PROVE  [Abstract!Next]_Abstract!vars
<1>1. /\ tpc[f] = "search" /\ tpc' = [tpc EXCEPT ![f] = "exited"]
      /\ lines' = lines + matches[f] /\ UNCHANGED <<totall, skipped>>
  BY DEF RefInv, EntryInv, TypeInv, ArgInv, Search, End
<1>2. f \notin Searched /\ ~Missed(f) /\ f \notin Excused
  BY <1>1, ExcusedIdle DEF RefInv, Searched, Excused
<1>3. Searched' = Searched \cup {f}
  <2>1. tpc \in [Files -> ThreadStates] /\ f \notin skipped
    BY <1>2 DEF RefInv, EntryInv, TypeInv, TypeOK, ThreadStates, Missed
  <2> QED
    BY <1>1, <2>1 DEF Searched
<1>4. totall = None
  BY <1>1, NobodyLeft DEF RefInv, CountInv, Done
<1>5. Excused' = Excused /\ Sum' = Sum + matches[f]
  BY <1>1, <1>4 DEF Excused, Missed, Sum
<1>6. Abstract!Count(f)
  BY <1>1, <1>2, <1>3, <1>4, <1>5 DEF Abstract!Count
<1> QED
  BY <1>6 DEF Abstract!Next

\* main counts the lines: everything has been searched or is excused.
LEMMA CountAnswers ==
  ASSUME RefInv, CountLines
  PROVE  [Abstract!Next]_Abstract!vars
<1>1. /\ pc[Root] = "count" /\ totall' = lines /\ totall = None
      /\ UNCHANGED <<tpc, skipped>>
  BY DEF CountLines, RefInv, CountInv, threads
<1>2. Searched \cup Excused = Files
  <2>1. ASSUME NEW f \in Files, ~Missed(f) PROVE f \in Searched
    BY <1>1, <2>1, AllSearched DEF RefInv, Done, Searched, Missed
  <2> QED
    BY <2>1 DEF Excused, Searched
<1>3. Searched' = Searched /\ Excused' = Excused
  BY <1>1 DEF Searched, Excused, Missed
<1>4. Sum = lines /\ Sum' = lines
  <2>1. lines # None
    BY GrepThreadAssumption DEF RefInv, EntryInv, TypeInv, TypeOK
  <2> QED
    BY <1>1, <2>1 DEF Sum
<1>5. Abstract!Answer
  BY <1>1, <1>2, <1>3, <1>4 DEF Abstract!Answer
<1> QED
  BY <1>5 DEF Abstract!Next

\* Every step of the program is a step of CountOnce or a stutter.
LEMMA RefStep == RefInv /\ EntryInv' /\ [Next]_vars => [Abstract!Next]_Abstract!vars
<1> SUFFICES ASSUME RefInv, EntryInv', [Next]_vars PROVE [Abstract!Next]_Abstract!vars
  OBVIOUS
<1>0. /\ EntryInv /\ Root \in Dirs /\ Files \cap Dirs = {}
      /\ pc \in [Dirs -> DirStates] /\ tpc \in [Files -> ThreadStates]
      /\ threadArgs \in [Dirs -> Files \cup {None}] /\ fileDir \in [Files -> Dirs]
  BY TreeAssumption, FilesAssumption
  DEF RefInv, EntryInv, TypeInv, TypeOK, DirStates, ThreadStates
<1>1. CASE CountLines
  BY <1>1, CountAnswers
<1>2. CASE StdinEnds
  <2>1. Searched' = Searched
    BY <1>2, <1>0, EntryOfOne
    DEF EntryInv, TypeInv, ScanInv, ArgInv, Searched, StdinEnds, threads, results
  <2> QED
    BY <1>2, <2>1, Hidden DEF StdinEnds, threads, results
<1>3. ASSUME NEW d \in Dirs, Explore(d)
      PROVE  [Abstract!Next]_Abstract!vars
  <2>1. Searched' = Searched
    BY <1>3, <1>0, EntryOfOne
    DEF EntryInv, TypeInv, ScanInv, ArgInv, Searched, Explore, threads, results
  <2> QED
    BY <1>3, <2>1, Hidden DEF Explore, threads, results
<1>4. ASSUME NEW d \in Dirs, ExploreFails(d)
      PROVE  [Abstract!Next]_Abstract!vars
  <2>1. Searched' = Searched
    BY <1>4, <1>0, EntryOfOne
    DEF EntryInv, TypeInv, ScanInv, ArgInv, Searched, ExploreFails, Return, threads, results
  <2>2. skipped' = skipped \cup {d} /\ UNCHANGED <<lines, totall>>
    BY <1>4 DEF ExploreFails, Return, threads, results
  <2> QED
    BY <2>1, <2>2, SkipExcuses
<1>5. ASSUME NEW d \in Dirs, Join(d)
      PROVE  [Abstract!Next]_Abstract!vars
  <2>1. Searched' = Searched
    BY <1>5, <1>0, EntryOfOne
    DEF EntryInv, TypeInv, ScanInv, ArgInv, Searched, Join, threads, results
  <2> QED
    BY <1>5, <2>1, Hidden DEF Join, threads, results
<1>6. ASSUME NEW d \in Dirs, ScanDone(d)
      PROVE  [Abstract!Next]_Abstract!vars
  <2>1. Searched' = Searched
    BY <1>6, <1>0, EntryOfOne
    DEF EntryInv, TypeInv, ScanInv, ArgInv, Searched, ScanDone, threads, results
  <2> QED
    BY <1>6, <2>1, Hidden DEF ScanDone, threads, results
<1>7. ASSUME NEW d \in Dirs, ReadEnd(d)
      PROVE  [Abstract!Next]_Abstract!vars
  <2>1. Searched' = Searched
    BY <1>7, <1>0, EntryOfOne
    DEF EntryInv, TypeInv, ScanInv, ArgInv, Searched, ReadEnd, threads, results
  <2> QED
    BY <1>7, <2>1, Hidden DEF ReadEnd, threads, results
<1>8. ASSUME NEW d \in Dirs, WaitDone(d)
      PROVE  [Abstract!Next]_Abstract!vars
  <2>1. Searched' = Searched
    BY <1>8, <1>0, EntryOfOne
    DEF EntryInv, TypeInv, ScanInv, ArgInv, Searched, WaitDone, Return, threads, results
  <2> QED
    BY <1>8, <2>1, Hidden DEF WaitDone, Return, threads, results
<1>9. ASSUME NEW d \in Dirs, NEW c \in Dirs, ForkDir(d, c)
      PROVE  [Abstract!Next]_Abstract!vars
  <2>1. Searched' = Searched
    BY <1>9, <1>0, EntryOfOne
    DEF EntryInv, TypeInv, ScanInv, ArgInv, Searched, ForkDir, threads, results
  <2> QED
    BY <1>9, <2>1, Hidden DEF ForkDir, threads, results
<1>10. ASSUME NEW d \in Dirs, NEW c \in Dirs, ForkFails(d, c)
      PROVE  [Abstract!Next]_Abstract!vars
  <2>1. Searched' = Searched
    BY <1>10, <1>0, EntryOfOne
    DEF EntryInv, TypeInv, ScanInv, ArgInv, Searched, ForkFails, threads, results
  <2>2. skipped' = skipped \cup {c} /\ UNCHANGED <<lines, totall>>
    BY <1>10 DEF ForkFails, threads, results
  <2> QED
    BY <2>1, <2>2, SkipExcuses
<1>11. ASSUME NEW d \in Dirs, NEW c \in Dirs, Reap(d, c)
      PROVE  [Abstract!Next]_Abstract!vars
  <2>1. Searched' = Searched
    BY <1>11, <1>0, EntryOfOne
    DEF EntryInv, TypeInv, ScanInv, ArgInv, Searched, Reap, threads, results
  <2> QED
    BY <1>11, <2>1, Hidden DEF Reap, threads, results
<1>12. ASSUME NEW d \in Dirs, NEW f \in Files, CreateThread(d, f)
      PROVE  [Abstract!Next]_Abstract!vars
  <2>1. Searched' = Searched
    BY <1>12, <1>0, EntryOfOne
    DEF EntryInv, TypeInv, ScanInv, ArgInv, Searched, CreateThread, NewThread, threads, results
  <2> QED
    BY <1>12, <2>1, Hidden DEF CreateThread, NewThread, threads, results
<1>13. ASSUME NEW f \in Files, Start(f)
      PROVE  [Abstract!Next]_Abstract!vars
  <2>1. Searched' = Searched
    BY <1>13, <1>0, EntryOfOne
    DEF EntryInv, TypeInv, ScanInv, ArgInv, Searched, Start, threads, results
  <2> QED
    BY <1>13, <2>1, Hidden DEF Start, threads, results
<1>14. ASSUME NEW f \in Files, Search(f)
      PROVE  [Abstract!Next]_Abstract!vars
  BY <1>14, SearchCounts
<1>15. ASSUME NEW f \in Files, SearchFails(f)
      PROVE  [Abstract!Next]_Abstract!vars
  <2>1. Searched' = Searched
    BY <1>15, <1>0, EntryOfOne
    DEF EntryInv, TypeInv, ScanInv, ArgInv, Searched, SearchFails, End, threads, results
  <2>2. skipped' = skipped \cup {f} /\ UNCHANGED <<lines, totall>>
    BY <1>15, <1>0 DEF EntryInv, TypeInv, ArgInv, SearchFails, End, threads, results
  <2> QED
    BY <2>1, <2>2, SkipExcuses
<1>16. CASE UNCHANGED vars
  <2>1. Searched' = Searched
    BY <1>16 DEF Searched, vars, threads
  <2> QED
    BY <1>16, <2>1, Hidden DEF vars, results
<1> QED
  BY <1>1, <1>2, <1>3, <1>4, <1>5, <1>6, <1>7, <1>8, <1>9, <1>10, <1>11, <1>12, <1>13,
     <1>14, <1>15, <1>16
  DEF Next, DirStep, ThreadStep

\* The processes and threads of grepTh implement CountOnce, for every tree: every file is
\* counted once or excused, and what main counts is their sum and is final.
THEOREM ImplementsCountOnce == Spec => Abstract!Spec
<1>1. Init => Abstract!Init
  <2> SUFFICES ASSUME Init PROVE Abstract!Init
    OBVIOUS
  <2>1. Searched = {} /\ Excused = {} /\ Sum = 0 /\ totall = None
    BY DEF Init, Searched, Excused, Missed, Sum
  <2> QED
    BY <2>1 DEF Abstract!Init
<1>2. Spec => []RefInv
  BY Invariant, PTL DEF RefInv
<1>3. RefInv /\ RefInv' /\ [Next]_vars => [Abstract!Next]_Abstract!vars
  BY RefStep DEF RefInv
<1> QED
  BY <1>1, <1>2, <1>3, PTL DEF Spec, Abstract!Spec
=============================================================================
