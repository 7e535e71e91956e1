# CSE244_HWs in TLA+

The repository holds the programs of a system programming course: five versions
of a recursive text search, a time server with its clients (`Midterm/`) and a
socket server with its clients (`Final/`). They are small, but each of them is a
set of processes and threads around something shared: a log file, a pipe, a FIFO,
a semaphore, a piece of shared memory, a socket. This project models them,
model-checks them with TLC and proves what matters most with TLAPS.

All the programs are modelled and checked. Every safety property of the four recursive
searches (`HW02/hw2.c`, `HW03/hw3.c`, `HW04/hw4.c`, `HW05/main.c`), of the processes
of the time server and of the solver is also proved, for every tree of directories, every
number of clients and every number of signals, and all four searches are proved to implement
one abstract specification; so is the text scan that all five searches share, for every
text and string.

## Inventory

| Part | State it keeps | Operations | Interacts through | What is hard |
|---|---|---|---|---|
| **grepThwShandMQ**, `HW05/main.c` | per process: readdir loop, threads, private semaphore `semID`, copies of the global counters and of `exitCondition`; shared: named semaphore `semForLog`, one integer in System V shared memory, `log.txt` | `performSearch`, `explorePath`, `threadFunction`, `searchInFile`, `signalHandler`, `getnamed`, `printContent` | fork, pthreads, both semaphores, shared memory, log file, wait, ^C | interleaving of processes and threads, EINTR, state copied by fork, leftovers of a killed run |
| **list**, `HW01/hw1.c`, and the same two functions in every later search | position, row, column, matches | `searchInFile`, `findMatch` | - | greedy matching over white space, seek back, end of file |
| **listdir**, `HW02/hw2.c` | one process per entry, `log.log` | `explorePath`, `searchInFile`, line count in `main` | fork, wait, exit status, log file | totals lost in exit statuses, count from a log appended by many |
| **withPipeandFIFO**, `HW03/hw3.c` | a pipe per directory, a FIFO name | `explorePath` | pipe, FIFO name, wait, log | end of file only when every copy of the write end is closed, pipe capacity, subtotal of a subdirectory |
| **grepTh**, `HW04/hw4.c` | `semID`, counters, log | `threadFunction`, `explorePath` | fork, pthreads, log | uninitialised descriptors in the wait loop, counters lost in children |
| **timeServer**, `Midterm/timeServer.c` | request flag, client pids, main FIFO | main loop, signal handler, `matrixGenerator` | FIFOs, SIGUSR1/SIGINT/SIGTERM, fork | requests dropped while the flag is 0, unbounded array of pids |
| **seeWhat**, `Midterm/seeWhat.c` | matrix, own FIFO | main loop, signal handler, determinant, inverse, convolution | FIFOs, signals | waits for an answer that never comes, zero pivots |
| **showResults**, `Midterm/showResults.c` | matrices | the same matrix functions, alone | - | zero pivots |
| **server**, `Final/server.c` | globals `pid`, `shmID`, `exitFlag`, descriptors; a segment per request | accept loop, `performRequest`, P1/P2/P3 processes, handlers | sockets, shared memory, fork, threads, SIGCHLD, SIGINT | globals shared by concurrent requests, unordered stages, reaping of others' children |
| **clients**, `Final/clients.c` | `semID`, one argument per thread | connect loop, `threadFunction` | sockets, semaphore | barrier that never holds, partial reads |
| QRFact, SVDecomposition, pInverse (`Final/`) | - | none: the files hold a comment | - | - |

What makes each of them correct:

* the searches: every file below the named directory is searched exactly once,
  the reported total is the sum of what the searches found, reported only after
  all of them have ended, and the search ends;
* the text scan: the matches are exactly the occurrences, each at its row and column;
* the time server: every connected client gets a matrix whose computed determinant
  is not 0.0, and ^C at either end stops everyone;
* the matrix functions: Gaussian elimination computes the determinant, as far as it
  finds pivots and its doubles are exact;
* the solver: a client gets the matrices and errors of its own request, solved
  after they were generated and verified after they were solved.

Where the code does not reach this, the properties below say how far it gets, and
"Findings" says what is missing.

## Modules

| Module | Role |
|---|---|
| `SearchTree` | the tree of directories and files, with the assumptions about it, that all the recursive searches extend |
| `GrepShm` | `HW05/main.c`: processes, threads, semaphores, shared integer, log, ^C, failures; its properties |
| `CountOnce` | abstract specification: what the total of a recursive search promises; all four searches implement it |
| `MCGrepShm` | the two trees on which TLC checks `GrepShm` |
| `SearchTreeProofs` | lemmas: induction along the tree, the lowest of several directories, sums over files and over the contents of a pipe |
| `GrepShmProofs` | proofs: types, mutual exclusion, no lost update, what waiting covers, the report is exact, `GrepShm` implements `CountOnce`, the log has the lines, no deadlock |
| `TextSearch` | `searchInFile` and `findMatch`; its properties |
| `MCTextSearch` | the texts and strings on which TLC checks `TextSearch` |
| `TextSearchProofs` | proofs: types, positions, the matches are the occurrences |
| `ListDir` | `HW02/hw2.c`: processes, exit statuses, lines of `log.log`; its properties |
| `MCListDir` | the tree on which TLC checks `ListDir` |
| `ListDirProofs` | proofs: types, the count of the lines is exact, `ListDir` implements `CountOnce`, no deadlock |
| `PipeFifo` | `HW03/hw3.c`: processes, pipes and the copies of their write ends, the FIFO's name, lines of the log; its properties |
| `MCPipeFifo` | the tree on which TLC checks `PipeFifo` |
| `PipeFifoProofs` | proofs: types, no total is lost, the return value and the count are exact, the FIFO is removed, `PipeFifo` implements `CountOnce`, no deadlock |
| `GrepThread` | `HW04/hw4.c`: processes, joined threads, the shared argument, the uninitialised descriptor, lines of the log; its properties |
| `MCGrepThread` | the tree on which TLC checks `GrepThread` |
| `GrepThreadProofs` | proofs: types, the count of the lines is exact, `GrepThread` implements `CountOnce`, no deadlock |
| `TimeServer` | `Midterm/timeServer.c` and the main program of `Midterm/seeWhat.c`: server, child servers, clients, FIFOs, signals; its properties |
| `Matrices` | the matrix functions the three programs of `Midterm/` have copies of, over fractions that are exact until an operation may round |
| `SeeWhat` | what the server generates and the client computes, turn after turn, with the functions of `Matrices`; its properties |
| `MCSeeWhat` | the matrices on which TLC checks `SeeWhat` |
| `MidtermProofs` | proofs: of `TimeServer` types, served clients are recorded and told to end, one child server per client; of `SeeWhat` types, the convolution is exact, every turn computes the same, when the client crashes; of `Matrices` the determinant of two rows |
| `Solver` | `Final/server.c` and `Final/clients.c`: threads, processes, segments, globals, connections, SIGINT; its properties |
| `MCSolver` | the instance on which TLC checks `Solver` |
| `SolverProofs` | proofs: types, threads outlive their processes, a request alone keeps to its segment and has it for itself |
| `Verify` | `p3Verify` of `Final/server.c` with its matrix functions, cell by cell |

`SearchTree` is extended by the four searches. `TimeServer` and `SeeWhat` are two
views of the same two programs, one of the processes and one of the data; `Solver` and
`Verify` likewise. `MidtermProofs` extends both `TimeServer` and `SeeWhat`; that of `SeeWhat`
is called `Computation`, with `ComputationInit`, `ComputationNext`, `ComputationTypeOK`.

### GrepShm and the code

A directory stands for the process that explores it, a file for the thread that
searches it: the program makes exactly one of each, so `pc` and `tpc` are
functions on directories and files. The actions are the lines between two points
where another process or thread can see a difference.

| Action | Code in `HW05/main.c` |
|---|---|
| `Start`, `StartFails`, `SignalledAtStart` | `main` and `performSearch` up to `explorePath`: semaphore opened, log removed, segment attached and reset, or the error exit of `shmat`, or ^C before the search |
| `Explore`, `OpendirFails` | `explorePath` up to its loop: counters, `sem_init`; or the early return |
| `CreateThread`, `ForkDir`, `ForkFails`, `ScanDone` | the readdir loop, in any order of the entries |
| `JoinBegin`, `JoinEnd`, `JoinDone` | the join loop: `sem_unlink` of the thread's name, then `pthread_join` |
| `Reap`, `WaitDone` | `while (wait(&status) > 0)` |
| `ReadTotal` | the read of the shared integer; in a child also `exit(1)` |
| `Report` | `performSearch` after `explorePath`: root's entries counted again, report, `sem_unlink`, exit |
| `TakeSemID`, `TakeLog`, `Search`, `SearchFails`, `Flush`, `Load`, `Store`, `PostSemID`, `PostLog` | `threadFunction`, one action per access to something shared |
| `CtrlC` | `signalHandler` in every live process, and EINTR for those blocked in `wait` |

A few points of the translation:

* `*shmData = (*shmData)+total` is two actions, `Load` and `Store`; nothing but
  the semaphore keeps other threads out in between.
* `fork` copies `semID`, the counters, `exitCondition` and the stdio buffers, and
  none of the threads (`ForkDir`). `exit` writes the buffers (`ExitProcess`),
  which is how a line printed and not flushed gets into the log twice.
* `wait` returns -1 when there is no child, which ends the loop, and also when a
  signal interrupts it, which ends the loop as well: `CtrlC(S)` lets any set `S`
  of the processes that are blocked in `wait` go on. A process can be about to
  call `wait` and not yet in it, therefore any *subset*. The handler has
  `sa_flags = 0`, and on Linux a signal sent to a process goes to its main thread
  when that thread does not block it, so `sem_wait` in the other threads is not
  interrupted. ^C is delivered to all the processes in one step.
* `getnamed` gives the value 1 only to a semaphore it creates. `Init` starts with
  no semaphore or with one an earlier run left (`StaleSem`), and with any value
  in the segment, which nothing ever removes (`StaleShm`).
* `semNames` has the names of the semaphores; a file stands for the name that its
  thread makes of its identifiers.
* `skipped` is the only history variable: the directories that could not be
  opened or forked for.

Abstractions: the tree does not change during the run and does not contain the
current directory (otherwise `log.txt` is one more file, which grows); a search
of a file is one step that finds `matches[f]` matches (`TextSearch` looks inside)
and its lines go to the log together; `pthread_create`, `malloc` and `shmat` in
the threads succeed (the code does not test them); the counter of searched lines,
the running time and the wording of the report are left out.

`CountOnce` knows nothing of processes: files are counted once, or excused
because a directory on their way failed; the answer is the sum, given when
everything is counted or excused, after which nobody counts, unless ^C cut the
search short. `GrepShm` implements it with `counted` = the files whose total has
been stored, `sum` = the shared integer, `answer` = what the root's `explorePath`
returned. The other three searches implement it too: there the files that have written
their lines are counted, `sum` is the number of lines, and `answer` what `main` counts;
nothing in them catches ^C, so that `interrupted` is `FALSE`.

### TextSearch and the code

One state per character read. `Open` is the `fopen`, `MatchSingle`, `BeginMatch`,
`ReadNewline`, `ReadOther` and `Finish` are the loop of `searchInFile`,
`MatchNext`, `MatchLast`, `MatchSkip` and `MatchFail` that of `findMatch`; the
seek back to the character after the first is part of the last two ways out
(`Advance`). Characters are compared as `char`, so `EOF` is also the byte 0xFF of
a file: both programs stop there. A string has at least one character.

### ListDir and the code

A process per directory (`pc`) and per file (`fpc`). `Explore` to `ScanDone` are
the readdir loop of `explorePath`, `Reap` and `WaitDone` its wait loop, `Search`
and `SearchFails` the process of a file, `CountLines` the end of `main`.
`fork` comes before the child's work, which any other process may overtake. The
lines of a file reach `log.log` in one step, when `searchInFile` closes its stream:
they are counted only after that process has exited, so that it does not matter
to the count when exactly within the search they are written. An exit status has
eight bits (`status`), and nobody reads it.

### PipeFifo and the code

As `ListDir`, with the pipes. What matters in the code is who can still write:
`explorePath` makes a pipe before it forks, and everything forked later inherits
`fd[1]`, knows nothing of it and closes it only by exiting; the process of a file
closes that of its own directory (line 227). `HasWriter` says so. A parent closes
its own copy after the first `wait` (`Wait`), then reads to the end of file (`Read`,
`ReadEnd`), and does the same after every further `wait`. `Write` waits for room;
`Capacity` counts totals. `mkfifo` and the `fork` behind it are one action: the
name is unlinked by the child of that fork, after it, and nothing looks at the name
in between. `mkfifo` fails when the name exists, which the code does not notice
(line 180 compares with `FAIL`), and the name is there either way.

### GrepThread and the code

Again a process per directory, and a thread per file; but the process joins each
thread before it goes on (`CreateThread`, `Join`), so at most one thread of a process
runs, and `threadArgs`, whose address every thread gets, is reused for the next
file. `Start` is the thread's `sem_wait` and its copy of the path, `Search` and
`SearchFails` the search, `End` the `sem_post`. `fd[0]` of the wait loop (line 348) has
never been assigned: `fd` chooses for each process, once, between no open file and the
standard input (`Descriptors`), and `ReadEnd` waits for the end of the latter.
`CountLines` is the end of `main`. The counters of files, directories and lines that
`main` prints, half of them from uninitialised members, are left out.

### TimeServer and the code

A name in `Clients` is a process of `seeWhat` and its pid. The server's loop
(`timeServer.c:112-176`) is cut where a signal or another process can make a
difference: the test of the exit flag (`Loop`), the read of a pid (`ReadPid`,
`ReadNothing`), the test of the request flag (`Drop`, `Count`), the pid stored in the
slot that was counted before (`Record`), `Fork`, and the reset
of the flag (`Clear`). The child server makes the FIFO (`MakeFifo`), both opens
return together (`Meet`), it sends and exits (`Send`). The client opens the main FIFO
(`Open`), writes its pid (`WritePid`), spins until it can open its own FIFO, reads the
matrix (`Receive`) and then computes, each turn ending with SIGUSR1 (`Request`),
until SIGTERM or SIGINT sets its flag (`Leave`) or the computation crashes (`Crash`).

* A handler's effect is part of the action that sends the signal. What the handler
  interrupts is `Interrupt`: `sa_flags` of the server's `struct sigaction` is never
  assigned, so `restarts` chooses whether SA_RESTART is set; without it read and open
  return an error, but only if the server was already in them.
* After a read that returned nothing or failed the code goes on with the pid it
  read before; `intStatus` and `pidClientOld` are what keep that from being a new client.
* SIGINT of a client goes to the server (`ClientInt`), but before the client knows
  the server's pid, `kill(0, SIGINT)` is sent to itself as well (`ClientIntEarly`).
* A child server has inherited the handlers with the same unassigned flags, so that a signal
  can end the open in which it waits for its client (`InterruptOpens`; line 146, return
  2): its FIFO stays, and the client waits in its own open for a writer that never
  comes. Signals reach child servers in three ways. ^C in the server's terminal goes to
  all of them (`ServerInt`); SIGINT that a client passes on goes to the server alone, but
  between `++clientPidsArr[0]` and the assignment of the slot (lines 121 and 122) the handler
  finds a 0 in the slot and its `kill(0, SIGTERM)` goes to the whole process group (`Told`,
  `ClientInt`); and SIGTERM to one of them (`ChildTerm`). Each client is in a terminal, that
  is a process group, of its own.
* A child server also keeps the read end of the main FIFO that it has inherited
  (`HasReader`): while one lives a client that writes its pid after the server has ended is
  not killed by SIGPIPE, and spins.
* `dropped` is a history variable: the new clients whose pid was read while the request flag
  was 0, or whose fork failed. `MatrixArrives` names its exceptions by it: without them a
  client that has written its pid leaves the spin, whatever the others do.
* Left out: other bits of `sa_flags`, SIGINT sent to one child server by its pid (it would tell
  clients in the server's place), SIGINT to a client that has not opened the main FIFO, the
  reuse of pids, and the order and number of entries in `clientPidsArr`, which is a set.

### Matrices, SeeWhat and the code

`Matrices` follows the functions as they are: `SwapRows` only looks at the next row and
at that row's own diagonal element, `Pivoted` is called for a zero pivot, the sign is
changed whether or not rows were swapped, and `ShiftedInverse` tests the determinant
of the first quarter only. An infinity only arises from a zero pivot, which stays on the
diagonal and turns the determinant into 0 times infinity.

A double is a reduced fraction as long as every operation that led to it gave a number that
a double holds exactly: a fraction of at most 24 bits over a power of two (`Fits`, `Rounded`;
doubles hold more, so that an operation is taken for a rounding one too often, never too
seldom). From the first operation that may round, the value is `Inexact`: any double, 0.0 and
NaN included. What the tests `== 0.0` make of such a determinant is up to the constant
`RoundedToZero`, the set of the matrices whose rounded determinant comes out as 0.0
(`Vanishes`), which the proofs leave arbitrary. So the server may accept a singular matrix, as it
does: 7 8 9 0, 1 2 3 0, 4 5 6 0, 0 0 0 1 has the determinant 6.7e-16 in doubles.
`DeterminantExact`, `InversesExact` and `CrashMeansSingular` therefore speak of the algorithm,
and stop where it rounds; by how much a rounded determinant is off is not modelled.
`SeeWhat` is the client's loop: determinant,
shifted inverse, convolution, in cells `malloc` has not cleared (`Heap`), and from the
start again with the same matrix. The loop over the columns is a recursive function
(`Determinant`), every turn of which is `Turn`.

### Solver and the code

A client's name also stands for its connection, for the server's thread and for the
segment that this thread makes. `Connect` to `ReadNothing` are `clients.c`, `Accept`,
`AcceptFails`, `Join` and `SigInt` the server's main thread and its handler,
`BeginRequest`, `Fork` and `Finish` `performRequest`, the others the three processes.

* `pid` and `shmID` are the globals of `server.c`: every thread assigns them and the
  processes it forks copy what is there at that moment (`attached`).
* The processes are not ordered. A segment's content says whose matrices are in it
  and which methods' solutions have their first cell there (`arg`, `x`); `P3Verify` computes
  from what is there and `P3Answer` sends what is there later.
* The segment is one page, and after `matrixA` it holds B, the three X and the errors, one row of
  `MAX_SIZE_MATRIX` after the other (`LastUnit`). P2 and P3 exchange rows and columns of a
  vector: `copyMatrix(MatrixX, matrix_Xm, pRow, VECTOR)` (lines 384, 398, 413) fills
  the first cell of `pRow` rows from Xm on, so the solutions of the later methods and the
  errors are overwritten (`Copied`), and leaves the page from 6, 5 and 4 rows on, where P2 may
  die (`P2Solve`); the subtraction of B at line 511 reads the first cell of `pRow` rows from
  B on and leaves the page from 7 rows on, where P3 may die unanswered (`Crash`).
  What may happen beyond the page is a choice: the memory there may be mapped or
  not. `pRow` is what the user asked for, the same in all the clients of a run.
  P1 generates B with the same exchange, in its own copy of the argument; what it leaves
  in the first cells of the X is no solution, and those beyond the argument on its stack
  are not looked at again.
* `wait` and the SIGCHLD handler reap any child, so `Finish` waits for the processes
  of all requests. Children are reaped at once: "exited" is also reaped.
* A request that could not be read (the handler closed its connection, or the client is
  gone) goes on with what was on the stack (`Garbage`), and a process that works with it
  may crash.
* Left out: SIGINT to the server's children, a failing `fork`, the barrier of
  `clients.c`, which compares with 0 what `sem_getvalue` returns and holds nobody, the
  order of connections in the backlog, the reuse of thread identifiers, the overflow of
  the arrays after `MAX_REQUEST` requests, the log files (which show the thread's own
  copy of the argument, not the segment), and the numbers the solutions hold.

`Verify` takes one solution and computes its error as `p3Verify` does, in arrays of
full size whose unassigned cells are `Garbage`. It starts from what P1 and P2 leave: all of A;
of B and X the first cell only (`First`), the others being the zeros the client has sent; the
first cell of B being that of A, since `matrixGenerator` seeds by the process and the thread
for both (lines 295, 343 and 344). `BAndBeyond` is the memory the subtraction reads for B.

## Runs

All the runs stop at an end of the system: `CHECK_DEADLOCK FALSE` is said because
the programs terminate; that they do so only when they should is `Terminates` (one in
each of `GrepShm`, `ListDir`, `PipeFifo`) and `Ends`.

| Run | Instance | Shows |
|---|---|---|
| `grepshm_flat` | `r/f1`, `r/f2`, `r/a/f3`; every failing call, semaphore left at 0 or 1 or not at all, `MaxSignals = 1` | `TypeOK`, `LogMutex`, `NoLostUpdate`, `LogLines`, the refinement `CountsOnce`, and `Terminates` under fairness |
| `grepshm_tree` | `r/f1`, `r/a/b/f2`, `r/c`; failing `opendir` and `fork`, `MaxSignals = 1` | `ReportExact`, `NoOrphans`: waiting covers the whole subtree |
| `textsearch` | all texts of up to 4 of five characters, all strings of 1 to 3 of four | `TypeOK`, `HitsExact`, `PositionsExact`, `Ends` |
| `pipefifo` | `r/f1`, `r/f2`, `r/a`, `r/a/b/f3`, `r/c`; every failing call, pipes that hold one total, `fifo.fifo` left by an earlier run or not | `TypeOK`, `NoTotalLost`, `ReturnsTotal`, `LinesExact`, `FifoRemoved`, and `Terminates` under fairness |
| `listdir` | `r/f1`, `r/a/f2`, `r/a/b/f3`; every failing call | `TypeOK`, `LinesExact`, and `Terminates` under fairness |
| `grepthread` | `r/f1`, `r/f2`, `r/a/f3`, `r/b/f4`; every failing call, descriptors that are closed or the standard input | `TypeOK`, `LinesExact`, and `Terminates` under fairness |
| `timeserver` | two clients, `MaxSignals = 2`, everything may fail, with and without SA_RESTART | `TypeOK`, `ServedAreKnown`, `ForkedOnce`, and `MatrixArrives`, `ShutsDown` under fairness |
| `seewhat` | the 625 matrices of 2x2 over -2 to 2, 1296 of 4x4 made of six blocks and four in which the elimination rounds, `Heap = {0, 3}` | `ComputationTypeOK`, `DeterminantExact`, `InversesExact`, `CrashMeansSingular`, `ConvolutionExact`, `SameEveryTime` |
| `solver` | two clients, the method of `matrix_X3`, 4 or 7 rows, one SIGINT | `TypeOK`, `NoStrayProcess`, `OwnWhenAlone`, and `EveryClientAnswered`, `ShutsDown` under fairness |
| `grepshm_normal` | the flat tree, no ^C | expected violation of `NormalMeansComplete` |
| `solver_segment` | two clients, three methods, 3 rows, no SIGINT | expected violation of `UniqueSegment` |
| `verify_norm` | matrices of up to 2x2 over 0 and 1 | expected violation of `ErrorIsNorm` |

Bounds. Two threads in one process and one in another are the least in which both
semaphores are contended, `semID` inside a process and `semForLog` between
processes, and a fork can fall between a `fprintf` and its `fflush`. The tree with
a process without files between two that have one shows what waiting must do that
joining does not: the root has no other way to learn of `b` than through `a`.
`MaxSignals = 1`: a second ^C only lets more processes leave `wait`; the choice of
the subset in one ^C already covers every process leaving early. Files have 0, 1
and 2 matches: 0 prints no line, 2 makes a lost update differ from a lost -1.
A pipe that holds one total is the least a pipe can hold and makes the second file
of a directory wait for the parent's first read; a real pipe holds thousands, and a
larger capacity only takes waiting away. A subdirectory is what inherits the pipe,
and a file two levels down inherits it through a process that has no file of its own.
A match needs at most three characters to show the first, a middle and the last
step of `findMatch`, and texts of four leave room for white space to be passed
over or for two overlapping matches.
`GrepThread` needs two files in one directory to reuse the argument and two children
to have something to reap twice. Two clients of the time server are what it takes for
one's SIGUSR1 to fall between the test and the reset of the flag for the other, and
two signals for one to arrive while what the other started is still going on (an
instance with three clients and one signal has also been checked). 2x2 matrices have
every zero pattern of a pivot, 4x4 are the least with quarters that have an inverse of
their own; the blocks include singular ones and one for which the elimination finds no
pivot. The four matrices that round are singular ones, and ones with a quarter whose rounded determinant
does or does not come out as 0.0 (`MCRoundedToZero` has what doubles give). Two requests are
all that can disagree over a global. The exhaustive run of the solver has one method, that of
`matrix_X3`, the first to leave the page: at 4 rows, where P3 does not yet, and at 7, where P3
does too. The other two methods do the same one or two rows later; their order shows in the
solutions the segment holds and in no property. In `verify_norm`, with sizes of up to two an
exchanged row and column show.

Fairness. `FairSpec` assumes that every process and every thread that can go on
does go on eventually: the operating system's scheduler. It is weak fairness per
process and per thread, not per action. It is enough for the semaphores too,
although the order in which `sem_wait` wakes waiters is not promised: a tree has
finitely many threads and each takes the semaphore once. No fairness is assumed of
`CtrlC` nor of any particular outcome of a call. `ListDir` and `PipeFifo` have the same
fairness, per process, `GrepThread` per process and per thread; that the standard input
ends is not assumed. `TextSearch` has one thread. In `TimeServer` the server, every child
server and every client that waits go on; nobody need start a client, send a signal or ask
again, and no computation need fail. `Solver` has a single weak fairness of all steps but SIGINT:
nothing in it goes on for ever, so that everyone has a turn in the end.

`Terminates` has a premise, `UsableSemaphore`: a run that finds the name
`/myLog.sem` with the value 0, left by a run that was killed while one of its
threads held it, blocks for ever. Nothing in the code recovers from that; a
reboot or the removal of the file does.

### Findings

* `NormalMeansComplete`: the errors of a child process never reach the root.
  `exitCondition` is set in the child's copy (`HW05/main.c:234`, `275`, `363`)
  and `exit(1)` at line 290 is the same for success and failure; the root prints
  `Exit Condition: normal` (lines 519-520).
* `UniqueSegment`: "create shared Memory with unique key" (`Final/server.c:93`) is
  true of the key, but the identifier goes into the global `shmID`, which another
  request overwrites before this one forks. The client is answered from another
  client's segment, or from one in which nothing was solved.
* `ErrorIsNorm`: `substractMatrices` clears `result[i][j]` and assigns `result[j][i]`
  (`Final/server.c:511`): of an error vector only the first element is computed, the
  others are 0. Line 438 adds to it: it multiplies `Error` by `ErrorT`, whose element [0][0]
  is the square of the first element, where the sum of the squares is that of
  `ErrorT` times `Error`. In the run A has a 1 in the second row of its first column and X a 1
  in its first cell, all else being 0, as P1 and P2 may leave them: only the second row fails,
  by 1, and the "Error Norm" (line 439) is 0.

Seen in the code while modelling, without a run of their own:

* `HW02/hw2.c` prints `Total: 0` whatever was found: the number of matches leaves
  the process of a file with its exit status, which `wait(&status)` overwrites
  unread (line 150). "Totally n ..." below counts the log and is right (`LinesExact`).
* `HW05/main.c` counts the root's entries twice (lines 185 and 254) and the
  children's not at all; line 510 prints the result as "Number of files searched".
* `Midterm/timeServer.c` writes past `clientPidsArr` after 254 requests (line 121). A pid
  read while the flag is 0 is dropped (line 116) and its client spins for ever
  (`seeWhat.c:102`); SIGINT to a client before its connection is handled for ever, since
  `kill(0, SIGINT)` sends it again. A client recorded after the handler ran is not told to
  end. `ShutsDown` names the two it depends on.
* A regular matrix whose elimination meets a zero pivot has the determinant NaN,
  which is not 0.0: `timeServer.c` accepts it, and singular ones with it. It also accepts
  singular ones whose determinant is rounded to something else than 0.0 (line 117).
* The open of a child server can be ended by a signal (line 146): the client then waits for a
  writer of its FIFO for ever. Between lines 121 and 122 the server's SIGINT handler calls
  `kill(0, SIGTERM)` and signals its whole process group.
* `Final/server.c` accesses memory beyond its segment: `copyMatrix` from 6, 5 and 4 rows on
  (lines 384, 398, 413), `substractMatrices` from 7 rows on (line 511), which is why
  `EveryClientAnswered` has its bound. A client may also be answered from a segment in which
  nothing has been generated or solved yet, since the processes are not ordered (line 113).
* `searchInFile` of `HW05/main.c` returns -1 for a file it cannot open, which is added
  to the total (line 364): `CountOnce` takes it for the result of the search.
* The barrier of `Final/clients.c:37` holds nobody; the single `read` at line 53 takes
  a partial answer for a whole one; the arrays of `Final/server.c:211` have room for
  `MAX_REQUEST` requests.

What ^C does, on the other hand, is in the specification and not a finding: the
report is early and children still add to the integer afterwards (`CountOnce`
allows counting after the answer when it was interrupted, and only then).

## Proofs

All the theorems hold for every value of the constants that satisfies the
assumptions: the tree of directories is finite and hangs together under `Root`
(`TreeAssumption`), files are in directories and have a natural number of matches
(`FilesAssumption`), the environment's sets have their types
(`EnvironmentAssumption`, `ListDirAssumption`, `PipeAssumption`, `GrepThreadAssumption`,
`TimeServerAssumption`, `SolverAssumption`), the matrices the server may generate have an
even size and whole numbers as `rand` gives them (`SeeWhatAssumption`), a text and a
string have a length and white space, newline and EOF are different characters
(`CharacterAssumption`). TLC evaluates them in the runs of the modules.

`SearchTreeProofs`

* Lemmas. Statements about everything below a directory follow from local ones along the
  tree: a set that has the root and the children of its members has every directory
  (`BelowInduction` for a subtree). A sum is stated by counting, one unit per match and
  minus one per `ERROR` (`Units`, `SumOver`), so that it can be reasoned about with
  cardinalities and needs no recursion: adding an element adds its value (`SumAdds`), a
  changed value outside the set changes nothing (`SumSame`), renumbering the elements
  neither (`SumMoved`), and therefore `Append` adds a value to the sum over a sequence
  (`SumAppend`) and `Tail` takes the head's away (`SumTail`).
* Nothing is below what is below it (`BelowOneWay`), so of any directories there is one
  that has no other of them below it (`Lowest`). The deadlock theorems take the lowest
  directory whose process is alive: nobody it could wait for in wait() is alive.

`NoDeadlock` of the four searches says that until the program has ended some process or thread
is at a call that returns. `Ready` and `ReadyThread` restate the guards of the actions
for it, since ENABLED cannot be reasoned about. Together with weak fairness this is
why the searches end; that they do is left to TLC (`Terminates`).

`GrepShmProofs`

* `TypeCorrect`: `TypeOK` is not inductive by itself, because `JoinEnd` takes the head
  of `threadIDs`: `TypeInv` adds that a process that is joining has a thread to join.
* `MutualExclusion`: `LogMutex`. The invariant `LogInv` says that the
  semaphore is 0 or 1 and that nobody is inside while it is 1. It needs
  `BeforeStart` (nothing runs before `performSearch`), because `Start` may set the
  semaphore to 1. A stale value of 0 or 1 is covered.
* `NoUpdateIsLost`: `NoLostUpdate`. `SumInv` adds that a thread about to
  store has read the present value of the integer, which holds because of mutual
  exclusion. `ScanInv` says that an entry not yet returned by readdir has no
  thread or process yet, without which `CreateThread` could take a file out of the
  set of those that have stored.
* `NobodyLeftBehind`: `NoOrphans`, and `ReportIsExact`: `ReportExact`. What is inductive
  is local to a directory: a skipped directory has no process (`SkipInv`), a process past
  its join loop has stored the totals of all its files (`JoinInv`), one past its readdir
  loop has forked for every subdirectory or skipped it (`ForkInv`), one past its wait
  loop has reaped all its children (`WaitInv`), and what the root has read is the integer
  as it still is (`ResultInv`). From there both properties follow by induction down the
  tree, which `TreeAssumption` provides: a set that has the root and the children of its
  members has every directory.
* `ImplementsCountOnce`: `Spec => CountsOnce`. Every step maps to a step of `CountOnce`
  or to a stutter: `Store` counts a file (`StoreCounts`), a failing `opendir` or `fork`
  excuses all files below (`SkipExcuses`), the root's read is the answer
  (`RootAnswers`, from `ReportExact` unless ^C was pressed) or the end without one
  (`RootGivesUp`), and everything else is hidden (`Hidden`).
* `LogHasTheLines`: `LogLines`. A fork between a thread's `fprintf` and `fflush` copies the
  buffer, and who has a copy writes it at its exit; forks of that process copy it again.
  `BufferInv` says where the lines of a file can be, and `CopyInv` bounds them: the
  times they are in the log and the processes that may still write them (`Pending`:
  those with a copy, those not yet forked, and the thread's own before its flush) are
  together no more than there are processes below the file's directory. A flush or an exit
  moves one from the second to the first, a fork turns one not yet forked into a copy.
* `NoDeadlock`, for `UsableSemaphore` (an earlier run has not left the name at 0). A thread
  takes the semaphore of its process, then the shared one, and gives them back in the
  same order. While either is 0 some thread holds it (`TokenInv`, `LogTokenInv`), and the
  holder of the shared one waits for nothing; so if no thread can go on, all have ended,
  the joins return (`ListInv`: a process joins only threads it has created, each once),
  and the lowest live process can go on. Without the hypothesis it is false: a run
  killed while a thread was inside leaves 0, and the threads of the next one wait for ever.

`TextSearchProofs`

* `TypeCorrect`; `PositionsAreTheirs`: `PositionsExact`, from the invariant that row and
  column of the scan are those of its position (`PlaceInv`); `MatchesAreTheOccurrences`:
  `HitsExact`, the one about the algorithm. findMatch takes the first character that fits and never
  tries another. `LagInv` compares it with any occurrence at the same place: the next
  character of the occurrence is never before the one findMatch reads, and if findMatch
  has found more characters than the occurrence has there, these are white space. So where findMatch
  meets a character that neither fits nor is white space, the occurrence cannot go on either (`GivesUp`).

`ListDirProofs`

* `TypeCorrect`, and `CountIsExact`: `LinesExact`. As in `GrepShmProofs` the
  invariants follow one directory and its entries (`ScanInv`, `SkipInv`, `ForkInv`,
  `WaitInv`), and three inductions along the tree (`SearchTreeProofs`) give the rest:
  when main's loop of waits is over nobody is left (`NobodyLeft`), nothing below a skipped
  directory has been searched (`BelowSkipped`), and every other file has (`AllSearched`).
  `LinesInv` keeps the number of lines equal to the matches of the files searched so
  far (`MatchesOf`, `MatchesAdd`); that a search adds to the log
  after main has counted it is excluded by `NobodyLeft`.
* `ImplementsCountOnce`: every step is a step of `CountOnce` or a stutter. A search counts
  its file, which is not excused (`SearchCounts`, from `BelowSkipped`); a call that fails
  excuses its entry and everything below (`SkipExcuses`); main's count is the answer
  (`CountAnswers`, from `AllSearched`); everything else is hidden.
* `NoDeadlock`: if no search can go on, the lowest live process has only children that have
  ended; then its wait returns.

`PipeFifoProofs`

* `TypeCorrect`: a pipe holds no more than `Capacity`. `CountIsExact`: `LinesExact`, and
  `ImplementsCountOnce`, along the same lines as for `ListDir`.
* `NoTotalIsLost`: `NoTotalLost` is inductive together with the invariants about a
  directory's entries: a write appends to the pipe what it adds to the written totals
  (`SumAppend`, `SumAdds`), a read takes off the head of the pipe what it adds to the reader's
  sum (`SumTail`).
* `ReturnsTheTotal`: `ReturnsTotal`. A process that has reaped a child has closed its
  write end and reads on to the end of file, which it sees only when no file's process can
  write any more; so when its last `wait` returns -1 its pipe is empty and every child it
  forked for has written (`PipeInv`). `FilledInv` says that a pipe holds
  totals only when some file's process has written one.
* `FifoIsRemoved`: `FifoRemoved`. Any process may unlink the name another one has just made;
  `FifoInv` says that while the name exists after a fork some child lives that has yet to
  unlink it, and `NobodyLeft` that main has none left.
* `NoDeadlock`: while the process of a file waits at a full pipe, somebody can go on
  (`WriterMoves`). Either the process of its directory is in a loop that goes on, or it is in
  its first wait; then some file's process has filled the pipe, and it has ended or can.
  If no file's process is alive, the lowest live directory's process can go on: it has
  closed its own write end before it reads (`ClosedInv`), so it sees the end of its pipe.

`GrepThreadProofs`

* `TypeCorrect`, and `CountIsExact`: `LinesExact`, along the same lines. What is new is the
  argument that all the threads of a process share: `ArgInv` says that a thread not yet
  joined is the one the argument names and its process waits for, which also
  shows that the semaphore is never more than 1. `ImplementsCountOnce` as above.
* `NoDeadlock`: the thread that a process joins has ended or can take the semaphore, which
  is 1 unless that very thread is searching (`ArgInv`). A process that reads the standard
  input through the uninitialised descriptor waits for the user and is excepted.

`MidtermProofs`, `TimeServer`

* `TypeCorrect`, `ServedClientsAreKnown`: `ServedAreKnown`, `NobodyForkedTwice`: `ForkedOnce`.
  The invariant is that a client's pid is in one place at a time: not yet written, once in the FIFO, in `pidClient`
  as a new one, or used up; used up ones are recorded, and only a new one leads to `Fork`.
  That also bounds the FIFO, since a sequence without repetitions is no longer than
  there are clients (`DistinctBounded`).
* `ServedClientsAreTold`, an action property: the step that first handles SIGINT sets the
  exit flag of every client served so far.

`MidtermProofs`, `SeeWhat` and `Matrices`

* Lemmas. `Fraction` chooses a greatest common divisor: it exists (`FractionReduced`, a
  set of natural numbers has a least element), the quotient is the same number
  (`FractionValue`), so the arithmetic stays within fractions and is exact (`TimesExact`,
  `MinusExact`, `OverExact`) until one of them may round. A fact about every turn of the elimination is the set of the
  turns for which it holds, which is the whole interval if it has 0 and with k - 1 also k
  (`IntervalInduction`). The same gives `Iteration`: the equations of a loop of n
  turns have a solution, without which the recursive function `turns` would be a CHOOSE
  about which nothing is known. From both follows what the elimination of any matrix
  goes through (`DeterminantTurns`).
* `ComputationTypeCorrect`: `ComputationTypeOK`; `ConvolutionIsExact`: `ConvolutionExact`;
  `ResultsAreTheSame`: `SameEveryTime`, an action property. The invariant `ResultInv` says
  that whatever has been computed is a function of the matrix received, and of nothing
  a later turn may have changed: the determinant (`DeterminantInv`), the shifted inverse
  (`ShiftedInv`), the first result (`FirstTurnInv`) and the convolution less what `malloc`
  left (`ConvolutionInv`).
* `CrashesOfAnotherQuarter`: the client dies only if the determinant computed for the first
  quarter is not 0.0 and that of another one is. `DeterminantOfTwo` says what is computed for two
  rows, by unrolling the loop: a * d - b * c or a value that may be rounded, except that a zero pivot
  that stays gives no number at all. From both, `CrashOfFourRows`: in a matrix of four rows that
  quarter is singular, or its determinant was rounded. All of it holds whatever `RoundedToZero` is.

`SolverProofs`

* `TypeCorrect`: a process that runs has a segment, since `shmID` is never unset once a
  thread has begun (`SegmentInv`). `NoProcessIsLeft`: `NoStrayProcess`, from the stages a thread has been
  through (`StageInv`). `AloneMeansOwn`: `OwnWhenAlone`. While a request is alone,
  `shmID` is its own segment and nobody else's process is attached to it, and what its
  segment and its thread hold is its own or nothing (`ArgInv`, `OwnInv`).
* `AloneMeansUnique`: what `UniqueSegment` says of all requests, and is violated, does hold
  of every request that met no other.

Only model-checked: all liveness (`Terminates`, `Ends`, `MatrixArrives`, `EveryClientAnswered`,
`ShutsDown`), because fairness and ENABLED are out of the prover's reach; and
`DeterminantExact`, `InversesExact` and `CrashMeansSingular` of `SeeWhat` for matrices of any
size. They compare what the elimination computes with the sum over all permutations
(`Leibniz`), or with the sums of a product of matrices. That elimination keeps these
for n columns takes the laws of such sums (a row added to another one, two rows exchanged),
which are inductions over a definition by folds; for two rows they are the
arithmetic of `DeterminantOfTwo`.

## Plan

What is left, in this order:

1. Lemmas about the four searches that are repeated in their modules, in one place: what
   `NobodyLeft`, `BelowSkipped` and `AllSearched` use of a program is the same everywhere.
2. What a request that did meet another can still get: an inductive invariant for the
   answers of `Solver` without the history variable.
3. `GrepRuns`: several runs of `HW05/main.c` in a row and at once, with kills:
   children that outlive their root, the common segment, names of semaphores left behind.
4. The order of entries and the number of requests in `clientPidsArr`.

## Not modelled

The empty stubs of `Final/` (`QRFact.c`, `SVDecomposition.c`, `pInverse.c`), the files generated under
`cmake-build-debug/` and `.idea/`, the sample inputs and logs, and the text of
printed reports. `main` of `Midterm/showResults.c` calls the functions of `Matrices`
once for one random matrix and prints the results; it has no state, and only its
functions are modelled.
