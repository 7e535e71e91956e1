------------------------------- MODULE Solver -------------------------------
(***************************************************************************)
(* Final/server.c and Final/clients.c.  A client is a thread of the        *)
(* clients program with a connection of its own; it sends its sizes and    *)
(* waits for the answer.  The server has a thread per connection, which    *)
(* makes a shared segment and forks three processes: P1 generates the      *)
(* matrices into it, P2 solves with three threads, P3 verifies and answers *)
(* the client.  The identifier of the segment travels to the processes in  *)
(* a global variable that every thread assigns, and nothing but luck       *)
(* orders the three.  A client's name also stands for its connection, the  *)
(* server's thread for it and the segment that thread makes.               *)
(***************************************************************************)
EXTENDS Integers, FiniteSets

CONSTANTS
  Clients,        \* threads of the clients program
  Methods,        \* the threads of P2: i stands for the one that fills matrix_Xi
  Sizes,          \* the numbers of rows that users may ask for
  MaxSignals,     \* how often the server receives SIGINT
  None,           \* no segment, no answer, nothing in a segment
  Garbage         \* the content of a variable nobody has assigned

ASSUME SolverAssumption ==
  /\ IsFiniteSet(Clients) /\ Methods \subseteq 1 .. 3 /\ Sizes \subseteq 1 .. 20
  /\ MaxSignals \in Nat
  /\ None \notin Clients /\ Garbage \notin Clients /\ None # Garbage

Stages == {"P1", "P2", "P3"}

\* What a segment holds: whose sizes and matrices, and the methods whose
\* solution has its first cell there.  A reply tells whose matrices it brings
\* and from whose its errors were computed.
Args == Clients \cup {None, Garbage}
Contents == [arg : Args, x : SUBSET Methods]
Empty == [arg |-> None, x |-> {}]

-----------------------------------------------------------------------------

VARIABLES
  \* The clients program:
  cpc,            \* per client, where its thread is
  reply,          \* per client, what its read returned
  pRow,           \* the rows asked for, the same in all its threads
  \* The server's main thread and what its threads share:
  mpc,            \* where main is
  listening,      \* socketFD is open
  connectionFD,   \* the connection accepted last
  closed,         \* connections closed by the signal handler
  pid,            \* "zero", "clients" or Garbage
  shmID,          \* the segment made last
  signals,        \* history: how often SIGINT came
  overlapped,     \* history: requests that were not alone in the server
  \* Per request:
  tpc,            \* where its thread is
  arg,            \* what its thread read: the client, or Garbage
  \* Per request and stage:
  ppc,            \* where the process is
  attached,       \* the copy of shmID it was forked with
  \* Per request, in its processes:
  ran,            \* P2: the methods that have run
  errors,         \* P3: the content of the segment the errors are computed from
  answers,        \* P3: its copy of the connection is open
  segment         \* the shared segments

clientVars == <<cpc, reply>>
mainVars == <<mpc, listening, connectionFD, closed, signals>>
globals == <<pid, shmID, overlapped, pRow>>
threadVars == <<tpc, arg>>
procVars == <<ppc, attached, ran, errors, answers, segment>>
vars == <<clientVars, mainVars, globals, threadVars, procVars>>

TypeOK ==
  /\ cpc \in [Clients -> {"absent", "write", "read", "done", "gone"}]
  /\ reply \in [Clients -> {None} \cup [arg : Args, errors : Args]]
  /\ pRow \in Sizes
  /\ mpc \in {"accept", "join", "returned", "failed", "killed"}
  /\ listening \in BOOLEAN
  /\ connectionFD \in Clients \cup {None}
  /\ closed \subseteq Clients
  /\ pid \in {"zero", "clients", Garbage}
  /\ shmID \in Clients \cup {None}
  /\ signals \in 0 .. MaxSignals
  /\ overlapped \subseteq Clients
  /\ tpc \in [Clients -> {"absent", "read", "P1", "P2", "P3", "wait", "done"}]
  /\ arg \in [Clients -> Args]
  /\ ppc \in [Clients -> [Stages -> {"absent", "run", "verified", "exited"}]]
  /\ attached \in [Clients -> [Stages -> Clients \cup {None}]]
  /\ ran \in [Clients -> SUBSET Methods]
  /\ errors \in [Clients -> Contents]
  /\ answers \in [Clients -> BOOLEAN]
  /\ segment \in [Clients -> Contents]

Init ==
  /\ cpc = [c \in Clients |-> "absent"]
  /\ reply = [c \in Clients |-> None]
  /\ pRow \in Sizes
  /\ mpc = "accept" /\ listening = TRUE
  /\ connectionFD = None /\ closed = {}
  /\ pid = "zero" /\ shmID = None
  /\ signals = 0 /\ overlapped = {}
  /\ tpc = [r \in Clients |-> "absent"]
  /\ arg = [r \in Clients |-> None]
  /\ ppc = [r \in Clients |-> [p \in Stages |-> "absent"]]
  /\ attached = [r \in Clients |-> [p \in Stages |-> None]]
  /\ ran = [r \in Clients |-> {}]
  /\ errors = [r \in Clients |-> Empty]
  /\ answers = [r \in Clients |-> FALSE]
  /\ segment = [r \in Clients |-> Empty]

ServerUp == mpc \notin {"returned", "failed", "killed"}
Running(r, p) == ppc[r][p] \in {"run", "verified"}
Active(r) == tpc[r] \notin {"absent", "read", "done"}
-----------------------------------------------------------------------------
(***************************************************************************)
(* clients.c.  The barrier on semID holds nobody back: what the threads    *)
(* compare with 0 is what sem_getvalue returns.                            *)
(***************************************************************************)

\* main connects and creates the thread.
Connect(c) ==
  /\ cpc[c] = "absent"
  /\ listening /\ ServerUp
  /\ cpc' = [cpc EXCEPT ![c] = "write"]
  /\ UNCHANGED <<reply, mainVars, globals, threadVars, procVars>>

\* exit ends all threads and closes their connections.
ExitClients == cpc' = [c \in Clients |-> IF cpc[c] = "done" THEN "done" ELSE "gone"]

ConnectFails(c) ==
  /\ cpc[c] = "absent"
  /\ ~listening \/ ~ServerUp
  /\ ExitClients
  /\ UNCHANGED <<reply, mainVars, globals, threadVars, procVars>>

WriteRequest(c) ==
  /\ cpc[c] = "write"
  /\ cpc' = [cpc EXCEPT ![c] = "read"]
  /\ UNCHANGED <<reply, mainVars, globals, threadVars, procVars>>

\* read returns nothing when no process of the server has the connection open
\* any more; the client goes on as if it had been answered.
ReadNothing(c) ==
  /\ cpc[c] = "read"
  /\ tpc[c] = "done" \/ c \in closed \/ ~ServerUp
  /\ \A r \in Clients, p \in Stages : ~Running(r, p)
  /\ cpc' = [cpc EXCEPT ![c] = "done"]
  /\ UNCHANGED <<reply, mainVars, globals, threadVars, procVars>>

-----------------------------------------------------------------------------
(***************************************************************************)
(* main of server.c and its signal handler.                                *)
(***************************************************************************)

Accept(c) ==
  /\ mpc = "accept" /\ listening
  /\ cpc[c] \notin {"absent", "gone"} /\ tpc[c] = "absent"
  /\ connectionFD' = c
  /\ tpc' = [tpc EXCEPT ![c] = "read"]
  /\ UNCHANGED <<clientVars, mpc, listening, closed, signals, globals, arg, procVars>>

\* accept on the socket that the handler has closed: exit(TRUE).
AcceptFails ==
  /\ mpc = "accept" /\ ~listening
  /\ mpc' = "failed"
  /\ UNCHANGED <<clientVars, listening, connectionFD, closed, signals, globals,
                 threadVars, procVars>>

Join ==
  /\ mpc = "join"
  /\ \A r \in Clients : tpc[r] \in {"absent", "done"}
  /\ mpc' = "returned"
  /\ UNCHANGED <<clientVars, listening, connectionFD, closed, signals, globals,
                 threadVars, procVars>>

\* Fault: the handler leaves the socket open.
SigIntKeepSocket ==
  /\ ServerUp /\ signals < MaxSignals
  /\ signals' = signals + 1
  /\ closed' = IF connectionFD = None THEN closed ELSE closed \cup {connectionFD}
  /\ mpc' \in IF pid = "zero" THEN {"killed"}
              ELSE IF mpc = "accept" THEN {"accept", "join"} ELSE {mpc}
  /\ IF pid = "clients" THEN ExitClients ELSE UNCHANGED cpc
  /\ UNCHANGED <<reply, listening, connectionFD, globals, threadVars, procVars>>

\* SIGINT.  kill(pid, SIGTERM) ends the clients, or, before any request, the
\* server's own process group.  exitFlag is tested again when accept returns
\* with EINTR, or if main was not beyond the test; a main between the test and
\* accept calls it on a closed socket.
SigInt ==
  /\ ServerUp /\ signals < MaxSignals
  /\ signals' = signals + 1
  /\ listening' = FALSE
  /\ closed' = IF connectionFD = None THEN closed ELSE closed \cup {connectionFD}
  /\ mpc' \in IF pid = "zero" THEN {"killed"}
              ELSE IF mpc = "accept" THEN {"accept", "join"} ELSE {mpc}
  /\ IF pid = "clients" THEN ExitClients ELSE UNCHANGED cpc
  /\ UNCHANGED <<reply, connectionFD, globals, threadVars, procVars>>

-----------------------------------------------------------------------------
(***************************************************************************)
(* performRequest, in the thread of request r.                             *)
(***************************************************************************)

\* Fault: all requests have the same key.
BeginRequestSameKey(r, a) ==
  /\ tpc[r] = "read" /\ ServerUp
  /\ arg' = [arg EXCEPT ![r] = a]
  /\ pid' = IF a = Garbage THEN Garbage ELSE "clients"
  /\ shmID' = CHOOSE c \in Clients : TRUE
  /\ tpc' = [tpc EXCEPT ![r] = "P1"]
  /\ UNCHANGED <<clientVars, mainVars, overlapped, pRow, procVars>>

\* What the thread read, the client's pid and a segment of its own.
BeginRequest(r, a) ==
  /\ tpc[r] = "read" /\ ServerUp
  /\ arg' = [arg EXCEPT ![r] = a]
  /\ pid' = IF a = Garbage THEN Garbage ELSE "clients"
  /\ shmID' = r
  /\ tpc' = [tpc EXCEPT ![r] = "P1"]
  /\ overlapped' = LET others == {s \in Clients \ {r} : Active(s)}
                   IN  overlapped \cup others \cup (IF others = {} THEN {} ELSE {r})
  /\ UNCHANGED <<clientVars, mainVars, pRow, procVars>>

ReadRequest(r) == cpc[r] \in {"read", "done", "gone"} /\ BeginRequest(r, r)

\* The handler has closed the connection, or the client has gone without
\* having written: threadArg is what was on the stack.
ReadRequestFails(r) == (r \in closed \/ cpc[r] = "gone") /\ BeginRequest(r, Garbage)

After(p) == CASE p = "P1" -> "P2" [] p = "P2" -> "P3" [] p = "P3" -> "wait"

\* The child has the values of shmID and of the connection at this moment.
Fork(r, p) ==
  /\ tpc[r] = p /\ ServerUp
  /\ ppc' = [ppc EXCEPT ![r][p] = "run"]
  /\ attached' = [attached EXCEPT ![r][p] = shmID]
  /\ answers' = [answers EXCEPT ![r] = p = "P3" /\ r \notin closed]
  /\ tpc' = [tpc EXCEPT ![r] = After(p)]
  /\ UNCHANGED <<clientVars, mainVars, globals, arg, ran, errors, segment>>

\* Fault: wait is called once, and returns for any child.
FinishAfterOne(r) ==
  /\ tpc[r] = "wait" /\ ServerUp
  /\ \E s \in Clients, p \in Stages : ppc[s][p] = "exited"
  /\ tpc' = [tpc EXCEPT ![r] = "done"]
  /\ UNCHANGED <<clientVars, mainVars, globals, arg, procVars>>

\* wait, and fireman, reap children of any request; wait returns -1 when the
\* process has none.  Then the log is written and the connection closed.
Finish(r) ==
  /\ tpc[r] = "wait" /\ ServerUp
  /\ \A s \in Clients, p \in Stages : ~Running(s, p)
  /\ tpc' = [tpc EXCEPT ![r] = "done"]
  /\ UNCHANGED <<clientVars, mainVars, globals, arg, procVars>>

-----------------------------------------------------------------------------
(***************************************************************************)
(* The processes of request r, each on the segment it was forked with.     *)
(***************************************************************************)

\* What the process had goes with it.
Exit(r, p) ==
  /\ ppc' = [ppc EXCEPT ![r][p] = "exited"]
  /\ attached' = [attached EXCEPT ![r][p] = None]

\* The segment is one page, in which B, the three X and the errors follow one
\* another in units of one row: B is unit 0, Xi unit i, and unit 6 is the
\* first beyond the page, where an access may kill the process.
LastUnit == 5

\* What a process takes for pRow in a segment with this arg; more than 7 rows
\* do what 7 do.
Rows(a) == CASE a = None -> {0} [] a = Garbage -> 0 .. 7 [] OTHER -> {pRow}

\* *shmData = arg: the matrices, and no solutions (what the generation of B
\* has left in the first cells of X is none).
P1Generate(r) ==
  /\ Running(r, "P1")
  /\ segment' = [segment EXCEPT ![attached[r]["P1"]] = [arg |-> arg[r], x |-> {}]]
  /\ Exit(r, "P1")
  /\ UNCHANGED <<clientVars, mainVars, globals, threadVars, ran, errors, answers>>

\* copyMatrix is called with rows and columns exchanged: n rows fill the first
\* cells of n units from Xm on, the first with the solution and the others with
\* what is on the stack.
Copied(x, m, n) == IF n = 0 THEN x ELSE (x \ (m + 1 .. m + n - 1)) \cup {m}

\* The thread of method m.  p2Solve joins its threads.
P2Solve(r, m) ==
  LET s == attached[r]["P2"] IN
  /\ Running(r, "P2") /\ m \in Methods \ ran[r]
  /\ \E n \in Rows(segment[s].arg) :
       /\ segment' = [segment EXCEPT ![s].x = Copied(@, m, n)]
       /\ \/ /\ ran[r] \cup {m} = Methods \/ m + n - 1 > LastUnit
             /\ Exit(r, "P2") /\ ran' = [ran EXCEPT ![r] = {}]
          \/ /\ ran[r] \cup {m} # Methods
             /\ ran' = [ran EXCEPT ![r] = @ \cup {m}] /\ UNCHANGED <<ppc, attached>>
  /\ UNCHANGED <<clientVars, mainVars, globals, threadVars, errors, answers>>

\* Fault: shmat has failed.
P3VerifyUnattached(r) ==
  /\ ppc[r]["P3"] = "run"
  /\ errors' = [errors EXCEPT ![r] = None]
  /\ ppc' = [ppc EXCEPT ![r]["P3"] = "verified"]
  /\ UNCHANGED <<clientVars, mainVars, globals, threadVars, attached, ran, answers, segment>>

P3Verify(r) ==
  /\ ppc[r]["P3"] = "run"
  /\ errors' = [errors EXCEPT ![r] = segment[attached[r]["P3"]]]
  /\ ppc' = [ppc EXCEPT ![r]["P3"] = "verified"]
  /\ UNCHANGED <<clientVars, mainVars, globals, threadVars, attached, ran, answers, segment>>

\* Fault: P3 leaves without a write.
P3AnswerSkipped(r) ==
  /\ ppc[r]["P3"] = "verified"
  /\ Exit(r, "P3")
  /\ UNCHANGED <<clientVars, mainVars, globals, threadVars, ran, errors, answers, segment>>

\* The segment is sent as it is now, with the errors computed before, and the
\* client's read returns it.
P3Answer(r) ==
  LET s == segment[attached[r]["P3"]] IN
  /\ ppc[r]["P3"] = "verified"
  /\ IF answers[r] /\ cpc[r] = "read"
     THEN /\ reply' = [reply EXCEPT ![r] = [arg |-> s.arg, errors |-> errors[r].arg]]
          /\ cpc' = [cpc EXCEPT ![r] = "done"]
     ELSE UNCHANGED clientVars
  /\ errors' = [errors EXCEPT ![r] = Empty]
  /\ answers' = [answers EXCEPT ![r] = FALSE]
  /\ Exit(r, "P3")
  /\ UNCHANGED <<mainVars, globals, threadVars, ran, segment>>

\* A size that nobody has set makes a loop run out of its matrix; so do the
\* subtractions of P3, which take the rows of B for whole units.
Crash(r, p) ==
  /\ ppc[r][p] = "run"
  /\ LET a == IF p = "P1" THEN arg[r] ELSE segment[attached[r][p]].arg IN
     a = Garbage \/ (p = "P3" /\ a # None /\ pRow - 1 > LastUnit)
  /\ Exit(r, p)
  /\ UNCHANGED <<clientVars, mainVars, globals, threadVars, ran, errors, answers, segment>>

-----------------------------------------------------------------------------

ClientStep(c) == Connect(c) \/ ConnectFails(c) \/ WriteRequest(c) \/ ReadNothing(c)
MainStep == AcceptFails \/ Join \/ \E c \in Clients : Accept(c)
ThreadStep(r) ==
  ReadRequest(r) \/ ReadRequestFails(r) \/ Finish(r) \/ \E p \in Stages : Fork(r, p)
ProcessStep(r) ==
  \/ P1Generate(r) \/ P3Verify(r) \/ P3Answer(r)
  \/ \E m \in Methods : P2Solve(r, m)
  \/ \E p \in Stages : Crash(r, p)

Step == MainStep \/ \E c \in Clients : ClientStep(c) \/ ThreadStep(c) \/ ProcessStep(c)

Next == Step \/ SigInt

Spec == Init /\ [][Next]_vars

\* The operating system does not stop while a thread or a process can go on.
\* No one takes steps for ever, so that every one has its turn.
FairSpec == Spec /\ WF_vars(Step)

-----------------------------------------------------------------------------
(***************************************************************************)
(* Properties.                                                             *)
(***************************************************************************)

\* A thread that has written its log and closed its connection has no process
\* left, although wait and the SIGCHLD handler reap the children of all the
\* threads; nor has a server whose main returned.
NoStrayProcess ==
  /\ \A r \in Clients : tpc[r] = "done" => \A p \in Stages : ppc[r][p] = "exited"
  /\ mpc = "returned" => \A r \in Clients, p \in Stages : ~Running(r, p)

\* A client whose request did not meet another one in the server gets matrices
\* of its own, or the empty segment, and errors computed from such; never what
\* an earlier request left.
OwnWhenAlone ==
  \A c \in Clients \ overlapped : reply[c] # None =>
    {reply[c].arg, reply[c].errors} \subseteq {c, None}

\* Unless the server is interrupted every client that connects is answered, if
\* its rows are few enough for P3 to stay within the segment, even when its P2
\* leaves it and dies.
EveryClientAnswered ==
  \A c \in Clients :
    cpc[c] = "write" ~> (reply[c] # None \/ signals > 0 \/ pRow - 1 > LastUnit)

\* After SIGINT the server ends.
ShutsDown == signals > 0 ~> ~ServerUp

\* "create shared Memory with unique key": the processes of a request work on
\* a segment that those of no other request work on.
UniqueSegment ==
  \A r, s \in Clients : r # s =>
    \A p, q \in Stages :
      attached[r][p] # None /\ attached[s][q] # None => attached[r][p] # attached[s][q]
=============================================================================
