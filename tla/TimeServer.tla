----------------------------- MODULE TimeServer -----------------------------
(***************************************************************************)
(* Midterm/timeServer.c and the main program of Midterm/seeWhat.c.  A      *)
(* client writes its pid into the main FIFO and waits for a FIFO of its    *)
(* own; the server reads pids and forks a child server that makes this     *)
(* FIFO and sends one matrix.  SIGUSR1 from a client that computes sets a  *)
(* flag of the server, without which a pid is read and thrown away.        *)
(* SIGINT ends the server and, by SIGTERM, the clients it has recorded.    *)
(* What the clients compute is in SeeWhat.                                 *)
(***************************************************************************)
EXTENDS Integers, Sequences, FiniteSets

CONSTANTS
  Clients,        \* processes of seeWhat; a name also stands for the pid
  MayFail,        \* what may fail: system calls, a client's computation
  MaxSignals,     \* how many signals the users send
  NoClient        \* the pid 0

ASSUME TimeServerAssumption ==
  /\ IsFiniteSet(Clients) /\ NoClient \notin Clients
  /\ MayFail \subseteq {"fork", "mkfifo", "compute"}
  /\ MaxSignals \in Nat

VARIABLES
  \* The server:
  mpc,            \* where it is
  fifo,           \* the pids in the main FIFO
  globalIntExitFlag, globalIntRequestSignal,
  pidClient, pidClientOld,
  intStatus,      \* the last read returned a pid
  clientPidsArr,  \* the pids recorded, the order and repetitions left out
  restarts,       \* the uninitialised sa_flags have SA_RESTART
  dropped,        \* history: new clients whose pid was read and lost
  interrupted,    \* history: SIGINT has been handled
  signals,        \* history: how many signals the users have sent
  \* Per client:
  spc,            \* where its child server is
  cpc,            \* where the client is
  exitFlag        \* its globalIntExitFlag

serverVars == <<mpc, fifo, globalIntRequestSignal, pidClient, pidClientOld, intStatus,
                clientPidsArr>>
signalVars == <<globalIntExitFlag, interrupted, signals, exitFlag>>
vars == <<serverVars, signalVars, restarts, dropped, spc, cpc>>

TypeOK ==
  /\ mpc \in {"open", "loop", "read", "got", "record", "fork", "clear", "exited", "failed"}
  /\ fifo \in Seq(Clients) /\ Len(fifo) <= Cardinality(Clients)
  /\ globalIntExitFlag \in BOOLEAN /\ globalIntRequestSignal \in BOOLEAN
  /\ pidClient \in Clients \cup {NoClient} /\ pidClientOld \in Clients \cup {NoClient}
  /\ intStatus \in BOOLEAN
  /\ clientPidsArr \subseteq Clients \cup {NoClient}
  /\ restarts \in BOOLEAN /\ interrupted \in BOOLEAN
  /\ dropped \subseteq Clients
  /\ signals \in 0 .. MaxSignals
  /\ spc \in [Clients -> {"absent", "mkfifo", "open", "write", "exited", "failed"}]
  /\ cpc \in [Clients -> {"start", "write", "spin", "receive", "loop", "stuck", "gone"}]
  /\ exitFlag \in [Clients -> BOOLEAN]

\* The main FIFO has just been made.
Init ==
  /\ mpc = "open" /\ fifo = <<>>
  /\ globalIntExitFlag = FALSE /\ globalIntRequestSignal = TRUE
  /\ pidClient = NoClient /\ pidClientOld = NoClient /\ intStatus = FALSE
  /\ clientPidsArr = {}
  /\ restarts \in BOOLEAN /\ interrupted = FALSE /\ signals = 0 /\ dropped = {}
  /\ spc = [c \in Clients |-> "absent"]
  /\ cpc = [c \in Clients |-> "start"]
  /\ exitFlag = [c \in Clients |-> FALSE]

ServerUp == mpc \notin {"exited", "failed"}
HasReader == ServerUp \/ \E c \in Clients : spc[c] \in {"mkfifo", "open", "write"}
HasWriter == \E c \in Clients : cpc[c] \notin {"start", "gone"}

-----------------------------------------------------------------------------
(***************************************************************************)
(* The server.                                                             *)
(***************************************************************************)

Loop ==
  /\ mpc = "loop"
  /\ IF globalIntExitFlag
     THEN mpc' = "exited" /\ UNCHANGED pidClientOld
     ELSE mpc' = "read" /\ pidClientOld' = pidClient
  /\ UNCHANGED <<fifo, globalIntRequestSignal, pidClient, intStatus, clientPidsArr,
                 signalVars, restarts, dropped, spc, cpc>>

\* Fault: the pid is remembered after the read, so that none is ever new.
ReadPidRemembered ==
  /\ mpc = "read" /\ fifo # <<>>
  /\ pidClient' = Head(fifo) /\ fifo' = Tail(fifo)
  /\ pidClientOld' = Head(fifo)
  /\ intStatus' = TRUE
  /\ mpc' = "got"
  /\ UNCHANGED <<globalIntRequestSignal, clientPidsArr,
                 signalVars, restarts, dropped, spc, cpc>>

ReadPid ==
  /\ mpc = "read" /\ fifo # <<>>
  /\ pidClient' = Head(fifo) /\ fifo' = Tail(fifo)
  /\ intStatus' = TRUE
  /\ mpc' = "got"
  /\ UNCHANGED <<globalIntRequestSignal, pidClientOld, clientPidsArr,
                 signalVars, restarts, dropped, spc, cpc>>

\* No client has the FIFO open.
ReadNothing ==
  /\ mpc = "read" /\ fifo = <<>> /\ ~HasWriter
  /\ intStatus' = FALSE
  /\ mpc' = "got"
  /\ UNCHANGED <<fifo, globalIntRequestSignal, pidClient, pidClientOld, clientPidsArr,
                 signalVars, restarts, dropped, spc, cpc>>

New == intStatus /\ pidClientOld # pidClient

Drop ==
  /\ mpc = "got" /\ ~globalIntRequestSignal
  /\ mpc' = "loop"
  /\ dropped' = IF New THEN dropped \cup {pidClient} ELSE dropped
  /\ UNCHANGED <<fifo, globalIntRequestSignal, pidClient, pidClientOld, intStatus,
                 clientPidsArr, signalVars, restarts, spc, cpc>>

\* The matrix is generated and a slot of clientPidsArr counted, whatever read
\* returned; the slot still holds 0.
Count ==
  /\ mpc = "got" /\ globalIntRequestSignal
  /\ mpc' = "record"
  /\ UNCHANGED <<fifo, globalIntRequestSignal, pidClient, pidClientOld, intStatus,
                 clientPidsArr, signalVars, restarts, dropped, spc, cpc>>

RecordIn(pids, next) ==
  /\ mpc = "record"
  /\ clientPidsArr' = pids
  /\ mpc' = next
  /\ UNCHANGED <<fifo, globalIntRequestSignal, pidClient, pidClientOld, intStatus,
                 signalVars, restarts, dropped, spc, cpc>>

\* Faults: every request gets a child server; only requests that get none
\* are recorded.
RecordForkAlways ==
  RecordIn(clientPidsArr \cup {pidClient}, IF pidClient = NoClient THEN "clear" ELSE "fork")
RecordOldOnly ==
  RecordIn(IF New THEN clientPidsArr ELSE clientPidsArr \cup {pidClient},
           IF New THEN "fork" ELSE "clear")

\* The pid goes into the slot.
Record == RecordIn(clientPidsArr \cup {pidClient}, IF New THEN "fork" ELSE "clear")

Fork ==
  /\ mpc = "fork"
  /\ \/ spc' = [spc EXCEPT ![pidClient] = "mkfifo"] /\ UNCHANGED dropped
     \/ "fork" \in MayFail /\ dropped' = dropped \cup {pidClient} /\ UNCHANGED spc
  /\ mpc' = "clear"
  /\ UNCHANGED <<fifo, globalIntRequestSignal, pidClient, pidClientOld, intStatus,
                 clientPidsArr, signalVars, restarts, cpc>>

\* A SIGUSR1 since the flag was tested is forgotten.
Clear ==
  /\ mpc = "clear"
  /\ globalIntRequestSignal' = FALSE
  /\ mpc' = "loop"
  /\ UNCHANGED <<fifo, pidClient, pidClientOld, intStatus, clientPidsArr,
                 signalVars, restarts, dropped, spc, cpc>>

\* A handler has run: a read that waits and open return ERROR, or go on, or
\* were not yet begun.  A server that cannot open the FIFO leaves it behind.
Interrupt ==
  \/ UNCHANGED <<mpc, intStatus>>
  \/ ~restarts /\ mpc = "read" /\ fifo = <<>> /\ mpc' = "got" /\ intStatus' = FALSE
  \/ ~restarts /\ mpc = "open" /\ mpc' = "failed" /\ UNCHANGED intStatus

-----------------------------------------------------------------------------
(***************************************************************************)
(* The child server of client c.                                           *)
(***************************************************************************)

MakeFifo(c) ==
  /\ spc[c] = "mkfifo"
  /\ \/ spc' = [spc EXCEPT ![c] = "open"]
     \/ "mkfifo" \in MayFail /\ spc' = [spc EXCEPT ![c] = "failed"]
  /\ UNCHANGED <<serverVars, signalVars, restarts, dropped, cpc>>

\* open returns in the child server and in its client.
Meet(c) ==
  /\ spc[c] = "open" /\ cpc[c] = "spin"
  /\ spc' = [spc EXCEPT ![c] = "write"]
  /\ cpc' = [cpc EXCEPT ![c] = "receive"]
  /\ UNCHANGED <<serverVars, signalVars, restarts, dropped>>

\* The child servers of group have run the handler inherited from the server:
\* an open that waits for its client fails, or goes on, or was not yet begun.
InterruptOpens(group) ==
  \E cut \in SUBSET {c \in group : ~restarts /\ spc[c] = "open"} :
    spc' = [c \in Clients |-> IF c \in cut THEN "failed" ELSE spc[c]]

\* All of the matrix fits into the FIFO.
Send(c) ==
  /\ spc[c] = "write"
  /\ spc' = [spc EXCEPT ![c] = "exited"]
  /\ UNCHANGED <<serverVars, signalVars, restarts, dropped, cpc>>

-----------------------------------------------------------------------------
(***************************************************************************)
(* Client c.                                                               *)
(***************************************************************************)

\* open of the main FIFO waits for the server's open; it fails when the
\* server has unlinked the FIFO.
Open(c) ==
  /\ cpc[c] = "start" /\ mpc # "failed"
  /\ cpc' = [cpc EXCEPT ![c] = IF ServerUp THEN "write" ELSE "gone"]
  /\ mpc' = IF mpc = "open" THEN "loop" ELSE mpc
  /\ UNCHANGED <<fifo, globalIntRequestSignal, pidClient, pidClientOld, intStatus,
                 clientPidsArr, signalVars, restarts, dropped, spc>>

\* A write that nobody can read kills the client; a child server keeps the
\* read end it has inherited, and never reads.
WritePid(c) ==
  /\ cpc[c] = "write"
  /\ IF HasReader
     THEN fifo' = Append(fifo, c) /\ cpc' = [cpc EXCEPT ![c] = "spin"]
     ELSE cpc' = [cpc EXCEPT ![c] = "gone"] /\ UNCHANGED fifo
  /\ UNCHANGED <<mpc, globalIntRequestSignal, pidClient, pidClientOld, intStatus,
                 clientPidsArr, signalVars, restarts, dropped, spc>>

Receive(c) ==
  /\ cpc[c] = "receive" /\ spc[c] = "exited"
  /\ cpc' = [cpc EXCEPT ![c] = "loop"]
  /\ UNCHANGED <<serverVars, signalVars, restarts, dropped, spc>>

\* Fault: the client asks by its pid.
RequestByPid(c) ==
  /\ cpc[c] = "loop" /\ ~exitFlag[c] /\ ServerUp
  /\ fifo' = Append(fifo, c)
  /\ UNCHANGED <<mpc, globalIntRequestSignal, pidClient, pidClientOld, intStatus,
                 clientPidsArr, signalVars, restarts, dropped, spc, cpc>>

\* One turn of the loop, which ends with SIGUSR1: the child server has gone,
\* so that the reads return nothing and the matrix stays what it was.
Request(c) ==
  /\ cpc[c] = "loop" /\ ~exitFlag[c] /\ ServerUp
  /\ globalIntRequestSignal' = TRUE
  /\ Interrupt
  /\ UNCHANGED <<fifo, pidClient, pidClientOld, clientPidsArr,
                 signalVars, restarts, dropped, spc, cpc>>

Leave(c) ==
  /\ cpc[c] = "loop" /\ exitFlag[c]
  /\ cpc' = [cpc EXCEPT ![c] = "gone"]
  /\ UNCHANGED <<serverVars, signalVars, restarts, dropped, spc>>

\* The computation follows the NULL that inverseOfMatrix has returned.
Crash(c) ==
  /\ cpc[c] = "loop" /\ "compute" \in MayFail
  /\ cpc' = [cpc EXCEPT ![c] = "gone"]
  /\ UNCHANGED <<serverVars, signalVars, restarts, dropped, spc>>

-----------------------------------------------------------------------------
(***************************************************************************)
(* Signals.  Each is handled at once; other flags than SA_RESTART in       *)
(* sa_flags, and SIGINT sent to one child server by its pid, are left out. *)
(***************************************************************************)

Signal == signals < MaxSignals /\ signals' = signals + 1

\* The pids that SIGINT makes the server signal: 0 is its process group.
Told == clientPidsArr \cup IF mpc = "record" THEN {NoClient} ELSE {}

\* The server handles SIGINT: SIGTERM to all in told.  The child servers of
\* group get a signal as well; what they tell, the server has told.
HandleInt(told, group) ==
  /\ globalIntExitFlag' = TRUE
  /\ interrupted' = TRUE
  /\ exitFlag' = [c \in Clients |-> exitFlag[c] \/ c \in told]
  /\ Interrupt
  /\ InterruptOpens(group)
  /\ UNCHANGED <<fifo, globalIntRequestSignal, pidClient, pidClientOld, clientPidsArr,
                 restarts, dropped>>

\* Fault: the clients are not told.
ServerIntAlone == ServerUp /\ Signal /\ HandleInt({}, Clients) /\ UNCHANGED cpc

\* ^C in the server's terminal.
ServerInt == ServerUp /\ Signal /\ HandleInt(Told, Clients) /\ UNCHANGED cpc

ServerTerm ==
  /\ ServerUp /\ Signal
  /\ globalIntExitFlag' = TRUE
  /\ Interrupt
  /\ UNCHANGED <<fifo, globalIntRequestSignal, pidClient, pidClientOld, clientPidsArr,
                 interrupted, exitFlag, restarts, dropped, spc, cpc>>

ChildTerm(c) ==
  /\ spc[c] = "open" /\ Signal
  /\ InterruptOpens({c})
  /\ UNCHANGED <<serverVars, globalIntExitFlag, interrupted, exitFlag, restarts, dropped, cpc>>

\* A client that has its matrix passes SIGINT on to the server alone.
ClientInt(c) ==
  /\ cpc[c] = "loop" /\ Signal
  /\ IF ServerUp
     THEN HandleInt(Told \cup {c}, IF NoClient \in Told THEN Clients ELSE {})
     ELSE /\ exitFlag' = [exitFlag EXCEPT ![c] = TRUE]
          /\ UNCHANGED <<serverVars, globalIntExitFlag, interrupted, restarts, dropped, spc>>
  /\ UNCHANGED cpc

\* Before, kill(0, SIGINT) sends it the signal it is handling, for ever.
ClientIntEarly(c) ==
  /\ cpc[c] \in {"write", "spin", "receive"} /\ Signal
  /\ cpc' = [cpc EXCEPT ![c] = "stuck"]
  /\ UNCHANGED <<serverVars, globalIntExitFlag, interrupted, exitFlag, restarts, dropped, spc>>

ClientTerm(c) ==
  /\ cpc[c] \notin {"start", "gone"} /\ Signal
  /\ exitFlag' = [exitFlag EXCEPT ![c] = TRUE]
  /\ UNCHANGED <<serverVars, globalIntExitFlag, interrupted, restarts, dropped, spc, cpc>>

-----------------------------------------------------------------------------

ServerStep == Loop \/ ReadPid \/ ReadNothing \/ Drop \/ Count \/ Record \/ Fork \/ Clear
ChildStep(c) == MakeFifo(c) \/ Meet(c) \/ Send(c)
ClientStep(c) == WritePid(c) \/ Receive(c) \/ Leave(c)
Users ==
  \/ ServerInt \/ ServerTerm
  \/ \E c \in Clients : ChildTerm(c) \/ ClientInt(c) \/ ClientIntEarly(c) \/ ClientTerm(c)

Next ==
  \/ ServerStep \/ Users
  \/ \E c \in Clients : Open(c) \/ ChildStep(c) \/ ClientStep(c) \/ Request(c) \/ Crash(c)

Spec == Init /\ [][Next]_vars

\* The operating system schedules every process that can go on; users need
\* not start a client or send a signal, and no computation need fail.
FairSpec ==
  /\ Spec
  /\ WF_vars(ServerStep)
  /\ \A c \in Clients : WF_vars(ChildStep(c)) /\ WF_vars(ClientStep(c))

-----------------------------------------------------------------------------
(***************************************************************************)
(* Properties.                                                             *)
(***************************************************************************)

\* The server knows every client it has forked a child server for, so that
\* SIGINT can stop it.
ServedAreKnown == \A c \in Clients : spc[c] # "absent" => c \in clientPidsArr

\* However often clients ask again and reads are interrupted, a child server
\* is forked once per client: a second one would find its FIFO made.
ForkedOnce ==
  [][\A c \in Clients : spc'[c] = "mkfifo" /\ spc[c] # "mkfifo" => spc[c] = "absent"]_vars

\* A client that has written its pid gets its matrix, however often others
\* ask again and signals interrupt, unless the server has thrown its pid away
\* or could not fork, the child server's mkfifo failed or a signal ended its
\* open, or the server has ended without forking for it.
MatrixArrives ==
  \A c \in Clients :
    cpc[c] = "spin" ~> \/ cpc[c] # "spin" \/ c \in dropped \/ spc[c] = "failed"
                       \/ ~ServerUp /\ spc[c] = "absent"

\* After SIGINT the server ends, unless a client holds the main FIFO open
\* for ever because its pid was dropped or it handles signals for ever, or
\* no client has come yet.
ShutsDown ==
  interrupted ~> ~ServerUp \/ [](mpc = "open")
                           \/ [](\E c \in Clients : cpc[c] \in {"spin", "stuck"})
=============================================================================
