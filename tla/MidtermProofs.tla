---------------------------- MODULE MidtermProofs ----------------------------
(***************************************************************************)
(* Theorems about the two programs of Midterm: TimeServer, for any number  *)
(* of clients, failures and signals, and the matrix functions and the      *)
(* client of SeeWhat, for any matrices of whole numbers and even size.     *)
(***************************************************************************)
EXTENDS TimeServer, SeeWhat, FunctionTheorems, FiniteSetTheorems,
        WellFoundedInduction, TLAPS

(***************************************************************************)
(* The invariant.  A pid is written once, before anyone can have served    *)
(* its client, and is in one place at a time: in the FIFO, then in         *)
(* pidClient.  What is left in pidClient from earlier reads is not New.    *)
(***************************************************************************)

\* The pid of c has been written and no child server forked.
Unserved(c) == c \in Clients /\ cpc[c] \notin {"start", "write"} /\ spc[c] = "absent"

\* The server is about to fork a child server for pidClient.
Forking == mpc = "fork" \/ (mpc \in {"got", "record"} /\ New)

FifoUnserved == \A i \in 1 .. Len(fifo) : Unserved(fifo[i])

FifoDistinct == \A i, j \in 1 .. Len(fifo) : fifo[i] = fifo[j] => i = j

SilentUnserved == \A c \in Clients : cpc[c] \in {"start", "write"} => spc[c] = "absent"

ForkingUnserved ==
  Forking => Unserved(pidClient) /\ \A i \in 1 .. Len(fifo) : fifo[i] # pidClient

ForkingKnown == mpc = "fork" => pidClient \in clientPidsArr

PidInv ==
  /\ FifoUnserved /\ FifoDistinct /\ SilentUnserved
  /\ ForkingUnserved /\ ForkingKnown /\ ServedAreKnown

IInv == TypeOK /\ PidInv

\* Pids that are different are not more than there are clients.
LEMMA DistinctBounded ==
  ASSUME NEW s \in Seq(Clients),
         \A i, j \in 1 .. Len(s) : s[i] = s[j] => i = j
  PROVE  Len(s) <= Cardinality(Clients)
<1> DEFINE n == Len(s)
<1>1. n \in Nat /\ s \in [1 .. n -> Clients]
  OBVIOUS
<1>2. s \in Injection(1 .. n, Clients)
  BY <1>1 DEF Injection, IsInjective
<1>3. Cardinality(1 .. n) = n
  BY <1>1, FS_Interval
<1> QED
  BY <1>2, <1>3, TimeServerAssumption, FS_Injection

\* The server starts with nothing in the FIFO and nobody served.
LEMMA InvInit == Init => IInv
<1> SUFFICES ASSUME Init PROVE IInv
  OBVIOUS
<1>1. fifo \in Seq(Clients) /\ Len(fifo) = 0
  BY DEF Init
<1>2. PidInv
  BY <1>1 DEF Init, PidInv, FifoUnserved, FifoDistinct, SilentUnserved, ForkingUnserved,
              Forking, ForkingKnown, ServedAreKnown
<1>3. Len(fifo) <= Cardinality(Clients)
  BY <1>1, <1>2, DistinctBounded DEF PidInv, FifoDistinct
<1>4. 0 \in 0 .. MaxSignals
  BY TimeServerAssumption
<1>5. TypeOK
  BY <1>1, <1>3, <1>4 DEF Init, TypeOK
<1> QED
  BY <1>2, <1>5 DEF IInv

(***************************************************************************)
(* Steps.                                                                  *)
(***************************************************************************)

\* What most steps do: no pid moves, nobody is served, no client goes back
\* to its beginning and the server does not begin to fork.
LEMMA QuietStep ==
  ASSUME PidInv, UNCHANGED <<fifo, clientPidsArr>>,
         \A c \in Clients : spc'[c] = "absent" <=> spc[c] = "absent",
         \A c \in Clients : cpc'[c] \in {"start", "write"} => cpc[c] \in {"start", "write"},
         Forking' => Forking /\ pidClient' = pidClient,
         mpc' = "fork" => mpc = "fork"
  PROVE  PidInv'
<1>1. ASSUME NEW c, Unserved(c) PROVE Unserved(c)'
  BY <1>1 DEF Unserved
<1>2. FifoUnserved' /\ FifoDistinct'
  BY <1>1 DEF PidInv, FifoUnserved, FifoDistinct
<1>3. SilentUnserved' /\ ServedAreKnown'
  BY DEF PidInv, SilentUnserved, ServedAreKnown
<1>4. ForkingUnserved'
  BY <1>1 DEF PidInv, ForkingUnserved
<1>5. ForkingKnown'
  BY DEF PidInv, ForkingKnown, Forking
<1> QED
  BY <1>2, <1>3, <1>4, <1>5 DEF PidInv

\* The first pid leaves the FIFO: its client is not served, and no other
\* entry is the same.
LEMMA ReadPidStep == IInv /\ ReadPid => IInv'
<1> SUFFICES ASSUME IInv, ReadPid PROVE IInv'
  OBVIOUS
<1> DEFINE n == Len(fifo)
<1>1. /\ fifo \in Seq(Clients) /\ n \in Nat \ {0} /\ fifo[1] \in Clients
      /\ fifo' = Tail(fifo) /\ fifo' \in Seq(Clients) /\ Len(fifo') = n - 1
      /\ \A i \in 1 .. Len(fifo') : fifo'[i] = fifo[i + 1]
      /\ pidClient' = fifo[1]
  BY DEF IInv, TypeOK, ReadPid
<1>2. /\ mpc' = "got" /\ intStatus' = TRUE
      /\ UNCHANGED <<spc, cpc, clientPidsArr, pidClientOld, dropped>>
  BY DEF ReadPid
<1>3. \A c : Unserved(c)' <=> Unserved(c)
  BY <1>2 DEF Unserved
<1>4. FifoUnserved' /\ FifoDistinct'
  BY <1>1, <1>3 DEF IInv, PidInv, FifoUnserved, FifoDistinct
<1>5. ForkingUnserved'
  BY <1>1, <1>3 DEF IInv, PidInv, FifoUnserved, FifoDistinct, ForkingUnserved
<1>6. SilentUnserved' /\ ServedAreKnown' /\ ForkingKnown'
  BY <1>2 DEF IInv, PidInv, SilentUnserved, ServedAreKnown, ForkingKnown
<1>7. Len(fifo') <= Cardinality(Clients)
  BY <1>1, <1>4, DistinctBounded DEF FifoDistinct
<1>8. TypeOK'
  BY <1>1, <1>2, <1>7 DEF IInv, TypeOK, ReadPid, signalVars
<1> QED
  BY <1>4, <1>5, <1>6, <1>8 DEF IInv, PidInv

\* Recording a pid forgets none, and only a new one is forked for.
LEMMA RecordStep == IInv /\ Record => IInv'
<1> SUFFICES ASSUME IInv, Record PROVE IInv'
  OBVIOUS
<1>1. /\ mpc = "record" /\ mpc' = IF New THEN "fork" ELSE "clear"
      /\ clientPidsArr' = clientPidsArr \cup {pidClient}
      /\ UNCHANGED <<fifo, pidClient, pidClientOld, intStatus, spc, cpc>>
  BY DEF Record, RecordIn
<1>2. Forking' => Forking
  BY <1>1 DEF Forking, New
<1>3. \A c : Unserved(c)' <=> Unserved(c)
  BY <1>1 DEF Unserved
<1>4. FifoUnserved' /\ FifoDistinct' /\ SilentUnserved' /\ ServedAreKnown'
  BY <1>1, <1>3
  DEF IInv, PidInv, FifoUnserved, FifoDistinct, SilentUnserved, ServedAreKnown
<1>5. ForkingUnserved' /\ ForkingKnown'
  BY <1>1, <1>2, <1>3 DEF IInv, PidInv, ForkingUnserved, ForkingKnown
<1>6. TypeOK'
  BY <1>1 DEF IInv, TypeOK, Record, RecordIn, signalVars
<1> QED
  BY <1>4, <1>5, <1>6 DEF IInv, PidInv

\* The client that is served has a recorded pid, which is nowhere else.
LEMMA ForkStep == IInv /\ Fork => IInv'
<1> SUFFICES ASSUME IInv, Fork PROVE IInv'
  OBVIOUS
<1>1. /\ mpc = "fork" /\ mpc' = "clear"
      /\ UNCHANGED <<fifo, cpc, clientPidsArr>>
      /\ spc' = [spc EXCEPT ![pidClient] = "mkfifo"] \/ UNCHANGED spc
  BY DEF Fork
<1>2. /\ Unserved(pidClient) /\ pidClient \in clientPidsArr
      /\ \A i \in 1 .. Len(fifo) : fifo[i] # pidClient
  BY <1>1 DEF IInv, PidInv, ForkingUnserved, ForkingKnown, Forking
<1>3. \A c \in Clients : c # pidClient => spc'[c] = spc[c]
  BY <1>1 DEF IInv, TypeOK
<1>4. FifoUnserved'
  BY <1>1, <1>2, <1>3 DEF IInv, PidInv, FifoUnserved, Unserved
<1>5. SilentUnserved' /\ ServedAreKnown'
  BY <1>1, <1>2, <1>3 DEF IInv, PidInv, SilentUnserved, ServedAreKnown, Unserved
<1>6. FifoDistinct' /\ ForkingUnserved' /\ ForkingKnown'
  BY <1>1 DEF IInv, PidInv, FifoDistinct, ForkingUnserved, ForkingKnown, Forking
<1>7. TypeOK'
  <2>1. pidClient \in Clients
    BY <1>2 DEF Unserved
  <2>2. dropped' \subseteq Clients
    BY <2>1 DEF IInv, TypeOK, Fork
  <2> QED
    BY <1>1, <2>2 DEF IInv, TypeOK, Fork, signalVars
<1> QED
  BY <1>4, <1>5, <1>6, <1>7 DEF IInv, PidInv

\* A client that writes its pid has not written it before.
LEMMA WritePidStep == ASSUME NEW c \in Clients, IInv, WritePid(c) PROVE IInv'
<1>1. /\ cpc[c] = "write" /\ UNCHANGED <<mpc, pidClient, pidClientOld, intStatus,
                                         clientPidsArr, spc>>
      /\ \/ fifo' = Append(fifo, c) /\ cpc' = [cpc EXCEPT ![c] = "spin"]
         \/ UNCHANGED fifo /\ cpc' = [cpc EXCEPT ![c] = "gone"]
  BY DEF WritePid
<1>2. /\ cpc \in [Clients -> {"start", "write", "spin", "receive", "loop", "stuck", "gone"}]
      /\ fifo \in Seq(Clients)
  BY DEF IInv, TypeOK
<1>3. spc[c] = "absent" /\ ~Unserved(c) /\ Unserved(c)'
  BY <1>1, <1>2 DEF IInv, PidInv, SilentUnserved, Unserved
<1>4. \A e : Unserved(e) => Unserved(e)' /\ e # c
  BY <1>1, <1>2, <1>3 DEF Unserved
<1>5. ASSUME fifo' = Append(fifo, c) PROVE FifoUnserved' /\ FifoDistinct' /\ ForkingUnserved'
  <2>1. /\ Len(fifo') = Len(fifo) + 1 /\ fifo'[Len(fifo')] = c
        /\ \A i \in 1 .. Len(fifo) : fifo'[i] = fifo[i]
        /\ Len(fifo) \in Nat
    BY <1>2, <1>5
  <2>2. \A i \in 1 .. Len(fifo) : Unserved(fifo[i])
    BY DEF IInv, PidInv, FifoUnserved
  <2>3. FifoUnserved'
    BY <1>3, <1>4, <2>1, <2>2 DEF FifoUnserved
  <2>4. FifoDistinct'
    BY <1>4, <2>1, <2>2 DEF IInv, PidInv, FifoDistinct
  <2>5. Forking => Unserved(pidClient) /\ \A i \in 1 .. Len(fifo) : fifo[i] # pidClient
    BY DEF IInv, PidInv, ForkingUnserved
  <2>6. Forking' <=> Forking
    BY <1>1 DEF Forking, New
  <2>7. ForkingUnserved'
    BY <1>1, <1>4, <2>1, <2>5, <2>6 DEF ForkingUnserved
  <2> QED
    BY <2>3, <2>4, <2>7
<1>6. ASSUME UNCHANGED fifo PROVE FifoUnserved' /\ FifoDistinct' /\ ForkingUnserved'
  BY <1>1, <1>4, <1>6
  DEF IInv, PidInv, FifoUnserved, FifoDistinct, ForkingUnserved, Forking, New
<1>7. FifoUnserved' /\ FifoDistinct' /\ ForkingUnserved'
  BY <1>1, <1>5, <1>6
<1>8. SilentUnserved' /\ ServedAreKnown' /\ ForkingKnown'
  BY <1>1, <1>2 DEF IInv, PidInv, SilentUnserved, ServedAreKnown, ForkingKnown
<1>9. fifo' \in Seq(Clients)
  BY <1>1, <1>2
<1>10. Len(fifo') <= Cardinality(Clients)
  BY <1>7, <1>9, DistinctBounded DEF FifoDistinct
<1>11. cpc' \in [Clients -> {"start", "write", "spin", "receive", "loop", "stuck", "gone"}]
  BY <1>1, <1>2
<1>12. TypeOK'
  BY <1>9, <1>10, <1>11 DEF IInv, TypeOK, WritePid, signalVars
<1> QED
  BY <1>7, <1>8, <1>12 DEF IInv, PidInv

\* A signal moves no pid: an interrupted read leaves nothing New.
LEMMA InterruptQuiet ==
  ASSUME Interrupt, UNCHANGED <<pidClient, pidClientOld>>
  PROVE  /\ Forking' => Forking
         /\ mpc' = "fork" => mpc = "fork"
BY DEF Interrupt, Forking, New

\* A signal to child servers changes none that does not exist, and begins none.
LEMMA OpensQuiet ==
  ASSUME TypeOK, NEW group, InterruptOpens(group)
  PROVE  /\ spc' \in [Clients -> {"absent", "mkfifo", "open", "write", "exited", "failed"}]
         /\ \A c \in Clients : spc'[c] = "absent" <=> spc[c] = "absent"
         /\ \A c \in Clients : spc'[c] = "mkfifo" => spc[c] = "mkfifo"
<1>1. PICK cut \in SUBSET {c \in group : ~restarts /\ spc[c] = "open"} :
        spc' = [c \in Clients |-> IF c \in cut THEN "failed" ELSE spc[c]]
  BY DEF InterruptOpens
<1>2. \A c \in cut : spc[c] = "open"
  OBVIOUS
<1> QED
  BY <1>1, <1>2 DEF TypeOK

\* An interrupt keeps the types of what it changes.
LEMMA InterruptTypes ==
  ASSUME TypeOK, Interrupt
  PROVE  /\ mpc' \in {"open", "loop", "read", "got", "record", "fork", "clear", "exited", "failed"}
         /\ intStatus' \in BOOLEAN
BY DEF TypeOK, Interrupt

\* A signal is counted up to the bound.
LEMMA SignalTypes == ASSUME TypeOK, Signal PROVE signals' \in 0 .. MaxSignals
BY TimeServerAssumption DEF TypeOK, Signal

\* Every step keeps the invariant.
LEMMA InvStep == IInv /\ [Next]_vars => IInv'
<1> SUFFICES ASSUME IInv, [Next]_vars PROVE IInv'
  OBVIOUS
<1> USE DEF IInv, serverVars, signalVars
<1>1. CASE Loop
  <2>1. TypeOK'
    BY <1>1 DEF TypeOK, Loop
  <2>2. PidInv'
    BY <1>1, QuietStep DEF Loop, Forking
  <2> QED
    BY <2>1, <2>2
<1>2. CASE ReadPid
  BY <1>2, ReadPidStep
<1>3. CASE ReadNothing
  <2>1. TypeOK'
    BY <1>3 DEF TypeOK, ReadNothing
  <2>2. PidInv'
    BY <1>3, QuietStep DEF ReadNothing, Forking, New
  <2> QED
    BY <2>1, <2>2
<1>4. CASE Drop
  <2>1. New => pidClient \in Clients
    BY <1>4 DEF PidInv, ForkingUnserved, Forking, Drop, Unserved
  <2>2. dropped' \subseteq Clients
    BY <1>4, <2>1 DEF TypeOK, Drop
  <2>3. TypeOK'
    BY <1>4, <2>2 DEF TypeOK, Drop
  <2>4. PidInv'
    BY <1>4, QuietStep DEF Drop, Forking
  <2> QED
    BY <2>3, <2>4
<1>5. CASE Record
  BY <1>5, RecordStep
<1>6. CASE Fork
  BY <1>6, ForkStep
<1>7. CASE Clear
  <2>1. TypeOK'
    BY <1>7 DEF TypeOK, Clear
  <2>2. PidInv'
    BY <1>7, QuietStep DEF Clear, Forking
  <2> QED
    BY <2>1, <2>2
<1>8. ASSUME NEW told, NEW group, HandleInt(told, group), Signal, UNCHANGED cpc PROVE IInv'
  <2>1. InterruptOpens(group)
    BY <1>8 DEF HandleInt
  <2>2. TypeOK'
    BY <1>8, <2>1, InterruptTypes, OpensQuiet, SignalTypes DEF TypeOK, HandleInt
  <2>3. \A c \in Clients : spc'[c] = "absent" <=> spc[c] = "absent"
    BY <2>1, OpensQuiet
  <2>4. PidInv'
    BY <1>8, <2>3, QuietStep, InterruptQuiet DEF HandleInt
  <2> QED
    BY <2>2, <2>4
<1>9. CASE ServerInt
  BY <1>8, <1>9 DEF ServerInt
<1>10. CASE ServerTerm
  <2>1. TypeOK'
    BY <1>10, InterruptTypes, SignalTypes DEF TypeOK, ServerTerm
  <2>2. PidInv'
    BY <1>10, QuietStep, InterruptQuiet DEF ServerTerm
  <2> QED
    BY <2>1, <2>2
<1>20. CASE Count
  <2>1. TypeOK'
    BY <1>20 DEF TypeOK, Count
  <2>2. PidInv'
    BY <1>20, QuietStep DEF Count, Forking, New
  <2> QED
    BY <2>1, <2>2
<1>21. ASSUME NEW c \in Clients, ChildTerm(c) PROVE IInv'
  <2>1. InterruptOpens({c})
    BY <1>21 DEF ChildTerm
  <2>2. TypeOK'
    BY <1>21, <2>1, OpensQuiet, SignalTypes DEF TypeOK, ChildTerm
  <2>3. \A e \in Clients : spc'[e] = "absent" <=> spc[e] = "absent"
    BY <2>1, OpensQuiet
  <2>4. PidInv'
    BY <1>21, <2>3, QuietStep DEF ChildTerm, Forking, New
  <2> QED
    BY <2>2, <2>4
<1>11. ASSUME NEW c \in Clients, ClientInt(c) PROVE IInv'
  <2>1. CASE ServerUp
    BY <1>8, <1>11, <2>1 DEF ClientInt
  <2>2. CASE ~ServerUp
    <3>1. TypeOK'
      BY <1>11, <2>2, SignalTypes DEF TypeOK, ClientInt
    <3>2. PidInv'
      BY <1>11, <2>2, QuietStep DEF ClientInt, Forking, New
    <3> QED
      BY <3>1, <3>2
  <2> QED
    BY <2>1, <2>2
<1>12. ASSUME NEW c \in Clients, ClientIntEarly(c) PROVE IInv'
  <2>1. TypeOK'
    BY <1>12, SignalTypes DEF TypeOK, ClientIntEarly
  <2>2. PidInv'
    BY <1>12, QuietStep DEF TypeOK, ClientIntEarly, Forking, New
  <2> QED
    BY <2>1, <2>2
<1>13. ASSUME NEW c \in Clients, ClientTerm(c) PROVE IInv'
  <2>1. TypeOK'
    BY <1>13, SignalTypes DEF TypeOK, ClientTerm
  <2>2. PidInv'
    BY <1>13, QuietStep DEF ClientTerm, Forking, New
  <2> QED
    BY <2>1, <2>2
<1>14. ASSUME NEW c \in Clients, Open(c) PROVE IInv'
  <2>1. TypeOK'
    BY <1>14 DEF TypeOK, Open
  <2>2. PidInv'
    BY <1>14, QuietStep DEF TypeOK, Open, Forking, New
  <2> QED
    BY <2>1, <2>2
<1>15. ASSUME NEW c \in Clients, ChildStep(c) PROVE IInv'
  <2>1. TypeOK'
    BY <1>15 DEF TypeOK, ChildStep, MakeFifo, Meet, Send
  <2>2. PidInv'
    BY <1>15, QuietStep DEF TypeOK, ChildStep, MakeFifo, Meet, Send, Forking, New
  <2> QED
    BY <2>1, <2>2
<1>16. ASSUME NEW c \in Clients, ClientStep(c) PROVE IInv'
  <2>1. CASE WritePid(c)
    BY <2>1, WritePidStep
  <2>2. CASE Receive(c) \/ Leave(c)
    <3>1. TypeOK'
      BY <2>2 DEF TypeOK, Receive, Leave
    <3>2. PidInv'
      BY <2>2, QuietStep DEF TypeOK, Receive, Leave, Forking, New
    <3> QED
      BY <3>1, <3>2
  <2> QED
    BY <1>16, <2>1, <2>2 DEF ClientStep
<1>17. ASSUME NEW c \in Clients, Request(c) PROVE IInv'
  <2>1. TypeOK'
    BY <1>17, InterruptTypes DEF TypeOK, Request
  <2>2. PidInv'
    BY <1>17, QuietStep, InterruptQuiet DEF Request
  <2> QED
    BY <2>1, <2>2
<1>18. ASSUME NEW c \in Clients, Crash(c) PROVE IInv'
  <2>1. TypeOK'
    BY <1>18 DEF TypeOK, Crash
  <2>2. PidInv'
    BY <1>18, QuietStep DEF TypeOK, Crash, Forking, New
  <2> QED
    BY <2>1, <2>2
<1>19. CASE UNCHANGED vars
  <2>1. TypeOK'
    BY <1>19 DEF TypeOK, vars
  <2>2. PidInv'
    BY <1>19, QuietStep DEF vars, Forking, New
  <2> QED
    BY <2>1, <2>2
<1> QED
  BY <1>1, <1>2, <1>3, <1>4, <1>5, <1>6, <1>7, <1>9, <1>10, <1>11, <1>12, <1>13,
     <1>14, <1>15, <1>16, <1>17, <1>18, <1>19, <1>20, <1>21
  DEF Next, ServerStep, Users

\* The invariant holds in every reachable state.
LEMMA Invariant == Spec => []IInv
BY InvInit, InvStep, PTL DEF Spec

(***************************************************************************)
(* Theorems.                                                               *)
(***************************************************************************)

\* Every variable has its type, and the main FIFO never holds more
\* pids than there are clients.
THEOREM TypeCorrect == Spec => []TypeOK
<1>1. IInv => TypeOK
  BY DEF IInv
<1> QED
  BY <1>1, Invariant, PTL

\* Every client that the server has forked a child server for is among those
\* it sends SIGTERM to after SIGINT.
THEOREM ServedClientsAreKnown == Spec => []ServedAreKnown
<1>1. IInv => ServedAreKnown
  BY DEF IInv, PidInv
<1> QED
  BY <1>1, Invariant, PTL

\* No client gets a second child server, whatever is read again from
\* pidClient after dropped, repeated and interrupted requests.
THEOREM NobodyForkedTwice == Spec => ForkedOnce
<1> DEFINE Once == \A c \in Clients : spc'[c] = "mkfifo" /\ spc[c] # "mkfifo" => spc[c] = "absent"
<1>1. IInv /\ [Next]_vars => [Once]_vars
  <2> SUFFICES ASSUME IInv, Next, NEW c \in Clients, spc'[c] = "mkfifo", spc[c] # "mkfifo"
               PROVE  spc[c] = "absent"
    OBVIOUS
  <2>1. spc \in [Clients -> {"absent", "mkfifo", "open", "write", "exited", "failed"}]
    BY DEF IInv, TypeOK
  <2>2. CASE Fork
    <3>1. Unserved(pidClient)
      BY <2>2 DEF IInv, PidInv, ForkingUnserved, Forking, Fork
    <3>2. pidClient = c
      BY <2>1, <2>2, <3>1 DEF Fork, Unserved
    <3> QED
      BY <3>1, <3>2 DEF Unserved
  <2>3. ASSUME NEW e \in Clients, ChildStep(e) PROVE FALSE
    BY <2>1, <2>3 DEF ChildStep, MakeFifo, Meet, Send
  <2>4. CASE UNCHANGED spc
    BY <2>4
  <2>5. Loop \/ ReadPid \/ ReadNothing \/ Drop \/ Count \/ Record \/ Clear => UNCHANGED spc
    BY DEF Loop, ReadPid, ReadNothing, Drop, Count, Record, RecordIn, Clear
  <2>6. CASE Users
    <3>1. UNCHANGED spc \/ \E group : InterruptOpens(group)
      BY <2>6 DEF Users, ServerInt, ServerTerm, ChildTerm, ClientInt, ClientIntEarly,
                  ClientTerm, HandleInt
    <3> QED
      BY <3>1, OpensQuiet DEF IInv
  <2>7. ASSUME NEW e \in Clients, Open(e) \/ ClientStep(e) \/ Request(e) \/ Crash(e)
        PROVE  UNCHANGED spc
    BY <2>7 DEF Open, ClientStep, WritePid, Receive, Leave, Request, Crash
  <2> QED
    BY <2>2, <2>3, <2>4, <2>5, <2>6, <2>7 DEF Next, ServerStep
<1> QED
  BY <1>1, Invariant, PTL DEF Spec, ForkedOnce

\* When the server handles its first SIGINT, every client that a child server
\* has been forked for is told to end, whatever the server was doing.
THEOREM ServedClientsAreTold ==
  Spec => [][~interrupted /\ interrupted' =>
               \A c \in Clients : spc[c] # "absent" => exitFlag'[c]]_vars
<1> DEFINE AllTold == ~interrupted /\ interrupted' =>
                        \A c \in Clients : spc[c] # "absent" => exitFlag'[c]
<1>1. IInv /\ [Next]_vars => [AllTold]_vars
  <2> SUFFICES ASSUME IInv, Next, ~interrupted, interrupted',
                      NEW c \in Clients, spc[c] # "absent"
               PROVE  exitFlag'[c]
    OBVIOUS
  <2>1. c \in clientPidsArr
    BY DEF IInv, PidInv, ServedAreKnown
  <2>2. CASE ServerInt
    BY <2>1, <2>2 DEF ServerInt, HandleInt, Told
  <2>3. ASSUME NEW e \in Clients, ClientInt(e) PROVE exitFlag'[c]
    BY <2>1, <2>3 DEF ClientInt, HandleInt, Told
  <2>4. ASSUME UNCHANGED interrupted PROVE FALSE
    BY <2>4
  <2>5. ServerStep => UNCHANGED interrupted
    BY DEF ServerStep, Loop, ReadPid, ReadNothing, Drop, Count, Record, RecordIn, Fork, Clear,
           signalVars
  <2>6. ASSUME NEW e \in Clients, ChildStep(e) \/ ClientStep(e) PROVE UNCHANGED interrupted
    BY <2>6 DEF ChildStep, MakeFifo, Meet, Send, ClientStep, WritePid, Receive, Leave, signalVars
  <2>7. ASSUME NEW e \in Clients, Open(e) \/ Request(e) \/ Crash(e)
        PROVE  UNCHANGED interrupted
    BY <2>7 DEF Open, Request, Crash, signalVars
  <2>8. ServerTerm => UNCHANGED interrupted
    BY DEF ServerTerm
  <2>9. ASSUME NEW e \in Clients, ChildTerm(e) \/ ClientIntEarly(e) \/ ClientTerm(e)
        PROVE  UNCHANGED interrupted
    BY <2>9 DEF ChildTerm, ClientIntEarly, ClientTerm
  <2> QED
    BY <2>2, <2>3, <2>4, <2>5, <2>6, <2>7, <2>8, <2>9 DEF Next, Users
<1> QED
  BY <1>1, Invariant, PTL DEF Spec

-----------------------------------------------------------------------------

(***************************************************************************)
(* SeeWhat.  The determinant is a loop over the columns, so that facts     *)
(* about it need induction over an interval, and the loop is a definition  *)
(* only once its equations are known to have a solution.                   *)
(***************************************************************************)

\* A set of natural numbers that is not empty has a least element.
LEMMA LeastElement ==
  ASSUME NEW T \in SUBSET Nat, T # {}
  PROVE  \E x \in T : \A y \in T : x <= y
<1> DEFINE R == {ss \in Nat \X Nat : ss[1] < ss[2]}
<1>1. R = OpToRel(<, Nat)
  BY DEF OpToRel
<1>2. IsWellFoundedOn(R, Nat)
  BY <1>1, NatLessThanWellFounded
<1>3. PICK x \in T : \A y \in T : ~(<<y, x>> \in R)
  <2> HIDE DEF R
  <2> QED
    BY <1>2, WFMin
<1>4. \A y \in Nat : y < x => <<y, x>> \in R
  <2> SUFFICES ASSUME NEW y \in Nat, y < x
               PROVE  <<y, x>> \in R
    OBVIOUS
  <2>1. <<y, x>> \in Nat \X Nat
    OBVIOUS
  <2> QED
    BY <2>1
<1>5. \A y \in T : x <= y
  <2> SUFFICES ASSUME NEW y \in T
               PROVE  x <= y
    OBVIOUS
  <2>1. x \in Nat /\ y \in Nat /\ <<y, x>> \notin R
    <3> HIDE DEF R
    <3> QED
      BY <1>3
  <2>2. ~(y < x)
    <3> HIDE DEF R
    <3> QED
      BY <1>4, <2>1
  <2> QED
    BY <2>1, <2>2
<1> QED
  BY <1>5

\* Induction over an interval, for a set.
LEMMA IntervalInduction ==
  ASSUME NEW n \in Nat, NEW T \in SUBSET (0 .. n),
         0 \in T, \A k \in 1 .. n : k - 1 \in T => k \in T
  PROVE  T = 0 .. n
<1> SUFFICES ASSUME (0 .. n) \ T # {}
             PROVE  FALSE
  OBVIOUS
<1>1. PICK x \in (0 .. n) \ T : \A y \in (0 .. n) \ T : x <= y
  <2>1. (0 .. n) \ T \in SUBSET Nat
    OBVIOUS
  <2> QED
    BY <2>1, LeastElement
<1>2. x \in 1 .. n
  OBVIOUS
<1>3. x - 1 \in (0 .. n) \ T
  BY <1>2
<1> QED
  BY <1>1, <1>2, <1>3

\* g has the values of S that n turns of a loop compute, F[k] being turn k.
IsLoop(g, n, S, a, F) ==
  g \in [0 .. n -> S] /\ g[0] = a /\ \A k \in 1 .. n : g[k] = F[k][g[k - 1]]

\* Such a loop is a definition: its equations have a solution.
LEMMA Iteration ==
  ASSUME NEW n \in Nat, NEW S, NEW a \in S, NEW F \in [1 .. n -> [S -> S]]
  PROVE  \E g : IsLoop(g, n, S, a, F)
<1> DEFINE Defined(m) == \E g \in [0 .. m -> S] :
                           g[0] = a /\ \A k \in 1 .. m : g[k] = F[k][g[k - 1]]
           T == {m \in 0 .. n : Defined(m)}
<1>1. 0 \in T
  <2> DEFINE g == [k \in 0 .. 0 |-> a]
  <2>1. g \in [0 .. 0 -> S] /\ g[0] = a /\ \A k \in 1 .. 0 : g[k] = F[k][g[k - 1]]
    OBVIOUS
  <2> HIDE DEF g
  <2>2. Defined(0)
    BY <2>1
  <2> QED
    BY <2>2
<1>2. ASSUME NEW k \in 1 .. n, k - 1 \in T
      PROVE  k \in T
  <2>1. PICK g \in [0 .. k - 1 -> S] : g[0] = a /\ \A l \in 1 .. k - 1 : g[l] = F[l][g[l - 1]]
    BY <1>2
  <2> DEFINE h == [l \in 0 .. k |-> IF l = k THEN F[k][g[k - 1]] ELSE g[l]]
  <2>2. h \in [0 .. k -> S]
    BY <2>1
  <2>3. h[0] = a
    BY <2>1
  <2>4. \A l \in 1 .. k : h[l] = F[l][h[l - 1]]
    BY <2>1
  <2> HIDE DEF h
  <2>5. Defined(k)
    BY <2>2, <2>3, <2>4
  <2> HIDE DEF Defined
  <2> QED
    BY <2>5
<1>3. T = 0 .. n
  <2>1. T \in SUBSET (0 .. n)
    OBVIOUS
  <2> HIDE DEF T
  <2> QED
    BY <1>1, <1>2, <2>1, IntervalInduction
<1>4. n \in T
  BY <1>3
<1> QED
  BY <1>4 DEF IsLoop

(***************************************************************************)
(* Fractions.                                                              *)
(***************************************************************************)

\* A product divided by one of its factors is the other one.
LEMMA DivExact ==
  ASSUME NEW g \in Nat \ {0}, NEW q \in Int
  PROVE  (g * q) \div g = q /\ (g * q) % g = 0
OBVIOUS

\* g is the greatest common divisor that Fraction divides by.
Reduces(g, n, d) ==
  /\ g \in 1 .. AbsOf(d)
  /\ n % g = 0 /\ AbsOf(d) % g = 0
  /\ \A l \in (g + 1) .. AbsOf(d) : n % l # 0 \/ AbsOf(d) % l # 0
  /\ Fraction(n, d) = <<(IF d < 0 THEN -n ELSE n) \div g, AbsOf(d) \div g>>

\* Every numerator and denominator have a greatest common divisor.
LEMMA FractionReduced ==
  ASSUME NEW n \in Int, NEW d \in Int \ {0}
  PROVE  \E g : Reduces(g, n, d)
<1> DEFINE m == AbsOf(d)
           Common(k) == n % k = 0 /\ m % k = 0
           Greatest(k) == Common(k) /\ \A l \in (k + 1) .. m : n % l # 0 \/ m % l # 0
           T == {m - k : k \in {k \in 1 .. m : Common(k)}}
           g == CHOOSE k \in 1 .. m : Greatest(k)
<1>1. m \in Nat \ {0}
  BY DEF AbsOf
<1> HIDE DEF m
<1>2. T \in SUBSET Nat /\ m - 1 \in T
  <2>1. Common(1) /\ 1 \in 1 .. m
    BY <1>1
  <2> QED
    BY <1>1, <2>1
<1>3. PICK x \in T : \A y \in T : x <= y
  <2> HIDE DEF T
  <2> QED
    BY <1>2, LeastElement
<1>4. PICK k \in 1 .. m : Common(k) /\ x = m - k
  BY <1>3
<1>5. Greatest(k)
  <2> SUFFICES ASSUME NEW l \in (k + 1) .. m, Common(l)
               PROVE  FALSE
    BY <1>4
  <2>1. l \in 1 .. m /\ m - l \in T
    BY <1>1
  <2>2. m - k <= m - l
    <3> HIDE DEF T
    <3> QED
      BY <1>3, <1>4, <2>1
  <2> QED
    BY <1>1, <2>2
<1>6. g \in 1 .. m /\ Greatest(g)
  <2> HIDE DEF Greatest
  <2> QED
    BY <1>5
<1>7. Fraction(n, d) = <<(IF d < 0 THEN -n ELSE n) \div g, m \div g>>
  BY DEF Fraction, m
<1> HIDE DEF g
<1>8. Reduces(g, n, d)
  BY <1>6, <1>7 DEF m, Reduces
<1> QED
  BY <1>8

\* Fraction keeps the value and makes the denominator positive.
LEMMA FractionValue ==
  ASSUME NEW n \in Int, NEW d \in Int \ {0}
  PROVE  /\ Fraction(n, d) \in Int \X (Nat \ {0})
         /\ Fraction(n, d)[1] * d = n * Fraction(n, d)[2]
<1> DEFINE m == AbsOf(d)
           z == IF d < 0 THEN -n ELSE n
<1>0. PICK g : Reduces(g, n, d)
  BY FractionReduced
<1>1. /\ g \in 1 .. m /\ n % g = 0 /\ m % g = 0
      /\ Fraction(n, d) = <<z \div g, m \div g>>
  BY <1>0 DEF Reduces
<1>2. m \in Nat \ {0} /\ z \in Int
  BY DEF AbsOf
<1>3. m \div g \in Nat \ {0} /\ z \div g \in Int /\ g \in Nat \ {0}
  BY <1>1, <1>2
<1>4. PICK u \in Int, v \in Int : n = g * u /\ m = g * v
  <2> DEFINE u == n \div g
             v == m \div g
  <2>1. n = g * u /\ m = g * v /\ u \in Int /\ v \in Int
    BY <1>1, <1>2, <1>3
  <2> HIDE DEF m, u, v
  <2> QED
    BY <2>1
<1> DEFINE w == IF d < 0 THEN -u ELSE u
<1>5. w \in Int /\ z = g * w
  BY <1>3, <1>4
<1> HIDE DEF w, z
<1>6. z \div g = w /\ m \div g = v
  <2> HIDE DEF m
  <2> QED
    BY <1>3, <1>4, <1>5, DivExact
<1>7. w * d = n * v
  <2>1. CASE d < 0
    <3>1. m = -d /\ w = -u
      BY <2>1 DEF AbsOf, w
    <3>2. w * d = u * m /\ n * v = u * (g * v)
      <4> HIDE DEF m
      <4> QED
        BY <1>3, <1>4, <3>1
    <3> QED
      BY <1>4, <3>2
  <2>2. CASE ~(d < 0)
    <3>1. m = d /\ w = u
      BY <2>2 DEF AbsOf, w
    <3>2. w * d = u * m /\ n * v = u * (g * v)
      <4> HIDE DEF m
      <4> QED
        BY <1>3, <1>4, <3>1
    <3> QED
      BY <1>4, <3>2
  <2> QED
    BY <2>1, <2>2
<1>8. Fraction(n, d) = <<w, v>> /\ v \in Nat \ {0}
  <2> HIDE DEF m
  <2>1. Fraction(n, d) = <<z \div g, m \div g>>
    BY <1>1
  <2>2. v \in Nat \ {0}
    BY <1>3, <1>6, Zenon
  <2> QED
    BY <1>6, <2>1, <2>2, Zenon
<1> QED
  BY <1>5, <1>7, <1>8

\* A fraction of whole numbers is a double of the model.
LEMMA FractionType ==
  ASSUME NEW n \in Int, NEW d \in Int
  PROVE  Fraction(n, d) \in Doubles
<1>1. CASE d = 0
  BY <1>1 DEF Fraction, Doubles
<1>2. CASE d # 0
  BY <1>2, FractionValue DEF Doubles
<1> QED
  BY <1>1, <1>2

\* A fraction that is a whole number comes out as one.
LEMMA FractionExact ==
  ASSUME NEW z \in Int, NEW d \in Int \ {0}
  PROVE  Fraction(z * d, d) = <<z, 1>>
<1> DEFINE m == AbsOf(d)
           n == z * d
           y == IF d < 0 THEN -n ELSE n
<1>1. n \in Int /\ m \in Nat \ {0}
  BY DEF AbsOf
<1>0. PICK g : Reduces(g, n, d)
  <2> HIDE DEF n
  <2> QED
    BY <1>1, FractionReduced
<1>2. /\ g \in 1 .. m
      /\ \A l \in (g + 1) .. m : n % l # 0 \/ m % l # 0
      /\ Fraction(n, d) = <<y \div g, m \div g>>
  <2> HIDE DEF n
  <2> QED
    BY <1>0 DEF Reduces
<1>3. y = m * z
  BY DEF AbsOf
<1>4. n = m * z \/ n = m * (-z)
  BY DEF AbsOf
<1> HIDE DEF m, n, y
<1>5. n % m = 0 /\ m % m = 0
  <2>1. (m * z) % m = 0 /\ (m * (-z)) % m = 0 /\ (m * 1) % m = 0
    BY <1>1, DivExact
  <2> QED
    BY <1>1, <1>4, <2>1
<1>6. g = m
  BY <1>1, <1>2, <1>5
<1>7. y \div m = z /\ m \div m = 1
  <2>1. (m * z) \div m = z /\ (m * 1) \div m = 1
    BY <1>1, DivExact
  <2> QED
    BY <1>1, <1>3, <2>1
<1>8. Fraction(n, d) = <<z, 1>>
  <2>1. Fraction(n, d) = <<y \div g, m \div g>>
    BY <1>2
  <2> QED
    BY <1>6, <1>7, <2>1, Zenon
<1> QED
  BY <1>8 DEF n

\* A whole number stays as it is.
LEMMA FractionWhole ==
  ASSUME NEW n \in Int
  PROVE  Fraction(n, 1) = <<n, 1>>
BY DEF Fraction, AbsOf

\* What an operation returns is exact unless it is Inexact.
Numbers == Int \X (Nat \ {0})

\* An operation whose result is not Inexact has had operands that are not, and
\* returns the fraction that is the exact result.
LEMMA RoundedExact ==
  ASSUME NEW p, NEW q, NEW n, NEW d, Rounded(p, q, n, d) # Inexact
  PROVE  p # Inexact /\ q # Inexact /\ Rounded(p, q, n, d) = Fraction(n, d)
BY DEF Rounded

\* The product of two numbers is the exact one.
LEMMA TimesExact ==
  ASSUME NEW p \in Numbers, NEW q \in Numbers, Times(p, q) # Inexact
  PROVE  /\ Times(p, q) = Fraction(p[1] * q[1], p[2] * q[2])
         /\ Times(p, q) \in Numbers
         /\ Times(p, q)[1] * (p[2] * q[2]) = (p[1] * q[1]) * Times(p, q)[2]
<1>1. p[1] * q[1] \in Int /\ p[2] * q[2] \in Int \ {0}
  BY DEF Numbers
<1>2. Times(p, q) = Fraction(p[1] * q[1], p[2] * q[2])
  BY RoundedExact DEF Times
<1> DEFINE n == p[1] * q[1]
           d == p[2] * q[2]
<1>3. Fraction(n, d) \in Numbers /\ Fraction(n, d)[1] * d = n * Fraction(n, d)[2]
  <2>1. n \in Int /\ d \in Int \ {0}
    BY <1>1
  <2> HIDE DEF n, d
  <2> QED
    BY <2>1, FractionValue DEF Numbers
<1> QED
  BY <1>2, <1>3 DEF n, d

\* And so is their difference.
LEMMA MinusExact ==
  ASSUME NEW p \in Numbers, NEW q \in Numbers, Minus(p, q) # Inexact
  PROVE  /\ Minus(p, q) \in Numbers
         /\ Minus(p, q)[1] * (p[2] * q[2]) = (p[1] * q[2] - q[1] * p[2]) * Minus(p, q)[2]
<1>1. p[1] * q[2] - q[1] * p[2] \in Int /\ p[2] * q[2] \in Int \ {0}
  BY DEF Numbers
<1>2. Minus(p, q) = Fraction(p[1] * q[2] - q[1] * p[2], p[2] * q[2])
  BY RoundedExact DEF Minus
<1> DEFINE n == p[1] * q[2] - q[1] * p[2]
           d == p[2] * q[2]
<1>3. Fraction(n, d) \in Numbers /\ Fraction(n, d)[1] * d = n * Fraction(n, d)[2]
  <2>1. n \in Int /\ d \in Int \ {0}
    BY <1>1
  <2> HIDE DEF n, d
  <2> QED
    BY <2>1, FractionValue DEF Numbers
<1> QED
  BY <1>2, <1>3 DEF n, d

\* And their quotient, unless the divisor is zero.
LEMMA OverExact ==
  ASSUME NEW p \in Numbers, NEW q \in Numbers, q[1] # 0, Over(p, q) # Inexact
  PROVE  /\ Over(p, q) \in Numbers
         /\ Over(p, q)[1] * (p[2] * q[1]) = (p[1] * q[2]) * Over(p, q)[2]
<1>1. p[1] * q[2] \in Int /\ p[2] * q[1] \in Int \ {0}
  BY DEF Numbers
<1>2. q # NaN
  BY DEF NaN
<1>3. Over(p, q) = Fraction(p[1] * q[2], p[2] * q[1])
  BY <1>2, RoundedExact DEF Over
<1> DEFINE n == p[1] * q[2]
           d == p[2] * q[1]
<1>4. Fraction(n, d) \in Numbers /\ Fraction(n, d)[1] * d = n * Fraction(n, d)[2]
  <2>1. n \in Int /\ d \in Int \ {0}
    BY <1>1
  <2> HIDE DEF n, d
  <2> QED
    BY <2>1, FractionValue DEF Numbers
<1> QED
  BY <1>3, <1>4 DEF n, d

\* A factor that is not zero can be taken off both sides.
LEMMA Cancel ==
  ASSUME NEW x \in Int, NEW y \in Int, NEW k \in Int \ {0}, x * k = y * k
  PROVE  x = y
OBVIOUS

\* The arithmetic stays within the doubles of the model, NaN and Inexact included.
LEMMA ArithmeticType ==
  ASSUME NEW p \in Doubles, NEW q \in Doubles
  PROVE  Times(p, q) \in Doubles /\ Minus(p, q) \in Doubles /\ Over(p, q) \in Doubles
<1>1. p[1] \in Int /\ p[2] \in Int /\ q[1] \in Int /\ q[2] \in Int
  BY DEF Doubles, NaN, Inexact
<1>2. /\ p[1] * q[1] \in Int /\ p[2] * q[2] \in Int /\ p[2] * q[1] \in Int
      /\ p[1] * q[2] \in Int /\ p[1] * q[2] - q[1] * p[2] \in Int
  BY <1>1
<1>3. \A n, d \in Int : Rounded(p, q, n, d) \in Doubles
  <2>1. Inexact \in Doubles
    BY DEF Doubles
  <2> QED
    BY <2>1, FractionType DEF Rounded
<1>4. Times(p, q) \in Doubles /\ Minus(p, q) \in Doubles
  BY <1>2, <1>3 DEF Times, Minus
<1>5. Over(p, q) \in Doubles
  <2>1. (IF q = NaN THEN 0 ELSE p[2] * q[1]) \in Int
    BY <1>2
  <2> QED
    BY <1>2, <1>3, <2>1 DEF Over
<1> QED
  BY <1>4, <1>5

(***************************************************************************)
(* Determinants and inverses.                                              *)
(***************************************************************************)

\* The size and the cells of a square matrix.
LEMMA SquareSize ==
  ASSUME NEW n \in Nat, NEW S, NEW M \in Square(n, S)
  PROVE  Size(M) = n /\ \A i, j \in 1 .. n : M[i][j] \in S
<1>1. M \in [1 .. n -> [1 .. n -> S]]
  BY DEF Square
<1>2. Len(M) = n
  BY <1>1
<1> QED
  BY <1>1, <1>2 DEF Size

Steps(n) == [matrix : Square(n, Doubles), det : Doubles]

\* One turn of the elimination keeps the size of the matrix.
LEMMA TurnType ==
  ASSUME NEW n \in Nat, NEW k \in 1 .. n, NEW x \in Steps(n)
  PROVE  Turn(x, k) \in Steps(n)
<1> DEFINE M == x.matrix
           P == Pivoted(M, k)
<1>1. M \in [1 .. n -> [1 .. n -> Doubles]] /\ x.det \in Doubles /\ Size(M) = n
  BY SquareSize DEF Steps, Square
<1>2. P \in [1 .. n -> [1 .. n -> Doubles]]
  <2>1. P = M \/ (k + 1 \in 1 .. n /\ P = [M EXCEPT ![k] = M[k + 1], ![k + 1] = M[k]])
    BY <1>1 DEF Pivoted, SwapRows
  <2> HIDE DEF M, P
  <2>2. M[k] \in [1 .. n -> Doubles]
    BY <1>1
  <2>3. k + 1 \in 1 .. n => M[k + 1] \in [1 .. n -> Doubles]
    BY <1>1
  <2> QED
    BY <1>1, <2>1, <2>2, <2>3
<1>3. Size(P) = n
  BY <1>2, SquareSize DEF Square
<1> HIDE DEF P
<1>4. Eliminated(P, k) \in [1 .. n -> [1 .. n -> Doubles]]
  <2>1. \A i, j \in 1 .. n : Minus(P[i][j], Times(Over(P[i][k], P[k][k]), P[k][j])) \in Doubles
    BY <1>2, ArithmeticType
  <2> QED
    BY <1>2, <1>3, <2>1 DEF Eliminated, Matrix
<1>5. One \in Doubles /\ <<-1, 1>> \in Doubles
  BY DEF One, Doubles
<1>6. Times(x.det, Times(IF M[k][k] = Zero THEN <<-1, 1>> ELSE One, P[k][k])) \in Doubles
  BY <1>1, <1>2, <1>5, ArithmeticType
<1> QED
  BY <1>4, <1>6 DEF Turn, Steps, Square, P

\* The loop of determinantOfMatrix: what it starts with, and what turn k makes.
Turns(g, n, M) ==
  /\ g[0] = [matrix |-> M, det |-> One]
  /\ \A k \in 1 .. n : g[k] = Turn(g[k - 1], k)
  /\ \A k \in 0 .. n : g[k] \in Steps(n)

\* The determinant is what the last of the turns leaves.
LEMMA DeterminantTurns ==
  ASSUME NEW n \in Nat, NEW M \in Square(n, Doubles)
  PROVE  \E g : Turns(g, n, M) /\ Determinant(M) = g[n].det
<1> DEFINE a == [matrix |-> M, det |-> One]
           F == [k \in 1 .. n |-> [x \in Steps(n) |-> Turn(x, k)]]
           Equation(g) == g = [k \in 0 .. n |-> IF k = 0 THEN a ELSE Turn(g[k - 1], k)]
           turns == CHOOSE g : Equation(g)
<1>1. a \in Steps(n) /\ F \in [1 .. n -> [Steps(n) -> Steps(n)]]
  <2>1. One \in Doubles
    BY DEF One, Doubles
  <2>2. a \in Steps(n)
    BY <2>1 DEF Steps
  <2>3. \A k \in 1 .. n, x \in Steps(n) : Turn(x, k) \in Steps(n)
    BY TurnType
  <2>4. F \in [1 .. n -> [Steps(n) -> Steps(n)]]
    BY <2>3
  <2> QED
    BY <2>2, <2>4
<1>2. \E g : Equation(g)
  <2> HIDE DEF a, F
  <2>1. PICK g : IsLoop(g, n, Steps(n), a, F)
    BY <1>1, Iteration
  <2>2. g \in [0 .. n -> Steps(n)] /\ g[0] = a /\ \A k \in 1 .. n : g[k] = F[k][g[k - 1]]
    BY <2>1 DEF IsLoop
  <2>3. ASSUME NEW k \in 1 .. n
        PROVE  g[k] = Turn(g[k - 1], k)
    <3>1. g[k - 1] \in Steps(n)
      <4>1. k - 1 \in 0 .. n
        OBVIOUS
      <4> QED
        BY <2>2, <4>1
    <3> QED
      BY <2>2, <3>1 DEF F
  <2>4. \A k \in 0 .. n : g[k] = IF k = 0 THEN a ELSE Turn(g[k - 1], k)
    BY <2>2, <2>3
  <2>5. g = [k \in 0 .. n |-> g[k]]
    BY <2>2
  <2>6. Equation(g)
    BY <2>4, <2>5
  <2> HIDE DEF Equation
  <2> QED
    BY <2>6
<1>3. Equation(turns)
  <2> HIDE DEF Equation
  <2> QED
    BY <1>2
<1>4. Size(M) = n
  BY SquareSize
<1>5. Determinant(M) = turns[n].det
  BY <1>4 DEF Determinant
<1> HIDE DEF turns
<1>6. turns[0] = a /\ \A k \in 1 .. n : turns[k] = Turn(turns[k - 1], k)
  <2> HIDE DEF a
  <2> QED
    BY <1>3
<1>7. \A k \in 0 .. n : turns[k] \in Steps(n)
  <2> HIDE DEF a
  <2> DEFINE T == {k \in 0 .. n : turns[k] \in Steps(n)}
  <2>1. 0 \in T /\ T \in SUBSET (0 .. n)
    BY <1>1, <1>6
  <2>2. \A k \in 1 .. n : k - 1 \in T => k \in T
    BY <1>6, TurnType
  <2>3. T = 0 .. n
    <3> HIDE DEF T
    <3> QED
      BY <2>1, <2>2, IntervalInduction
  <2> QED
    BY <2>3
<1>8. Turns(turns, n, M)
  BY <1>6, <1>7 DEF Turns
<1> QED
  BY <1>5, <1>8

\* The determinant is a double.
LEMMA DeterminantType ==
  ASSUME NEW n \in Nat, NEW M \in Square(n, Doubles)
  PROVE  Determinant(M) \in Doubles
<1>1. PICK g : Turns(g, n, M) /\ Determinant(M) = g[n].det
  BY DeterminantTurns
<1>2. g[n] \in Steps(n)
  BY <1>1 DEF Turns
<1> QED
  BY <1>1, <1>2 DEF Steps

\* The same in numerators and denominators.
LEMMA TwoRowsValue ==
  ASSUME NEW a \in Int, NEW b \in Int, NEW c \in Int, NEW d \in Int, NEW e \in Int,
         NEW o1 \in Int, NEW o2 \in Nat \ {0}, NEW t1 \in Int, NEW t2 \in Nat \ {0},
         NEW w1 \in Int, NEW w2 \in Nat \ {0}, NEW f1 \in Int, NEW f2 \in Nat \ {0},
         o1 * a = c * o2, t1 * o2 = (o1 * b) * t2,
         w1 * t2 = (d * t2 - t1) * w2, f1 * w2 = w1 * f2
  PROVE  (e * a) * f1 = (e * (a * d - b * c)) * f2
<1>1. a * t1 = (b * c) * t2
  <2>1. (a * t1) * o2 = a * ((o1 * b) * t2)
    OBVIOUS
  <2>2. a * ((o1 * b) * t2) = (o1 * a) * (b * t2)
    OBVIOUS
  <2>3. (c * o2) * (b * t2) = ((b * c) * t2) * o2
    OBVIOUS
  <2>4. (a * t1) * o2 = ((b * c) * t2) * o2
    BY <2>1, <2>2, <2>3
  <2> QED
    BY <2>4, Cancel
<1>2. a * w1 = (a * d - b * c) * w2
  <2>1. (a * w1) * t2 = a * ((d * t2 - t1) * w2)
    OBVIOUS
  <2>2. a * ((d * t2 - t1) * w2) = ((a * d) * t2 - a * t1) * w2
    OBVIOUS
  <2>3. ((a * d) * t2 - (b * c) * t2) * w2 = ((a * d - b * c) * w2) * t2
    OBVIOUS
  <2>4. (a * w1) * t2 = ((a * d - b * c) * w2) * t2
    BY <1>1, <2>1, <2>2, <2>3
  <2> QED
    BY <2>4, Cancel
<1>3. a * f1 = (a * d - b * c) * f2
  <2>1. (a * f1) * w2 = a * (w1 * f2)
    OBVIOUS
  <2>2. a * (w1 * f2) = (a * w1) * f2
    OBVIOUS
  <2>3. ((a * d - b * c) * w2) * f2 = ((a * d - b * c) * f2) * w2
    OBVIOUS
  <2>4. (a * f1) * w2 = ((a * d - b * c) * f2) * w2
    BY <1>2, <2>1, <2>2, <2>3
  <2> QED
    BY <2>4, Cancel
<1> QED
  BY <1>3

\* The last diagonal element that the elimination of two rows leaves, times the
\* first one a and a factor e, with the sign of the last turn, if nothing is
\* rounded on the way.
LEMMA TwoRows ==
  ASSUME NEW a \in Int \ {0}, NEW b \in Int, NEW c \in Int, NEW d \in Int, NEW e \in Int
  PROVE  LET w == Minus(<<d, 1>>, Times(Over(<<c, 1>>, <<a, 1>>), <<b, 1>>))
             s == IF w = Zero THEN <<-1, 1>> ELSE One
         IN  Times(<<e * a, 1>>, Times(s, w)) \in {Inexact, <<e * (a * d - b * c), 1>>}
<1> DEFINE o == Over(<<c, 1>>, <<a, 1>>)
           t == Times(o, <<b, 1>>)
           w == Minus(<<d, 1>>, t)
           s == IF w = Zero THEN <<-1, 1>> ELSE One
           f == Times(s, w)
           h == Times(<<e * a, 1>>, f)
<1> SUFFICES ASSUME h # Inexact
             PROVE  h = <<e * (a * d - b * c), 1>>
  OBVIOUS
<1>0. o # Inexact /\ t # Inexact /\ w # Inexact /\ f # Inexact
  <2>1. f # Inexact
    BY RoundedExact DEF Times
  <2> HIDE DEF f
  <2>2. w # Inexact
    BY <2>1, RoundedExact DEF f, Times
  <2> HIDE DEF w
  <2>3. t # Inexact
    BY <2>2, RoundedExact DEF w, Minus
  <2> HIDE DEF t
  <2>4. o # Inexact
    BY <2>3, RoundedExact DEF t, Times
  <2> QED
    BY <2>1, <2>2, <2>3, <2>4
<1>1. \A x \in Int : <<x, 1>> \in Numbers /\ <<x, 1>>[1] = x /\ <<x, 1>>[2] = 1
  BY DEF Numbers
<1>2. o \in Numbers /\ o[1] * (1 * a) = (c * 1) * o[2]
  BY <1>0, <1>1, OverExact
<1> HIDE DEF o
<1>3. t \in Numbers /\ t[1] * (o[2] * 1) = (o[1] * b) * t[2]
  BY <1>0, <1>1, <1>2, TimesExact
<1> HIDE DEF t
<1>4. w \in Numbers /\ w[1] * (1 * t[2]) = (d * t[2] - t[1] * 1) * w[2]
  BY <1>0, <1>1, <1>3, MinusExact
<1> HIDE DEF w
<1>5. s \in Numbers /\ s[2] = 1 /\ s[1] * w[1] = w[1]
  BY <1>4 DEF Numbers, One, Zero
<1> HIDE DEF s
<1>6. f \in Numbers /\ f[1] * (1 * w[2]) = w[1] * f[2]
  BY <1>0, <1>4, <1>5, TimesExact
<1> HIDE DEF f
<1>7. e * a \in Int /\ h \in Numbers /\ h[1] * (1 * f[2]) = (e * a * f[1]) * h[2]
  BY <1>1, <1>6, TimesExact
<1>8. h = Fraction((e * a) * f[1], 1 * f[2])
  BY <1>1, <1>6, <1>7, TimesExact
<1>9. PICK o1, o2, t1, t2, w1, w2, f1, f2 :
        /\ o1 = o[1] /\ o2 = o[2] /\ t1 = t[1] /\ t2 = t[2]
        /\ w1 = w[1] /\ w2 = w[2] /\ f1 = f[1] /\ f2 = f[2]
  OBVIOUS
<1>10. /\ o1 \in Int /\ t1 \in Int /\ w1 \in Int /\ f1 \in Int
       /\ o2 \in Nat \ {0} /\ t2 \in Nat \ {0} /\ w2 \in Nat \ {0} /\ f2 \in Nat \ {0}
  BY <1>2, <1>3, <1>4, <1>6, <1>9 DEF Numbers
<1>11. /\ o1 * (1 * a) = (c * 1) * o2 /\ t1 * (o2 * 1) = (o1 * b) * t2
       /\ w1 * (1 * t2) = (d * t2 - t1 * 1) * w2 /\ f1 * (1 * w2) = w1 * f2
  <2>1. (d * t[2] - t[1] * 1) = d * t2 - t1 * 1 /\ (o[1] * b) = o1 * b
    BY <1>9, Zenon
  <2> QED
    BY <1>2, <1>3, <1>4, <1>6, <1>9, <2>1, Zenon
<1>12. /\ o1 * a = c * o2 /\ t1 * o2 = (o1 * b) * t2
       /\ w1 * t2 = (d * t2 - t1) * w2 /\ f1 * w2 = w1 * f2
  <2>1. 1 * a = a /\ c * 1 = c /\ o2 * 1 = o2 /\ 1 * t2 = t2 /\ t1 * 1 = t1 /\ 1 * w2 = w2
    BY <1>10
  <2> QED
    BY <1>11, <2>1, Zenon
<1>13. (e * a) * f1 = (e * (a * d - b * c)) * f2
  BY <1>10, <1>12, TwoRowsValue
<1>14. PICK z \in Int, v \in Int : z = e * (a * d - b * c) /\ v = e * a
  OBVIOUS
<1>15. h = Fraction(v * f1, f2)
  <2>1. 1 * f2 = f2
    BY <1>10
  <2> QED
    BY <1>8, <1>9, <1>14, <2>1, Zenon
<1>16. h = <<z, 1>>
  <2>1. v * f1 = z * f2
    BY <1>13, <1>14, Zenon
  <2>2. h = Fraction(z * f2, f2)
    BY <1>15, <2>1, Zenon
  <2>3. f2 \in Int \ {0}
    BY <1>10
  <2>4. Fraction(z * f2, f2) = <<z, 1>>
    BY <2>3, FractionExact
  <2> QED
    BY <2>2, <2>4, Zenon
<1> QED
  BY <1>14, <1>16

\* The two turns of a matrix of two rows.
LEMMA TwoTurns ==
  ASSUME NEW M \in Square(2, Doubles)
  PROVE  LET P == Pivoted(M, 1)
             w == Minus(P[2][2], Times(Over(P[2][1], P[1][1]), P[1][2]))
             s == IF w = Zero THEN <<-1, 1>> ELSE One
             r == IF M[1][1] = Zero THEN <<-1, 1>> ELSE One
         IN  Determinant(M) = Times(Times(One, Times(r, P[1][1])), Times(s, w))
<1> DEFINE P == Pivoted(M, 1)
           E == Eliminated(P, 1)
           w == Minus(P[2][2], Times(Over(P[2][1], P[1][1]), P[1][2]))
           r == IF M[1][1] = Zero THEN <<-1, 1>> ELSE One
<1>1. PICK g : Turns(g, 2, M) /\ Determinant(M) = g[2].det
  BY DeterminantTurns
<1>2. /\ g[0] = [matrix |-> M, det |-> One]
      /\ g[1] = Turn(g[0], 1) /\ g[2] = Turn(g[1], 2)
  <2>1. 1 \in 1 .. 2 /\ 2 \in 1 .. 2 /\ 1 - 1 = 0 /\ 2 - 1 = 1
    OBVIOUS
  <2> QED
    BY <1>1, <2>1 DEF Turns
<1>3. M \in [1 .. 2 -> [1 .. 2 -> Doubles]] /\ Size(M) = 2
  BY SquareSize DEF Square
<1>4. P \in [1 .. 2 -> [1 .. 2 -> Doubles]]
  BY <1>3 DEF Pivoted, SwapRows
<1>5. Size(P) = 2
  BY <1>4, SquareSize DEF Square
<1>6. g[1].matrix = E /\ g[1].det = Times(One, Times(r, P[1][1]))
  BY <1>2 DEF Turn
<1> HIDE DEF P
<1>7. E = [i \in 1 .. 2 |-> [j \in 1 .. 2 |->
             IF i > 1 /\ j >= 1
             THEN Minus(P[i][j], Times(Over(P[i][1], P[1][1]), P[1][j]))
             ELSE P[i][j]]]
  BY <1>5 DEF Eliminated, Matrix
<1>8. E[2][2] = w /\ Size(E) = 2
  <2>1. \A i, j \in 1 .. 2 : Minus(P[i][j], Times(Over(P[i][1], P[1][1]), P[1][j])) \in Doubles
    BY <1>4, ArithmeticType
  <2>2. E \in Square(2, Doubles)
    BY <1>4, <1>7, <2>1 DEF Square
  <2>3. E[2][2] = w
    BY <1>7
  <2> HIDE DEF E
  <2> QED
    BY <2>2, <2>3, SquareSize
<1> HIDE DEF E, w
<1>9. Pivoted(E, 2) = E
  BY <1>8 DEF Pivoted, SwapRows
<1>10. g[2].det = Times(g[1].det, Times(IF w = Zero THEN <<-1, 1>> ELSE One, w))
  BY <1>2, <1>6, <1>8, <1>9 DEF Turn
<1> QED
  BY <1>1, <1>6, <1>10 DEF w, P

\* A pivot 0.0 leaves no number.
LEMMA NoNumber ==
  ASSUME NEW x \in Numbers, NEW y \in Numbers, NEW z \in Numbers, NEW v \in Doubles
  PROVE  LET w == Minus(x, Times(Over(y, Zero), z))
         IN  w = NaN /\ Times(v, Times(One, w)) \in {NaN, Inexact}
<1>1. x # Inexact /\ y # Inexact /\ z # Inexact
  BY DEF Numbers, Inexact
<1>2. Zero # Inexact /\ One # Inexact /\ NaN # Inexact
  BY DEF Zero, One, NaN, Inexact
<1>3. \A p, q, n : p # Inexact /\ q # Inexact => Rounded(p, q, n, 0) = NaN
  BY DEF Rounded, Fraction
<1>4. \A p, q, n : Rounded(p, q, n, 0) \in {NaN, Inexact}
  BY DEF Rounded, Fraction
<1>5. Over(y, Zero) = NaN
  <2>1. (IF Zero = NaN THEN 0 ELSE y[2] * Zero[1]) = 0
    BY DEF Zero, NaN, Numbers
  <2> QED
    BY <1>1, <1>2, <1>3, <2>1 DEF Over
<1>6. Times(NaN, z) = NaN
  <2>1. NaN[2] * z[2] = 0
    BY DEF NaN, Numbers
  <2> QED
    BY <1>1, <1>2, <1>3, <2>1 DEF Times
<1>7. Minus(x, NaN) = NaN
  <2>1. x[2] * NaN[2] = 0
    BY DEF NaN, Numbers
  <2> QED
    BY <1>1, <1>2, <1>3, <2>1 DEF Minus
<1>8. Times(One, NaN) = NaN
  <2>1. One[2] * NaN[2] = 0
    BY DEF NaN, One
  <2> QED
    BY <1>2, <1>3, <2>1 DEF Times
<1>9. Times(v, NaN) \in {NaN, Inexact}
  <2>1. v[2] * NaN[2] = 0
    BY DEF NaN, Doubles, Inexact
  <2> QED
    BY <1>4, <2>1 DEF Times
<1> QED
  BY <1>5, <1>6, <1>7, <1>8, <1>9

\* determinantOfMatrix (timeServer.c, seeWhat.c and showResults.c of Midterm)
\* of the rows a b and c d is a * d - b * c, but no number when a is zero and so
\* is c or d: whether the rows change places depends on d, the next diagonal
\* element, and not on c, which then becomes the pivot.  Of a result with a
\* rounded step, as when a does not divide c into a double, nothing is said.
THEOREM DeterminantOfTwo ==
  ASSUME NEW a \in Int, NEW b \in Int, NEW c \in Int, NEW d \in Int
  PROVE  Determinant(<<<<<<a, 1>>, <<b, 1>>>>, <<<<c, 1>>, <<d, 1>>>>>>) \in
           {Inexact, IF a = 0 /\ (c = 0 \/ d = 0) THEN NaN ELSE <<a * d - b * c, 1>>}
<1> DEFINE M == <<<<<<a, 1>>, <<b, 1>>>>, <<<<c, 1>>, <<d, 1>>>>>>
           P == Pivoted(M, 1)
           w == Minus(P[2][2], Times(Over(P[2][1], P[1][1]), P[1][2]))
           s == IF w = Zero THEN <<-1, 1>> ELSE One
           r == IF M[1][1] = Zero THEN <<-1, 1>> ELSE One
<1>1. M \in Square(2, Doubles)
  BY DEF Square, Doubles
<1>2. Determinant(M) = Times(Times(One, Times(r, P[1][1])), Times(s, w))
  <2> HIDE DEF M
  <2> QED
    BY <1>1, TwoTurns
<1>3. /\ M[1][1] = <<a, 1>> /\ M[1][2] = <<b, 1>>
      /\ M[2][1] = <<c, 1>> /\ M[2][2] = <<d, 1>> /\ Size(M) = 2
  BY DEF Size
<1>4. \A x \in Int : <<x, 1>> \in Numbers /\ <<x, 1>> \in Doubles /\ (<<x, 1>> = Zero <=> x = 0)
  BY DEF Numbers, Doubles, Zero
<1>5. \A x, y \in Int : Times(<<x, 1>>, <<y, 1>>) \in {Inexact, <<x * y, 1>>}
  BY FractionWhole, RoundedExact DEF Times
<1>9. \A p, q : p = Inexact \/ q = Inexact => Times(p, q) = Inexact
  BY DEF Times, Rounded
<1>6. CASE a # 0
  <2>1. P[1][1] = <<a, 1>> /\ P[1][2] = <<b, 1>> /\ P[2][1] = <<c, 1>> /\ P[2][2] = <<d, 1>>
    BY <1>3, <1>4, <1>6 DEF Pivoted
  <2>2. r = One
    BY <1>3, <1>4, <1>6
  <2> HIDE DEF P, r, M
  <2>3. Times(One, Times(r, P[1][1])) \in {Inexact, <<1 * a, 1>>}
    <3>1. Times(One, <<a, 1>>) \in {Inexact, <<1 * a, 1>>} /\ 1 * a = a
      BY <1>5 DEF One
    <3> QED
      BY <1>9, <2>1, <2>2, <3>1
  <2>4. Times(<<1 * a, 1>>, Times(s, w)) \in {Inexact, <<1 * (a * d - b * c), 1>>}
    <3>1. PICK e \in Int : e = 1
      OBVIOUS
    <3>2. a \in Int \ {0}
      BY <1>6
    <3>3. Times(<<e * a, 1>>, Times(s, w)) \in {Inexact, <<e * (a * d - b * c), 1>>}
      BY <2>1, <3>2, TwoRows
    <3> QED
      BY <3>1, <3>3, Zenon
  <2>5. 1 * (a * d - b * c) = a * d - b * c
    OBVIOUS
  <2>6. Determinant(M) \in {Inexact, <<a * d - b * c, 1>>}
    BY <1>2, <1>9, <2>3, <2>4, <2>5, Zenon
  <2> QED
    BY <1>6, <2>6, Zenon DEF M
<1>7. CASE a = 0 /\ d # 0
  <2>1. P[1][1] = <<c, 1>> /\ P[1][2] = <<d, 1>> /\ P[2][1] = <<a, 1>> /\ P[2][2] = <<b, 1>>
    <3>1. P = [M EXCEPT ![1] = M[2], ![2] = M[1]]
      BY <1>3, <1>4, <1>7 DEF Pivoted, SwapRows
    <3>2. M \in [1 .. 2 -> [1 .. 2 -> Doubles]]
      BY <1>1 DEF Square
    <3> HIDE DEF P, M
    <3>3. P[1] = M[2] /\ P[2] = M[1]
      BY <3>1, <3>2
    <3> QED
      BY <1>3, <3>3
  <2>2. r = <<-1, 1>>
    BY <1>3, <1>4, <1>7
  <2> HIDE DEF P, r, M
  <2>3. Times(One, Times(r, P[1][1])) \in {Inexact, <<-1 * c, 1>>}
    <3>1. /\ Times(<<-1, 1>>, <<c, 1>>) \in {Inexact, <<-1 * c, 1>>} /\ -1 * c \in Int
          /\ Times(One, <<-1 * c, 1>>) \in {Inexact, <<1 * (-1 * c), 1>>}
          /\ 1 * (-1 * c) = -1 * c
      BY <1>5 DEF One
    <3> QED
      BY <1>9, <2>1, <2>2, <3>1
  <2>4. CASE c # 0
    <3>1. Times(<<-1 * c, 1>>, Times(s, w)) \in {Inexact, <<-1 * (c * b - d * a), 1>>}
      BY <2>1, <2>4, TwoRows
    <3>2. -1 * (c * b - d * a) = a * d - b * c
      OBVIOUS
    <3>3. Determinant(M) \in {Inexact, <<a * d - b * c, 1>>}
      BY <1>2, <1>9, <2>3, <3>1, <3>2, Zenon
    <3> QED
      BY <1>7, <2>4, <3>3, Zenon DEF M
  <2>5. CASE c = 0
    <3>1. P[1][1] = Zero
      BY <1>4, <2>1, <2>5
    <3>0. Times(One, Times(r, P[1][1])) \in Doubles
      BY <1>4, <2>3 DEF Doubles
    <3>2. w = NaN /\ Times(Times(One, Times(r, P[1][1])), Times(One, w)) \in {NaN, Inexact}
      BY <1>4, <2>1, <3>0, <3>1, NoNumber
    <3>3. s = One
      BY <3>2 DEF NaN, Zero
    <3>4. Determinant(M) \in {NaN, Inexact}
      BY <1>2, <3>2, <3>3, Zenon
    <3> QED
      BY <1>7, <2>5, <3>4, Zenon DEF M
  <2> QED
    BY <2>4, <2>5
<1>8. CASE a = 0 /\ d = 0
  <2>1. P[1][1] = <<a, 1>> /\ P[1][2] = <<b, 1>> /\ P[2][1] = <<c, 1>> /\ P[2][2] = <<d, 1>>
    BY <1>3, <1>4, <1>8 DEF Pivoted, SwapRows
  <2>2. r = <<-1, 1>>
    BY <1>3, <1>4, <1>8
  <2> HIDE DEF P, r, M
  <2>3. Times(One, Times(r, P[1][1])) \in Doubles
    <3>1. One \in Doubles /\ r \in Doubles /\ P[1][1] \in Doubles
      BY <1>4, <2>1, <2>2 DEF One
    <3> QED
      BY <3>1, ArithmeticType
  <2>4. P[1][1] = Zero
    BY <1>4, <1>8, <2>1
  <2>5. w = NaN /\ Times(Times(One, Times(r, P[1][1])), Times(One, w)) \in {NaN, Inexact}
    BY <1>4, <2>1, <2>3, <2>4, NoNumber
  <2>6. s = One
    BY <2>5 DEF NaN, Zero
  <2>7. Determinant(M) \in {NaN, Inexact}
    BY <1>2, <2>5, <2>6, Zenon
  <2> QED
    BY <1>8, <2>7, Zenon DEF M
<1> QED
  BY <1>6, <1>7, <1>8

\* An inverse is NULL or has the size of its matrix.
LEMMA InverseType ==
  ASSUME NEW n \in Nat \ {0}, NEW M \in Square(n, Doubles)
  PROVE  InverseOfMatrix(M) \in {NULL} \cup Square(n, Doubles)
<1> DEFINE B == Transpose(CoFactor(M))
<1>1. Size(M) = n /\ M \in [1 .. n -> [1 .. n -> Doubles]]
  BY SquareSize DEF Square
<1>2. ASSUME NEW i \in 1 .. n, NEW j \in 1 .. n
      PROVE  Determinant(Minor(M, i, j)) \in Doubles
  <2>1. n - 1 \in Nat
    OBVIOUS
  <2>2. Minor(M, i, j) \in Square(n - 1, Doubles)
    BY <1>1 DEF Minor, Matrix, Square
  <2> QED
    BY <2>1, <2>2, DeterminantType
<1>3. CoFactor(M) \in Square(n, Doubles)
  <2>1. One \in Doubles /\ <<-1, 1>> \in Doubles
    BY DEF One, Doubles
  <2>2. \A i, j \in 1 .. n :
          Times(IF (i + j) % 2 = 0 THEN One ELSE <<-1, 1>>, Determinant(Minor(M, i, j))) \in Doubles
    BY <1>2, <2>1, ArithmeticType
  <2> QED
    BY <1>1, <2>2 DEF CoFactor, Matrix, Square
<1>4. Size(CoFactor(M)) = n
  BY <1>3, SquareSize
<1>5. B \in [1 .. n -> [1 .. n -> Doubles]]
  BY <1>3, <1>4 DEF Transpose, Matrix, Square
<1> HIDE DEF B
<1>6. Determinant(M) \in Doubles
  BY DeterminantType
<1>7. \A i, j \in 1 .. n : Over(B[i][j], Determinant(M)) \in Doubles
  BY <1>5, <1>6, ArithmeticType
<1>8. Matrix(n, LAMBDA i, j : Over(B[i][j], Determinant(M))) \in Square(n, Doubles)
  BY <1>7 DEF Matrix, Square
<1> QED
  BY <1>1, <1>8 DEF InverseOfMatrix, B

\* A quarter has half the size.
LEMMA QuarterType ==
  ASSUME NEW n \in Nat \ {0}, NEW D, NEW M \in Square(2 * n, D), NEW q \in Quarters
  PROVE  Quarter(M, q[1], q[2]) \in Square(n, D)
<1>1. Size(M) = 2 * n /\ M \in [1 .. 2 * n -> [1 .. 2 * n -> D]]
  BY SquareSize DEF Square
<1>2. Size(M) \div 2 = n
  <2>1. (2 * n) \div 2 = n
    OBVIOUS
  <2> QED
    BY <1>1, <2>1, Zenon
<1>3. q[1] \in {1, 2} /\ q[2] \in {1, 2}
  BY DEF Quarters
<1>4. \A r \in {1, 2} : \A i \in 1 .. n : (r - 1) * n + i \in 1 .. 2 * n
  OBVIOUS
<1>5. \A i, j \in 1 .. n : M[(q[1] - 1) * n + i][(q[2] - 1) * n + j] \in D
  BY <1>1, <1>3, <1>4
<1> QED
  BY <1>2, <1>5 DEF Quarter, Matrix, Square

\* A matrix has no inverse if its determinant comes out as 0.0, and only then.
LEMMA InverseNull ==
  ASSUME NEW n \in Nat \ {0}, NEW M \in Square(n, Doubles)
  PROVE  InverseOfMatrix(M) = NULL <=> Vanishes(M)
<1> DEFINE W == Matrix(n, LAMBDA i, j : Over(Transpose(CoFactor(M))[i][j], Determinant(M)))
<1>1. Size(M) = n
  BY SquareSize
<1>2. DOMAIN W = 1 .. n /\ 1 \in 1 .. n
  BY DEF Matrix
<1>3. W # NULL
  <2> HIDE DEF W
  <2> QED
    BY <1>2 DEF NULL
<1>4. InverseOfMatrix(M) = IF Vanishes(M) THEN NULL ELSE W
  BY <1>1 DEF InverseOfMatrix
<1> HIDE DEF W
<1> QED
  BY <1>3, <1>4

\* The shifted inverse is NULL, a crash or a matrix of the same size; it is a
\* crash only when the determinant of another quarter than the first is 0.0.
LEMMA ShiftedInverseType ==
  ASSUME NEW n \in Nat \ {0}, NEW M \in Square(2 * n, Doubles)
  PROVE  /\ ShiftedInverse(M) \in {NULL, CRASH} \cup Square(2 * n, Doubles)
         /\ ShiftedInverse(M) = CRASH =>
              /\ ~Vanishes(Quarter(M, 1, 1))
              /\ \E q \in Quarters \ {<<1, 1>>} : Vanishes(Quarter(M, q[1], q[2]))
<1> DEFINE inverse == [q \in Quarters |-> InverseOfMatrix(Quarter(M, q[1], q[2]))]
           h == Size(M) \div 2
           S == Matrix(Size(M), LAMBDA i, j :
                  inverse[<<1 + ((i - 1) \div h), 1 + ((j - 1) \div h)>>]
                    [1 + ((i - 1) % h)][1 + ((j - 1) % h)])
<1>1. Size(M) = 2 * n /\ h = n
  <2>1. 2 * n \in Nat
    OBVIOUS
  <2>2. Size(M) = 2 * n
    BY <2>1, SquareSize
  <2>3. (2 * n) \div 2 = n
    OBVIOUS
  <2> QED
    BY <2>2, <2>3, Zenon
<1>2. inverse \in [Quarters -> {NULL} \cup Square(n, Doubles)]
  BY QuarterType, InverseType
<1>3. <<1, 1>> \in Quarters
  BY DEF Quarters
<1>4. \A q \in Quarters : inverse[q] = NULL <=> Vanishes(Quarter(M, q[1], q[2]))
  BY QuarterType, InverseNull
<1>5. ASSUME \A q \in Quarters : inverse[q] # NULL
      PROVE  S \in Square(2 * n, Doubles)
  <2>1. \A q \in Quarters : inverse[q] \in [1 .. n -> [1 .. n -> Doubles]]
    BY <1>2, <1>5 DEF Square
  <2> HIDE DEF inverse, h
  <2>2. \A i \in 1 .. 2 * n : 1 + ((i - 1) \div h) \in {1, 2} /\ 1 + ((i - 1) % h) \in 1 .. n
    BY <1>1
  <2>3. ASSUME NEW i \in 1 .. 2 * n, NEW j \in 1 .. 2 * n
        PROVE  inverse[<<1 + ((i - 1) \div h), 1 + ((j - 1) \div h)>>]
                 [1 + ((i - 1) % h)][1 + ((j - 1) % h)] \in Doubles
    <3> DEFINE q == <<1 + ((i - 1) \div h), 1 + ((j - 1) \div h)>>
               k == 1 + ((i - 1) % h)
               l == 1 + ((j - 1) % h)
    <3>1. q \in Quarters /\ k \in 1 .. n /\ l \in 1 .. n
      BY <2>2 DEF Quarters
    <3> HIDE DEF q, k, l
    <3>2. inverse[q][k][l] \in Doubles
      BY <2>1, <3>1
    <3> QED
      BY <3>2 DEF q, k, l
  <2> QED
    BY <1>1, <2>3 DEF Matrix, Square
<1>6. ShiftedInverse(M) =
        CASE Vanishes(Quarter(M, 1, 1)) -> NULL
          [] \E q \in Quarters : inverse[q] = NULL /\ inverse[<<1, 1>>] # NULL -> CRASH
          [] OTHER -> S
  BY DEF ShiftedInverse
<1> HIDE DEF inverse, h, S
<1>7. inverse[<<1, 1>>] = NULL <=> Vanishes(Quarter(M, 1, 1))
  BY <1>3, <1>4
<1>8. NULL # CRASH /\ \A X \in Square(2 * n, Doubles) : X # CRASH
  <2>1. NULL # CRASH
    BY DEF NULL, CRASH
  <2>2. ASSUME NEW X \in Square(2 * n, Doubles)
        PROVE  X # CRASH
    <3>1. 2 \in DOMAIN X
      BY DEF Square
    <3>2. 2 \notin DOMAIN CRASH
      BY DEF CRASH
    <3> QED
      BY <3>1, <3>2
  <2> QED
    BY <2>1, <2>2
<1>9. CASE Vanishes(Quarter(M, 1, 1))
  BY <1>6, <1>7, <1>8, <1>9
<1>10. CASE ~Vanishes(Quarter(M, 1, 1)) /\ \E q \in Quarters : inverse[q] = NULL
  <2>1. ShiftedInverse(M) = CRASH
    BY <1>6, <1>7, <1>10
  <2>2. PICK q \in Quarters : inverse[q] = NULL
    BY <1>10
  <2>3. q # <<1, 1>> /\ Vanishes(Quarter(M, q[1], q[2]))
    BY <1>4, <1>7, <1>10, <2>2
  <2> QED
    BY <1>10, <2>1, <2>3
<1>11. CASE ~Vanishes(Quarter(M, 1, 1)) /\ \A q \in Quarters : inverse[q] # NULL
  BY <1>5, <1>6, <1>8, <1>11
<1> QED
  BY <1>9, <1>10, <1>11

(***************************************************************************)
(* The convolution.                                                        *)
(***************************************************************************)

Cell(M, i, j) == IF i \in 1 .. Size(M) /\ j \in 1 .. Size(M) THEN M[i][j][1] ELSE 0

\* What the kernel makes of the neighbours of a cell.
Six(M, i, j) ==
  Cell(M, i - 1, j) + Cell(M, i - 1, j + 1) - Cell(M, i, j - 1)
    - Cell(M, i, j + 1) - Cell(M, i + 1, j - 1) + Cell(M, i + 1, j)

\* Each cell of the convolution is a sum of six cells and of what malloc left.
LEMMA ConvolutionCells ==
  ASSUME NEW n \in Nat, NEW M \in Square(n, Int \X {1}), NEW heap \in Int
  PROVE  /\ \A i, j \in 1 .. n : Six(M, i, j) \in Int
         /\ Convolution(M, skewSymmetric, heap)
              = [i \in 1 .. n |-> [j \in 1 .. n |-> <<heap + Six(M, i, j), 1>>]]
<1>1. Size(M) = n /\ \A i, j \in 1 .. n : M[i][j] \in Int \X {1}
  BY SquareSize
<1>2. \A i, j : Cell(M, i, j) \in Int
  BY <1>1 DEF Cell
<1>3. \A i, j \in 1 .. n : Six(M, i, j) \in Int
  BY <1>2 DEF Six
<1> DEFINE Term(i, j, r, c) == IF i + r - 2 \in 1 .. Size(M) /\ j + c - 2 \in 1 .. Size(M)
                               THEN M[i + r - 2][j + c - 2][1] * skewSymmetric[4 - r][4 - c]
                               ELSE 0
           Row(i, j, r) == Term(i, j, r, 1) + Term(i, j, r, 2) + Term(i, j, r, 3)
<1>4. ASSUME NEW i \in 1 .. n, NEW j \in 1 .. n
      PROVE  /\ Row(i, j, 1) \in Int /\ Row(i, j, 2) \in Int /\ Row(i, j, 3) \in Int
             /\ Row(i, j, 1) + Row(i, j, 2) + Row(i, j, 3) = Six(M, i, j)
  <2>1. /\ skewSymmetric[1][1] = 0 /\ skewSymmetric[1][2] = 1 /\ skewSymmetric[1][3] = -1
        /\ skewSymmetric[2][1] = -1 /\ skewSymmetric[2][2] = 0 /\ skewSymmetric[2][3] = -1
        /\ skewSymmetric[3][1] = 1 /\ skewSymmetric[3][2] = 1 /\ skewSymmetric[3][3] = 0
    BY DEF skewSymmetric
  <2>2. \A r, c \in 1 .. 3 : Term(i, j, r, c) = Cell(M, i + r - 2, j + c - 2) * skewSymmetric[4 - r][4 - c]
    <3> SUFFICES ASSUME NEW r \in 1 .. 3, NEW c \in 1 .. 3
                 PROVE  Term(i, j, r, c) = Cell(M, i + r - 2, j + c - 2) * skewSymmetric[4 - r][4 - c]
      OBVIOUS
    <3>1. skewSymmetric[4 - r][4 - c] \in Int
      <4>1. 4 - r \in {1, 2, 3} /\ 4 - c \in {1, 2, 3}
        OBVIOUS
      <4> QED
        BY <2>1, <4>1
    <3> QED
      BY <1>1, <3>1 DEF Cell
  <2> HIDE DEF Term
  <2>3. /\ Cell(M, i - 1, j - 1) \in Int /\ Cell(M, i - 1, j) \in Int /\ Cell(M, i - 1, j + 1) \in Int
        /\ Cell(M, i, j - 1) \in Int /\ Cell(M, i, j) \in Int /\ Cell(M, i, j + 1) \in Int
        /\ Cell(M, i + 1, j - 1) \in Int /\ Cell(M, i + 1, j) \in Int /\ Cell(M, i + 1, j + 1) \in Int
    BY <1>2
  <2>4. Row(i, j, 1) = Cell(M, i - 1, j) + Cell(M, i - 1, j + 1)
    BY <2>1, <2>2, <2>3
  <2>5. Row(i, j, 2) = - Cell(M, i, j - 1) - Cell(M, i, j + 1)
    BY <2>1, <2>2, <2>3
  <2>6. Row(i, j, 3) = - Cell(M, i + 1, j - 1) + Cell(M, i + 1, j)
    BY <2>1, <2>2, <2>3
  <2> HIDE DEF Row
  <2> QED
    BY <2>3, <2>4, <2>5, <2>6 DEF Six
<1>5. ASSUME NEW i \in 1 .. n, NEW j \in 1 .. n
      PROVE  Fraction(heap + Row(i, j, 1) + Row(i, j, 2) + Row(i, j, 3), 1) = <<heap + Six(M, i, j), 1>>
  <2>1. heap + Row(i, j, 1) + Row(i, j, 2) + Row(i, j, 3) = heap + Six(M, i, j)
    <3>1. /\ Row(i, j, 1) \in Int /\ Row(i, j, 2) \in Int /\ Row(i, j, 3) \in Int
          /\ Row(i, j, 1) + Row(i, j, 2) + Row(i, j, 3) = Six(M, i, j)
      BY <1>4
    <3> HIDE DEF Row
    <3> QED
      BY <3>1
  <2>2. heap + Six(M, i, j) \in Int
    BY <1>3
  <2> HIDE DEF Row
  <2> QED
    BY <2>1, <2>2, FractionWhole
<1>6. Convolution(M, skewSymmetric, heap)
        = Matrix(Size(M), LAMBDA i, j : Fraction(heap + Row(i, j, 1) + Row(i, j, 2) + Row(i, j, 3), 1))
  BY DEF Convolution
<1> HIDE DEF Row
<1>7. Convolution(M, skewSymmetric, heap)
        = [i \in 1 .. n |-> [j \in 1 .. n |-> <<heap + Six(M, i, j), 1>>]]
  BY <1>1, <1>5, <1>6 DEF Matrix
<1> QED
  BY <1>3, <1>7

(***************************************************************************)
(* The invariant: what has been computed is a function of the matrix.      *)
(***************************************************************************)

Result1(M) ==
  IF ShiftedInverse(M) = NULL THEN Zero
  ELSE Minus(Determinant(M), Determinant(ShiftedInverse(M)))

Convolved(M) == [i \in 1 .. Size(M) |-> [j \in 1 .. Size(M) |-> Six(M, i, j)]]

StartInv ==
  pc = "generate" =>
    dbPtrPtrM = NULL /\ dbPtrPtrTemp = NULL /\ dbConvolution = NULL /\ dbResult1 = Zero

MatrixInv == pc # "generate" => dbPtrPtrM \in Generated /\ Accepted(dbPtrPtrM)

DeterminantInv ==
  pc \in {"shifted", "convolution", "crashed"} \/ dbConvolution # NULL =>
    dbDeterminant = Determinant(dbPtrPtrM)

ShiftedInv ==
  pc = "convolution" \/ dbConvolution # NULL =>
    /\ ShiftedInverse(dbPtrPtrM) # CRASH
    /\ dbPtrPtrTemp = ShiftedInverse(dbPtrPtrM)
    /\ dbResult1 = Result1(dbPtrPtrM)

FirstTurnInv ==
  pc \in {"determinant", "shifted"} /\ dbConvolution = NULL => dbResult1 = Zero

ConvolutionInv == dbConvolution # NULL => dbConvolution = Convolved(dbPtrPtrM)

CrashInv == pc = "crashed" => ShiftedInverse(dbPtrPtrM) = CRASH

ResultInv ==
  /\ StartInv /\ MatrixInv /\ DeterminantInv /\ ShiftedInv
  /\ FirstTurnInv /\ ConvolutionInv /\ CrashInv

\* What the server generates has an even size and whole numbers.
LEMMA GeneratedMatrix ==
  ASSUME NEW M \in Generated
  PROVE  \E n \in Nat \ {0} : /\ Size(M) = 2 * n
                              /\ M \in Square(2 * n, Int \X {1})
                              /\ M \in Square(2 * n, Doubles)
<1>1. /\ Size(M) \in Nat \ {0} /\ Size(M) % 2 = 0
      /\ M \in Square(Size(M), (-10 .. 10) \X {1})
  BY SeeWhatAssumption
<1>2. PICK n \in Nat \ {0} : Size(M) = 2 * n
  <2>1. Size(M) \div 2 \in Nat \ {0} /\ Size(M) = 2 * (Size(M) \div 2)
    BY <1>1
  <2> QED
    BY <2>1
<1>3. Int \X {1} \subseteq Doubles
  BY DEF Doubles
<1>4. M \in [1 .. 2 * n -> [1 .. 2 * n -> Int \X {1}]]
  <2>1. M \in [1 .. 2 * n -> [1 .. 2 * n -> (-10 .. 10) \X {1}]]
    BY <1>1, <1>2 DEF Square
  <2>2. (-10 .. 10) \X {1} \subseteq Int \X {1}
    OBVIOUS
  <2> QED
    BY <2>1, <2>2
<1>5. M \in [1 .. 2 * n -> [1 .. 2 * n -> Doubles]]
  BY <1>3, <1>4
<1> QED
  BY <1>2, <1>4, <1>5 DEF Square

\* What the operations return for the client's matrix.
LEMMA MatrixResults ==
  ASSUME NEW M \in Generated
  PROVE  /\ Determinant(M) \in Doubles
         /\ ShiftedInverse(M) \in {NULL, CRASH} \cup Square(Size(M), Doubles)
         /\ CRASH # NULL
         /\ ShiftedInverse(M) \notin {NULL, CRASH} => Determinant(ShiftedInverse(M)) \in Doubles
         /\ Convolved(M) \in Square(Size(M), Int) /\ Convolved(M) # NULL
         /\ \A heap \in Heap :
              LET C == Convolution(M, skewSymmetric, heap) IN
              /\ Matrix(Size(C), LAMBDA i, j : C[i][j][1] - heap) = Convolved(M)
              /\ Determinant(C) \in Doubles
<1>1. PICK n \in Nat \ {0} : /\ Size(M) = 2 * n
                             /\ M \in Square(2 * n, Int \X {1})
                             /\ M \in Square(2 * n, Doubles)
  BY GeneratedMatrix
<1>2. 2 * n \in Nat
  OBVIOUS
<1>3. Determinant(M) \in Doubles
  BY <1>1, <1>2, DeterminantType
<1>4. ShiftedInverse(M) \in {NULL, CRASH} \cup Square(2 * n, Doubles)
  BY <1>1, ShiftedInverseType
<1>5. ShiftedInverse(M) \notin {NULL, CRASH} => Determinant(ShiftedInverse(M)) \in Doubles
  BY <1>2, <1>4, DeterminantType
<1>6. CRASH # NULL
  BY DEF CRASH, NULL
<1>7. \A i, j \in 1 .. 2 * n : Six(M, i, j) \in Int
  <2>1. 0 \in Int
    OBVIOUS
  <2> QED
    BY <1>1, <1>2, <2>1, ConvolutionCells
<1>8. Convolved(M) \in Square(2 * n, Int)
  BY <1>1, <1>7 DEF Convolved, Square
<1>9. Convolved(M) # NULL
  <2>1. 1 \in DOMAIN Convolved(M) /\ 1 \notin DOMAIN NULL
    BY <1>1 DEF Convolved, NULL
  <2> QED
    BY <2>1
<1>10. ASSUME NEW heap \in Heap
      PROVE  LET C == Convolution(M, skewSymmetric, heap) IN
             /\ Matrix(Size(C), LAMBDA i, j : C[i][j][1] - heap) = Convolved(M)
             /\ Determinant(C) \in Doubles
  <2> DEFINE C == Convolution(M, skewSymmetric, heap)
  <2>1. heap \in Int
    <3>1. Limit \in Int
      BY SMT DEF Limit
    <3> QED
      BY <3>1, SeeWhatAssumption
  <2>2. C = [i \in 1 .. 2 * n |-> [j \in 1 .. 2 * n |-> <<heap + Six(M, i, j), 1>>]]
    BY <1>1, <1>2, <2>1, ConvolutionCells
  <2> HIDE DEF C
  <2>3. C \in Square(2 * n, Doubles)
    <3>1. \A i, j \in 1 .. 2 * n : <<heap + Six(M, i, j), 1>> \in Doubles
      BY <1>7, <2>1 DEF Doubles
    <3> QED
      BY <2>2, <3>1 DEF Square
  <2>4. Size(C) = 2 * n
    BY <1>2, <2>3, SquareSize
  <2>5. \A i, j \in 1 .. 2 * n : C[i][j][1] - heap = Six(M, i, j)
    <3>1. \A i, j \in 1 .. 2 * n : C[i][j][1] = heap + Six(M, i, j)
      BY <2>2
    <3> QED
      BY <1>7, <2>1, <3>1
  <2>6. Matrix(Size(C), LAMBDA i, j : C[i][j][1] - heap) = Convolved(M)
    BY <1>1, <2>4, <2>5 DEF Matrix, Convolved
  <2>7. Determinant(C) \in Doubles
    BY <1>2, <2>3, DeterminantType
  <2> QED
    BY <2>6, <2>7 DEF C
<1> QED
  BY <1>1, <1>3, <1>4, <1>5, <1>6, <1>8, <1>9, <1>10

\* At first nothing has been computed.
LEMMA ComputationStart == ComputationInit => ComputationTypeOK /\ ResultInv
BY DEF ComputationInit, ComputationTypeOK, ResultInv, StartInv, MatrixInv, DeterminantInv,
       ShiftedInv, FirstTurnInv, ConvolutionInv, CrashInv, Doubles, NaN, Zero

\* One step keeps the types and the results.
LEMMA ComputationStep ==
  ComputationTypeOK /\ ResultInv /\ [ComputationNext]_computationVars =>
    ComputationTypeOK' /\ ResultInv'
<1> SUFFICES ASSUME ComputationTypeOK, ResultInv, [ComputationNext]_computationVars
             PROVE  ComputationTypeOK' /\ ResultInv'
  OBVIOUS
<1> USE DEF ResultInv, StartInv, MatrixInv, DeterminantInv, ShiftedInv, FirstTurnInv,
            ConvolutionInv, CrashInv
<1>1. ASSUME NEW M \in Generated, Generate(M)
      PROVE  ComputationTypeOK' /\ ResultInv'
  BY <1>1 DEF Generate, ComputationTypeOK
<1>2. CASE ComputeDeterminant
  <2>1. dbPtrPtrM \in Generated
    BY <1>2 DEF ComputeDeterminant
  <2> QED
    BY <1>2, <2>1, MatrixResults DEF ComputeDeterminant, ComputationTypeOK
<1>3. CASE ComputeShifted
  <2> DEFINE M == dbPtrPtrM
             S == ShiftedInverse(M)
  <2>1. M \in Generated /\ pc = "shifted"
    BY <1>3 DEF ComputeShifted, Shift
  <2>2. /\ S \in {NULL, CRASH} \cup Square(Size(M), Doubles) /\ CRASH # NULL
        /\ S \notin {NULL, CRASH} => Determinant(S) \in Doubles
    BY <2>1, MatrixResults
  <2>3. CASE S = CRASH
    BY <1>3, <2>1, <2>3 DEF ComputeShifted, Shift, ComputationTypeOK
  <2>4. CASE S # CRASH
    <3>1. /\ pc' = "convolution" /\ dbPtrPtrM' = M /\ dbPtrPtrTemp' = S
          /\ dbResult1' = IF S = NULL THEN dbResult1 ELSE Minus(dbDeterminant, Determinant(S))
          /\ UNCHANGED <<dbDeterminant, dbConvolution, dbResult2>>
      BY <1>3, <2>4 DEF ComputeShifted, Shift
    <3>2. dbResult1' \in Doubles
      BY <2>2, <2>4, <3>1, ArithmeticType DEF ComputationTypeOK
    <3>3. dbResult1' = Result1(M)
      BY <2>1, <3>1 DEF Result1
    <3>4. ComputationTypeOK'
      BY <2>1, <2>2, <2>4, <3>1, <3>2 DEF ComputationTypeOK
    <3> QED
      BY <2>1, <2>4, <3>1, <3>3, <3>4
  <2> QED
    BY <2>3, <2>4
<1>4. ASSUME NEW heap \in Heap, ComputeConvolution(heap)
      PROVE  ComputationTypeOK' /\ ResultInv'
  <2> DEFINE M == dbPtrPtrM
             C == Convolution(M, skewSymmetric, heap)
  <2>1. M \in Generated /\ pc = "convolution"
    BY <1>4 DEF ComputeConvolution, Convolve
  <2>2. /\ dbConvolution' = Matrix(Size(C), LAMBDA i, j : C[i][j][1] - heap)
        /\ dbResult2' = Minus(dbDeterminant, Determinant(C))
        /\ pc' = "determinant"
        /\ UNCHANGED <<dbPtrPtrM, dbDeterminant, dbPtrPtrTemp, dbResult1>>
    BY <1>4 DEF ComputeConvolution, Convolve
  <2>3. /\ Matrix(Size(C), LAMBDA i, j : C[i][j][1] - heap) = Convolved(M)
        /\ Determinant(C) \in Doubles
        /\ Convolved(M) \in Square(Size(M), Int) /\ Convolved(M) # NULL
    BY <2>1, MatrixResults
  <2> HIDE DEF C
  <2>4. dbConvolution' = Convolved(M) /\ dbResult2' \in Doubles
    BY <2>2, <2>3, ArithmeticType DEF ComputationTypeOK
  <2>5. ComputationTypeOK'
    BY <2>1, <2>2, <2>3, <2>4 DEF ComputationTypeOK
  <2>6. StartInv' /\ FirstTurnInv' /\ CrashInv'
    BY <2>2, <2>3, <2>4
  <2>7. MatrixInv' /\ DeterminantInv' /\ ShiftedInv'
    BY <2>1, <2>2
  <2>8. ConvolutionInv'
    BY <2>2, <2>4
  <2> QED
    BY <2>5, <2>6, <2>7, <2>8
<1>5. CASE UNCHANGED computationVars
  BY <1>5 DEF computationVars, ComputationTypeOK
<1> QED
  BY <1>1, <1>2, <1>3, <1>4, <1>5 DEF ComputationNext

(***************************************************************************)
(* The theorems.                                                           *)
(***************************************************************************)

\* The types and the results hold in every reachable state.
LEMMA ComputationInvariant == Computation => [](ComputationTypeOK /\ ResultInv)
BY ComputationStart, ComputationStep, PTL DEF Computation

\* Every value the client computes is a fraction with a positive denominator or
\* NaN, and every matrix has the size of the one it received.
THEOREM ComputationTypeCorrect == Computation => []ComputationTypeOK
BY ComputationInvariant, PTL

\* The loops of convolution give every cell the sum over its six neighbours.
THEOREM ConvolutionIsExact == Computation => []ConvolutionExact
<1>1. ComputationTypeOK /\ ResultInv => ConvolutionExact
  <2> SUFFICES ASSUME ResultInv, pc = "determinant", dbConvolution # NULL
               PROVE  \A i, j \in 1 .. Size(dbPtrPtrM) :
                        dbConvolution[i][j] = Six(dbPtrPtrM, i, j)
    BY DEF ConvolutionExact, Six, Cell
  <2>1. dbConvolution = Convolved(dbPtrPtrM)
    BY DEF ResultInv, ConvolutionInv
  <2> QED
    BY <2>1 DEF Convolved
<1> QED
  BY <1>1, ComputationInvariant, PTL

\* Every turn of the client's loop computes what the first one did, since before
\* and after it everything is a function of the matrix.
THEOREM ResultsAreTheSame == Computation => SameEveryTime
<1> DEFINE Same == /\ dbDeterminant' = dbDeterminant
                   /\ dbPtrPtrTemp' = dbPtrPtrTemp
                   /\ dbResult1' = dbResult1
                   /\ dbConvolution' = dbConvolution
<1>1. ComputationTypeOK /\ ResultInv /\ [ComputationNext]_computationVars
        => [dbConvolution # NULL => Same]_computationVars
  <2> SUFFICES ASSUME ComputationTypeOK, ResultInv, ComputationNext, dbConvolution # NULL
               PROVE  Same
    OBVIOUS
  <2>1. ResultInv'
    BY ComputationStep
  <2>2. dbPtrPtrM' = dbPtrPtrM
    BY DEF ResultInv, StartInv, ComputationNext, Generate, ComputeDeterminant, ComputeShifted,
           Shift, ComputeConvolution, Convolve
  <2>3. dbConvolution' = dbConvolution
    <3>1. ASSUME NEW heap \in Heap, ComputeConvolution(heap)
          PROVE  dbConvolution' = dbConvolution
      <4>1. dbPtrPtrM \in Generated
        BY <3>1 DEF ResultInv, MatrixInv, ComputeConvolution, Convolve
      <4>2. dbConvolution' = Convolved(dbPtrPtrM)
        BY <3>1, <4>1, MatrixResults DEF ComputeConvolution, Convolve
      <4> QED
        BY <4>2 DEF ResultInv, ConvolutionInv
    <3>2. CASE ~\E heap \in Heap : ComputeConvolution(heap)
      BY <3>2 DEF ComputationNext, Generate, ComputeDeterminant, ComputeShifted, Shift
    <3> QED
      BY <3>1, <3>2
  <2> QED
    BY <2>1, <2>2, <2>3 DEF ResultInv, DeterminantInv, ShiftedInv
<1> QED
  BY <1>1, ComputationInvariant, PTL DEF Computation, SameEveryTime

\* When the shifted inverse of a generated matrix crashes.
LEMMA CrashingQuarter ==
  ASSUME NEW M \in Generated, ShiftedInverse(M) = CRASH
  PROVE  /\ ~Vanishes(Quarter(M, 1, 1))
         /\ \E q \in Quarters \ {<<1, 1>>} : Vanishes(Quarter(M, q[1], q[2]))
<1>1. PICK n \in Nat \ {0} : /\ Size(M) = 2 * n
                             /\ M \in Square(2 * n, Int \X {1})
                             /\ M \in Square(2 * n, Doubles)
  BY GeneratedMatrix
<1> QED
  BY <1>1, ShiftedInverseType

\* The client dies only where a quarter other than the first has the determinant 0.0,
\* and the first has not: the one whose determinant shiftedInverse tests four times.
THEOREM CrashesOfAnotherQuarter ==
  Computation => [](pc = "crashed" =>
    /\ ~Vanishes(Quarter(dbPtrPtrM, 1, 1))
    /\ \E q \in Quarters \ {<<1, 1>>} : Vanishes(Quarter(dbPtrPtrM, q[1], q[2])))
<1>1. ComputationTypeOK /\ ResultInv =>
        (pc = "crashed" =>
          /\ ~Vanishes(Quarter(dbPtrPtrM, 1, 1))
          /\ \E q \in Quarters \ {<<1, 1>>} : Vanishes(Quarter(dbPtrPtrM, q[1], q[2])))
  BY CrashingQuarter DEF ResultInv, MatrixInv, CrashInv
<1> QED
  BY <1>1, ComputationInvariant, PTL

\* In a matrix of four rows that quarter is singular, its a * d being its b * c, or
\* its determinant has been rounded.
THEOREM CrashOfFourRows ==
  Computation => [](pc = "crashed" /\ Size(dbPtrPtrM) = 4 =>
    \E q \in Quarters \ {<<1, 1>>} :
      LET Q == Quarter(dbPtrPtrM, q[1], q[2])
      IN  Determinant(Q) = Inexact \/ Q[1][1][1] * Q[2][2][1] = Q[1][2][1] * Q[2][1][1])
<1>1. ASSUME NEW M \in Square(2, Int \X {1}), Vanishes(M), Determinant(M) # Inexact
      PROVE  M[1][1][1] * M[2][2][1] = M[1][2][1] * M[2][1][1]
  <2>1. PICK a \in Int, b \in Int, c \in Int, d \in Int :
          /\ a = M[1][1][1] /\ b = M[1][2][1] /\ c = M[2][1][1] /\ d = M[2][2][1]
          /\ M = <<<<<<a, 1>>, <<b, 1>>>>, <<<<c, 1>>, <<d, 1>>>>>>
    <3>1. \A x \in Int \X {1} : x = <<x[1], 1>> /\ x[1] \in Int
      OBVIOUS
    <3>2. M = <<<<M[1][1], M[1][2]>>, <<M[2][1], M[2][2]>>>>
      BY DEF Square
    <3>3. \A i, j \in 1 .. 2 : M[i][j] \in Int \X {1}
      BY DEF Square
    <3> QED
      BY <3>1, <3>2, <3>3
  <2>2. (IF a = 0 /\ (c = 0 \/ d = 0) THEN NaN ELSE <<a * d - b * c, 1>>) = Zero
    <3> DEFINE N == <<<<<<a, 1>>, <<b, 1>>>>, <<<<c, 1>>, <<d, 1>>>>>>
    <3>1. Determinant(N) \in {Inexact, IF a = 0 /\ (c = 0 \/ d = 0) THEN NaN ELSE <<a * d - b * c, 1>>}
      BY DeterminantOfTwo
    <3>2. Determinant(N) = Zero /\ Determinant(N) # Inexact
      <4>1. M = N
        BY <2>1
      <4> HIDE DEF N
      <4> QED
        BY <1>1, <4>1 DEF Vanishes
    <3> QED
      BY <3>1, <3>2
  <2>3. a * d - b * c = 0
    BY <2>2 DEF NaN, Zero
  <2>4. a * d = b * c
    BY <2>3
  <2> QED
    BY <2>1, <2>4, Zenon
<1>2. ASSUME NEW M \in Generated, Size(M) = 4, NEW q \in Quarters
      PROVE  Quarter(M, q[1], q[2]) \in Square(2, Int \X {1})
  <2>1. M \in Square(2 * 2, Int \X {1})
    <3>1. PICK n \in Nat \ {0} : Size(M) = 2 * n /\ M \in Square(2 * n, Int \X {1})
      BY GeneratedMatrix
    <3>2. n = 2
      BY <1>2, <3>1
    <3> QED
      BY <3>1, <3>2
  <2> QED
    BY <2>1, QuarterType
<1>3. ComputationTypeOK /\ ResultInv =>
        (pc = "crashed" /\ Size(dbPtrPtrM) = 4 =>
          \E q \in Quarters \ {<<1, 1>>} :
            LET Q == Quarter(dbPtrPtrM, q[1], q[2])
            IN  Determinant(Q) = Inexact \/ Q[1][1][1] * Q[2][2][1] = Q[1][2][1] * Q[2][1][1])
  <2> SUFFICES ASSUME ResultInv, pc = "crashed", Size(dbPtrPtrM) = 4
               PROVE  \E q \in Quarters \ {<<1, 1>>} :
                        LET Q == Quarter(dbPtrPtrM, q[1], q[2])
                        IN  Determinant(Q) = Inexact \/ Q[1][1][1] * Q[2][2][1] = Q[1][2][1] * Q[2][1][1]
    OBVIOUS
  <2>1. dbPtrPtrM \in Generated /\ ShiftedInverse(dbPtrPtrM) = CRASH
    BY DEF ResultInv, MatrixInv, CrashInv
  <2>2. PICK q \in Quarters \ {<<1, 1>>} : Vanishes(Quarter(dbPtrPtrM, q[1], q[2]))
    BY <2>1, CrashingQuarter
  <2>3. Quarter(dbPtrPtrM, q[1], q[2]) \in Square(2, Int \X {1})
    BY <1>2, <2>1, <2>2
  <2> QED
    BY <1>1, <2>2, <2>3
<1> QED
  BY <1>3, ComputationInvariant, PTL
=============================================================================
