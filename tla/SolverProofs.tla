---------------------------- MODULE SolverProofs ----------------------------
(***************************************************************************)
(* Theorems about Solver, for any number of clients, methods and signals.  *)
(***************************************************************************)
EXTENDS Solver, TLAPS

(***************************************************************************)
(* The invariant.                                                          *)
(***************************************************************************)

Begun(r) == tpc[r] \notin {"absent", "read"}
Forking(r) == tpc[r] \in Stages

\* The processes of a request exist when its thread has forked them, have
\* ended when it has, and run only while the server does.
StageInv ==
  /\ \A r \in Clients :
       /\ ~Begun(r) => \A p \in Stages : ppc[r][p] = "absent"
       /\ tpc[r] \in {"P2", "P3", "wait"} => ppc[r]["P1"] # "absent"
       /\ tpc[r] \in {"P3", "wait"} => ppc[r]["P2"] # "absent"
       /\ tpc[r] = "wait" => ppc[r]["P3"] # "absent"
  /\ NoStrayProcess

\* A segment's identifier is known to threads and processes of another
\* request only if both requests met another one.
SegmentInv ==
  /\ shmID # None => Begun(shmID)
  /\ \A r \in Clients : Forking(r) => shmID # None /\ (shmID # r => {r, shmID} \subseteq overlapped)
  /\ \A r \in Clients, p \in Stages :
       /\ Running(r, p) => attached[r][p] # None
       /\ attached[r][p] # None =>
            /\ Begun(attached[r][p])
            /\ attached[r][p] # r => {r, attached[r][p]} \subseteq overlapped

\* A thread that could not read its request cannot answer either: its
\* connection is closed or its client has gone.
ArgInv ==
  \A r \in Clients :
    /\ Begun(r) => arg[r] = r \/ (arg[r] = Garbage /\ (r \in closed \/ cpc[r] = "gone"))
    /\ answers[r] => Begun(r) /\ (arg[r] = r \/ cpc[r] = "gone")

\* A request alone in the server finds in its segment what it has put there.
OwnInv ==
  /\ \A r \in Clients \ overlapped :
       /\ segment[r].arg # None => Begun(r) /\ segment[r].arg = arg[r]
       /\ errors[r].arg # None => Begun(r) /\ errors[r].arg = arg[r]
  /\ OwnWhenAlone

IInv == TypeOK /\ StageInv /\ SegmentInv /\ ArgInv /\ OwnInv

\* Names are told apart from the absence of one.
LEMMA NamesDiffer ==
  /\ None \notin Clients /\ Garbage \notin Clients /\ None # Garbage
  /\ Empty \in Contents /\ Empty.arg = None
BY SolverAssumption DEF Empty, Contents, Args

\* Nothing has been asked.
LEMMA InvInit == Init => IInv
<1> SUFFICES ASSUME Init PROVE IInv
  OBVIOUS
<1>1. TypeOK
  BY NamesDiffer, SolverAssumption DEF Init, TypeOK, Args
<1>2. StageInv /\ SegmentInv /\ ArgInv
  BY
  DEF Init, StageInv, SegmentInv, ArgInv, NoStrayProcess, Running, Begun, Forking, Stages
<1>3. OwnInv
  BY NamesDiffer DEF Init, OwnInv, OwnWhenAlone
<1> QED
  BY <1>1, <1>2, <1>3 DEF IInv


(***************************************************************************)
(* Steps.                                                                  *)
(***************************************************************************)

\* A method changes solutions only, and its process goes on or ends.
LEMMA SolveStep ==
  ASSUME NEW r \in Clients, NEW m \in Methods, P2Solve(r, m)
  PROVE  /\ \E X : /\ segment[attached[r]["P2"]].x \subseteq Methods => X \subseteq Methods
                   /\ segment' = [segment EXCEPT ![attached[r]["P2"]].x = X]
         /\ \/ UNCHANGED <<ppc, attached>>
            \/ /\ ppc' = [ppc EXCEPT ![r]["P2"] = "exited"]
               /\ attached' = [attached EXCEPT ![r]["P2"] = None]
<1> DEFINE s == attached[r]["P2"]
<1>1. PICK n : segment' = [segment EXCEPT ![s].x = Copied(@, m, n)]
  BY DEF P2Solve
<1>2. segment' = [segment EXCEPT ![s].x = Copied(segment[s].x, m, n)]
  BY <1>1
<1>3. segment[s].x \subseteq Methods => Copied(segment[s].x, m, n) \subseteq Methods
  BY DEF Copied
<1>4. \/ UNCHANGED <<ppc, attached>>
      \/ /\ ppc' = [ppc EXCEPT ![r]["P2"] = "exited"]
         /\ attached' = [attached EXCEPT ![r]["P2"] = None]
  BY DEF P2Solve, Exit
<1> QED
  BY <1>2, <1>3, <1>4

\* Every variable keeps its type: a process that runs has a segment.
LEMMA TypeStep == TypeOK /\ SegmentInv /\ [Next]_vars => TypeOK'
<1> SUFFICES ASSUME TypeOK, SegmentInv, [Next]_vars PROVE TypeOK'
  OBVIOUS
<1> USE DEF clientVars, mainVars, globals, threadVars, procVars
<1>1. ASSUME NEW c \in Clients, Connect(c) PROVE TypeOK'
  BY <1>1, NamesDiffer, SolverAssumption
  DEF TypeOK, SegmentInv, Stages, Args, Running, Connect
<1>2. ASSUME NEW c \in Clients, ConnectFails(c) PROVE TypeOK'
  BY <1>2, NamesDiffer, SolverAssumption
  DEF TypeOK, SegmentInv, Stages, Args, Running, ConnectFails, ExitClients
<1>3. ASSUME NEW c \in Clients, WriteRequest(c) PROVE TypeOK'
  BY <1>3, NamesDiffer, SolverAssumption
  DEF TypeOK, SegmentInv, Stages, Args, Running, WriteRequest
<1>4. ASSUME NEW c \in Clients, ReadNothing(c) PROVE TypeOK'
  BY <1>4, NamesDiffer, SolverAssumption
  DEF TypeOK, SegmentInv, Stages, Args, Running, ReadNothing
<1>5. ASSUME NEW c \in Clients, Accept(c) PROVE TypeOK'
  BY <1>5, NamesDiffer, SolverAssumption
  DEF TypeOK, SegmentInv, Stages, Args, Running, Accept
<1>6. CASE AcceptFails
  BY <1>6, NamesDiffer, SolverAssumption
  DEF TypeOK, SegmentInv, Stages, Args, Running, AcceptFails
<1>7. CASE Join
  BY <1>7, NamesDiffer, SolverAssumption
  DEF TypeOK, SegmentInv, Stages, Args, Running, Join
<1>8. CASE SigInt
  <2>1. signals' \in 0 .. MaxSignals
    BY <1>8, SolverAssumption DEF TypeOK, SigInt
  <2>2. mpc' \in {"accept", "join", "returned", "failed", "killed"}
    <3>1. mpc' \in {"killed", "accept", "join", mpc}
      BY <1>8 DEF SigInt
    <3> QED
      BY <3>1 DEF TypeOK
  <2>3. cpc' \in [Clients -> {"absent", "write", "read", "done", "gone"}]
    BY <1>8 DEF TypeOK, SigInt, ExitClients
  <2>4. closed' \subseteq Clients /\ listening' \in BOOLEAN
    BY <1>8 DEF TypeOK, SigInt
  <2> QED
    BY <1>8, <2>1, <2>2, <2>3, <2>4 DEF TypeOK, SigInt
<1>9. ASSUME NEW r \in Clients, ReadRequest(r) PROVE TypeOK'
  BY <1>9, NamesDiffer, SolverAssumption
  DEF TypeOK, SegmentInv, Stages, Args, Running, ReadRequest, BeginRequest, Active
<1>10. ASSUME NEW r \in Clients, ReadRequestFails(r) PROVE TypeOK'
  BY <1>10, NamesDiffer, SolverAssumption
  DEF TypeOK, SegmentInv, Stages, Args, Running, ReadRequestFails, BeginRequest, Active
<1>11. ASSUME NEW r \in Clients, NEW p \in Stages, Fork(r, p) PROVE TypeOK'
  BY <1>11, NamesDiffer, SolverAssumption
  DEF TypeOK, SegmentInv, Stages, Args, Running, Fork, After
<1>12. ASSUME NEW r \in Clients, Finish(r) PROVE TypeOK'
  BY <1>12, NamesDiffer, SolverAssumption
  DEF TypeOK, SegmentInv, Stages, Args, Running, Finish
<1>13. ASSUME NEW r \in Clients, P1Generate(r) PROVE TypeOK'
  <2>1. [arg |-> arg[r], x |-> {}] \in Contents
    BY DEF TypeOK, Contents
  <2>2. segment' \in [Clients -> Contents]
    BY <1>13, <2>1 DEF TypeOK, P1Generate
  <2> QED
    BY <1>13, <2>2 DEF TypeOK, P1Generate, Exit, Stages
<1>14. ASSUME NEW r \in Clients, NEW m \in Methods, P2Solve(r, m) PROVE TypeOK'
  <2> DEFINE s == attached[r]["P2"]
  <2>1. s \in Clients
    BY <1>14 DEF TypeOK, SegmentInv, Stages, P2Solve
  <2>2. PICK X : /\ segment[s].x \subseteq Methods => X \subseteq Methods
                 /\ segment' = [segment EXCEPT ![s].x = X]
    BY <1>14, SolveStep
  <2>3. segment' \in [Clients -> Contents]
    <3>1. segment[s] \in Contents
      BY <2>1 DEF TypeOK
    <3>2. [segment[s] EXCEPT !.x = X] \in Contents
      BY <2>2, <3>1 DEF Contents
    <3> QED
      BY <2>1, <2>2, <3>2 DEF TypeOK
  <2>4. ran' \in [Clients -> SUBSET Methods]
    <3>1. \/ ran' = [ran EXCEPT ![r] = {}]
          \/ ran' = [ran EXCEPT ![r] = @ \cup {m}]
      BY <1>14 DEF P2Solve
    <3> QED
      BY <3>1 DEF TypeOK
  <2>5. /\ ppc' \in [Clients -> [Stages -> {"absent", "run", "verified", "exited"}]]
        /\ attached' \in [Clients -> [Stages -> Clients \cup {None}]]
    <3>1. \/ UNCHANGED <<ppc, attached>>
          \/ /\ ppc' = [ppc EXCEPT ![r]["P2"] = "exited"]
             /\ attached' = [attached EXCEPT ![r]["P2"] = None]
      BY <1>14, SolveStep
    <3>2. CASE UNCHANGED <<ppc, attached>>
      BY <3>2 DEF TypeOK
    <3>3. CASE ~UNCHANGED <<ppc, attached>>
      <4>1. /\ ppc' = [ppc EXCEPT ![r]["P2"] = "exited"]
            /\ attached' = [attached EXCEPT ![r]["P2"] = None]
        BY <3>1, <3>3
      <4>2. /\ ppc \in [Clients -> [Stages -> {"absent", "run", "verified", "exited"}]]
            /\ attached \in [Clients -> [Stages -> Clients \cup {None}]]
        BY DEF TypeOK
      <4>3. ppc' \in [Clients -> [Stages -> {"absent", "run", "verified", "exited"}]]
        BY <4>1, <4>2 DEF Stages
      <4>4. attached' \in [Clients -> [Stages -> Clients \cup {None}]]
        BY <4>1, <4>2 DEF Stages
      <4> QED
        BY <4>3, <4>4
    <3> QED
      BY <3>2, <3>3
  <2> QED
    BY <1>14, <2>3, <2>4, <2>5 DEF TypeOK, P2Solve
<1>15. ASSUME NEW r \in Clients, P3Verify(r) PROVE TypeOK'
  BY <1>15, NamesDiffer, SolverAssumption
  DEF TypeOK, SegmentInv, Stages, Args, Running, P3Verify
<1>16. ASSUME NEW r \in Clients, P3Answer(r) PROVE TypeOK'
  <2> DEFINE s == segment[attached[r]["P3"]]
              R == [arg : Args, errors : Args]
  <2>1. attached[r]["P3"] \in Clients
    BY <1>16 DEF TypeOK, SegmentInv, Stages, Running, P3Answer
  <2>2. s.arg \in Args /\ errors[r].arg \in Args
    BY <2>1 DEF TypeOK, Contents
  <2>3. [arg |-> s.arg, errors |-> errors[r].arg] \in R
    BY <2>2
  <2>4. reply' \in [Clients -> {None} \cup R]
    BY <1>16, <2>3 DEF TypeOK, P3Answer
  <2>5. cpc' \in [Clients -> {"absent", "write", "read", "done", "gone"}]
    <3>1. cpc' = cpc \/ cpc' = [cpc EXCEPT ![r] = "done"]
      BY <1>16 DEF P3Answer
    <3> QED
      BY <3>1 DEF TypeOK
  <2> QED
    BY <1>16, <2>4, <2>5, NamesDiffer DEF TypeOK, P3Answer, Exit, Stages
<1>17. ASSUME NEW r \in Clients, NEW p \in Stages, Crash(r, p) PROVE TypeOK'
  BY <1>17, NamesDiffer, SolverAssumption
  DEF TypeOK, SegmentInv, Stages, Args, Running, Crash, Exit
<1>18. CASE UNCHANGED vars
  BY <1>18 DEF TypeOK, SegmentInv, Stages, Args, Running, vars
<1> QED
  BY <1>1, <1>2, <1>3, <1>4, <1>5, <1>6, <1>7, <1>8, <1>9,
     <1>10, <1>11, <1>12, <1>13, <1>14, <1>15, <1>16, <1>17, <1>18
  DEF Next, Step, ClientStep, MainStep, ThreadStep, ProcessStep


\* A thread ends when no process runs, and main when no thread does.
LEMMA StageStep == TypeOK /\ StageInv /\ [Next]_vars => StageInv'
<1> SUFFICES ASSUME TypeOK, StageInv, [Next]_vars PROVE StageInv'
  OBVIOUS
<1> USE DEF clientVars, mainVars, globals, threadVars, procVars
<1>0. TypeOK /\ Stages = {"P1", "P2", "P3"}
  BY DEF Stages
<1>1. ASSUME NEW c \in Clients, Connect(c) PROVE StageInv'
  BY <1>1, <1>0
  DEF StageInv, NoStrayProcess, Running, Begun, ServerUp, Connect
<1>2. ASSUME NEW c \in Clients, ConnectFails(c) PROVE StageInv'
  BY <1>2, <1>0
  DEF StageInv, NoStrayProcess, Running, Begun, ServerUp, ConnectFails, ExitClients
<1>3. ASSUME NEW c \in Clients, WriteRequest(c) PROVE StageInv'
  BY <1>3, <1>0
  DEF StageInv, NoStrayProcess, Running, Begun, ServerUp, WriteRequest
<1>4. ASSUME NEW c \in Clients, ReadNothing(c) PROVE StageInv'
  BY <1>4, <1>0
  DEF StageInv, NoStrayProcess, Running, Begun, ServerUp, ReadNothing
<1>5. ASSUME NEW c \in Clients, Accept(c) PROVE StageInv'
  BY <1>5, <1>0
  DEF StageInv, NoStrayProcess, Running, Begun, ServerUp, Accept
<1>6. CASE AcceptFails
  BY <1>6, <1>0
  DEF StageInv, NoStrayProcess, Running, Begun, ServerUp, AcceptFails
<1>7. CASE Join
  BY <1>7, <1>0
  DEF StageInv, NoStrayProcess, Running, Begun, ServerUp, Join
<1>8. CASE SigInt
  BY <1>8, <1>0
  DEF StageInv, NoStrayProcess, Running, Begun, ServerUp, SigInt, ExitClients
<1>9. ASSUME NEW r \in Clients, ReadRequest(r) PROVE StageInv'
  BY <1>9, <1>0
  DEF StageInv, NoStrayProcess, Running, Begun, ServerUp, ReadRequest, BeginRequest,
      Active
<1>10. ASSUME NEW r \in Clients, ReadRequestFails(r) PROVE StageInv'
  BY <1>10, <1>0
  DEF StageInv, NoStrayProcess, Running, Begun, ServerUp, ReadRequestFails, BeginRequest,
      Active
<1>11. ASSUME NEW r \in Clients, NEW p \in Stages, Fork(r, p) PROVE StageInv'
  <2>1. /\ tpc[r] = p /\ ServerUp /\ mpc' = mpc
        /\ ppc' = [ppc EXCEPT ![r][p] = "run"]
        /\ tpc' = [tpc EXCEPT ![r] = After(p)]
    BY <1>11 DEF Fork
  <2>2. /\ After("P1") = "P2" /\ After("P2") = "P3" /\ After("P3") = "wait"
    BY DEF After
  <2>3. \A s \in Clients : s # r => tpc'[s] = tpc[s] /\ ppc'[s] = ppc[s]
    BY <1>0, <2>1 DEF TypeOK
  <2>4. \A q \in Stages : ppc'[r][q] = IF q = p THEN "run" ELSE ppc[r][q]
    BY <1>0, <2>1 DEF TypeOK
  <2>5. tpc'[r] = After(p) /\ p \in {"P1", "P2", "P3"}
    BY <1>0, <2>1 DEF TypeOK
  <2> QED
    BY <1>0, <2>1, <2>2, <2>3, <2>4, <2>5 DEF StageInv, NoStrayProcess, Begun, ServerUp
<1>12. ASSUME NEW r \in Clients, Finish(r) PROVE StageInv'
  <2>1. /\ tpc[r] = "wait" /\ ServerUp /\ UNCHANGED <<mpc, ppc>>
        /\ tpc' = [tpc EXCEPT ![r] = "done"]
        /\ \A s \in Clients, p \in Stages : ~Running(s, p)
    BY <1>12 DEF Finish
  <2>2. \A p \in Stages : ppc[r][p] = "exited"
    BY <1>0, <2>1 DEF StageInv, Running, TypeOK
  <2> QED
    BY <1>0, <2>1, <2>2 DEF StageInv, NoStrayProcess, Begun, ServerUp, TypeOK
<1>13. ASSUME NEW r \in Clients, P1Generate(r) PROVE StageInv'
  BY <1>13, <1>0
  DEF StageInv, NoStrayProcess, Running, Begun, ServerUp, P1Generate, Exit
<1>14. ASSUME NEW r \in Clients, NEW m \in Methods, P2Solve(r, m) PROVE StageInv'
  <2>1. Running(r, "P2") /\ UNCHANGED <<mpc, tpc>>
    BY <1>14 DEF P2Solve
  <2>2. ppc' = [ppc EXCEPT ![r]["P2"] = "exited"] \/ ppc' = ppc
    BY <1>14, SolveStep
  <2>3. CASE ppc' = ppc
    BY <1>0, <2>1, <2>3 DEF StageInv, NoStrayProcess, Running, Begun
  <2>4. CASE ppc' = [ppc EXCEPT ![r]["P2"] = "exited"]
    <3>1. \A t \in Clients, q \in Stages :
            ppc'[t][q] = IF t = r /\ q = "P2" THEN "exited" ELSE ppc[t][q]
      BY <1>0, <2>4 DEF TypeOK
    <3> QED
      BY <1>0, <2>1, <3>1 DEF StageInv, NoStrayProcess, Running, Begun
  <2> QED
    BY <2>2, <2>3, <2>4
<1>15. ASSUME NEW r \in Clients, P3Verify(r) PROVE StageInv'
  BY <1>15, <1>0
  DEF StageInv, NoStrayProcess, Running, Begun, ServerUp, P3Verify
<1>16. ASSUME NEW r \in Clients, P3Answer(r) PROVE StageInv'
  BY <1>16, <1>0
  DEF StageInv, NoStrayProcess, Running, Begun, ServerUp, P3Answer, Exit
<1>17. ASSUME NEW r \in Clients, NEW p \in Stages, Crash(r, p) PROVE StageInv'
  BY <1>17, <1>0
  DEF StageInv, NoStrayProcess, Running, Begun, ServerUp, Crash, Exit
<1>18. CASE UNCHANGED vars
  BY <1>18 DEF StageInv, NoStrayProcess, Running, Begun, ServerUp, vars
<1> QED
  BY <1>1, <1>2, <1>3, <1>4, <1>5, <1>6, <1>7, <1>8, <1>9,
     <1>10, <1>11, <1>12, <1>13, <1>14, <1>15, <1>16, <1>17, <1>18
  DEF Next, Step, ClientStep, MainStep, ThreadStep, ProcessStep


\* Only a request that begins while another one is active takes its segment
\* out of the other's hands.
LEMMA SegmentStep == TypeOK /\ StageInv /\ SegmentInv /\ [Next]_vars => SegmentInv'
<1> SUFFICES ASSUME TypeOK, StageInv, SegmentInv, [Next]_vars PROVE SegmentInv'
  OBVIOUS
<1> USE DEF clientVars, mainVars, globals, threadVars, procVars
<1>1. ASSUME NEW c \in Clients, Connect(c) PROVE SegmentInv'
  BY <1>1, NamesDiffer
  DEF SegmentInv, TypeOK, StageInv, Running, Begun, Forking, Stages, Connect
<1>2. ASSUME NEW c \in Clients, ConnectFails(c) PROVE SegmentInv'
  BY <1>2, NamesDiffer
  DEF SegmentInv, TypeOK, StageInv, Running, Begun, Forking, Stages, ConnectFails,
      ExitClients
<1>3. ASSUME NEW c \in Clients, WriteRequest(c) PROVE SegmentInv'
  BY <1>3, NamesDiffer
  DEF SegmentInv, TypeOK, StageInv, Running, Begun, Forking, Stages, WriteRequest
<1>4. ASSUME NEW c \in Clients, ReadNothing(c) PROVE SegmentInv'
  BY <1>4, NamesDiffer
  DEF SegmentInv, TypeOK, StageInv, Running, Begun, Forking, Stages, ReadNothing
<1>5. ASSUME NEW c \in Clients, Accept(c) PROVE SegmentInv'
  BY <1>5, NamesDiffer
  DEF SegmentInv, TypeOK, StageInv, Running, Begun, Forking, Stages, Accept
<1>6. CASE AcceptFails
  BY <1>6, NamesDiffer
  DEF SegmentInv, TypeOK, StageInv, Running, Begun, Forking, Stages, AcceptFails
<1>7. CASE Join
  BY <1>7, NamesDiffer
  DEF SegmentInv, TypeOK, StageInv, Running, Begun, Forking, Stages, Join
<1>8. CASE SigInt
  BY <1>8, NamesDiffer
  DEF SegmentInv, TypeOK, StageInv, Running, Begun, Forking, Stages, SigInt, ExitClients
<1>9. ASSUME NEW r \in Clients, ReadRequest(r) PROVE SegmentInv'
  BY <1>9, NamesDiffer
  DEF SegmentInv, TypeOK, StageInv, Running, Begun, Forking, Stages, ReadRequest,
      BeginRequest, Active
<1>10. ASSUME NEW r \in Clients, ReadRequestFails(r) PROVE SegmentInv'
  BY <1>10, NamesDiffer
  DEF SegmentInv, TypeOK, StageInv, Running, Begun, Forking, Stages, ReadRequestFails,
      BeginRequest, Active
<1>11. ASSUME NEW r \in Clients, NEW p \in Stages, Fork(r, p) PROVE SegmentInv'
  BY <1>11, NamesDiffer
  DEF SegmentInv, TypeOK, StageInv, Running, Begun, Forking, Stages, Fork, After
<1>12. ASSUME NEW r \in Clients, Finish(r) PROVE SegmentInv'
  BY <1>12, NamesDiffer
  DEF SegmentInv, TypeOK, StageInv, Running, Begun, Forking, Stages, Finish
<1>13. ASSUME NEW r \in Clients, P1Generate(r) PROVE SegmentInv'
  BY <1>13, NamesDiffer
  DEF SegmentInv, TypeOK, StageInv, Running, Begun, Forking, Stages, P1Generate, Exit
<1>14. ASSUME NEW r \in Clients, NEW m \in Methods, P2Solve(r, m) PROVE SegmentInv'
  <2>1. UNCHANGED <<tpc, shmID, overlapped>>
    BY <1>14 DEF P2Solve
  <2>2. \/ UNCHANGED <<ppc, attached>>
        \/ /\ ppc' = [ppc EXCEPT ![r]["P2"] = "exited"]
           /\ attached' = [attached EXCEPT ![r]["P2"] = None]
    BY <1>14, SolveStep
  <2>3. CASE UNCHANGED <<ppc, attached>>
    BY <2>1, <2>3 DEF SegmentInv, Running, Begun, Forking
  <2>4. CASE ~UNCHANGED <<ppc, attached>>
    <3>1. \A t \in Clients, q \in Stages :
            /\ ppc'[t][q] = IF t = r /\ q = "P2" THEN "exited" ELSE ppc[t][q]
            /\ attached'[t][q] = IF t = r /\ q = "P2" THEN None ELSE attached[t][q]
      BY <2>2, <2>4 DEF TypeOK, Stages
    <3> QED
      BY <2>1, <3>1 DEF SegmentInv, Running, Begun, Forking
  <2> QED
    BY <2>3, <2>4
<1>15. ASSUME NEW r \in Clients, P3Verify(r) PROVE SegmentInv'
  BY <1>15, NamesDiffer
  DEF SegmentInv, TypeOK, StageInv, Running, Begun, Forking, Stages, P3Verify
<1>16. ASSUME NEW r \in Clients, P3Answer(r) PROVE SegmentInv'
  BY <1>16, NamesDiffer
  DEF SegmentInv, TypeOK, StageInv, Running, Begun, Forking, Stages, P3Answer, Exit
<1>17. ASSUME NEW r \in Clients, NEW p \in Stages, Crash(r, p) PROVE SegmentInv'
  BY <1>17, NamesDiffer
  DEF SegmentInv, TypeOK, StageInv, Running, Begun, Forking, Stages, Crash, Exit
<1>18. CASE UNCHANGED vars
  BY <1>18 DEF SegmentInv, TypeOK, StageInv, Running, Begun, Forking, Stages, vars
<1> QED
  BY <1>1, <1>2, <1>3, <1>4, <1>5, <1>6, <1>7, <1>8, <1>9,
     <1>10, <1>11, <1>12, <1>13, <1>14, <1>15, <1>16, <1>17, <1>18
  DEF Next, Step, ClientStep, MainStep, ThreadStep, ProcessStep


\* A connection that was closed and a client that has gone remain so.
LEMMA ArgStep == TypeOK /\ ArgInv /\ [Next]_vars => ArgInv'
<1> SUFFICES ASSUME TypeOK, ArgInv, [Next]_vars PROVE ArgInv'
  OBVIOUS
<1> USE DEF clientVars, mainVars, globals, threadVars, procVars
<1>1. ASSUME NEW c \in Clients, Connect(c) PROVE ArgInv'
  BY <1>1, NamesDiffer
  DEF ArgInv, TypeOK, Begun, Stages, Connect
<1>2. ASSUME NEW c \in Clients, ConnectFails(c) PROVE ArgInv'
  BY <1>2, NamesDiffer
  DEF ArgInv, TypeOK, Begun, Stages, ConnectFails, ExitClients
<1>3. ASSUME NEW c \in Clients, WriteRequest(c) PROVE ArgInv'
  BY <1>3, NamesDiffer
  DEF ArgInv, TypeOK, Begun, Stages, WriteRequest
<1>4. ASSUME NEW c \in Clients, ReadNothing(c) PROVE ArgInv'
  BY <1>4, NamesDiffer
  DEF ArgInv, TypeOK, Begun, Stages, ReadNothing
<1>5. ASSUME NEW c \in Clients, Accept(c) PROVE ArgInv'
  BY <1>5, NamesDiffer
  DEF ArgInv, TypeOK, Begun, Stages, Accept
<1>6. CASE AcceptFails
  BY <1>6, NamesDiffer
  DEF ArgInv, TypeOK, Begun, Stages, AcceptFails
<1>7. CASE Join
  BY <1>7, NamesDiffer
  DEF ArgInv, TypeOK, Begun, Stages, Join
<1>8. CASE SigInt
  BY <1>8, NamesDiffer
  DEF ArgInv, TypeOK, Begun, Stages, SigInt, ExitClients
<1>9. ASSUME NEW r \in Clients, ReadRequest(r) PROVE ArgInv'
  BY <1>9, NamesDiffer
  DEF ArgInv, TypeOK, Begun, Stages, ReadRequest, BeginRequest, Active
<1>10. ASSUME NEW r \in Clients, ReadRequestFails(r) PROVE ArgInv'
  BY <1>10, NamesDiffer
  DEF ArgInv, TypeOK, Begun, Stages, ReadRequestFails, BeginRequest, Active
<1>11. ASSUME NEW r \in Clients, NEW p \in Stages, Fork(r, p) PROVE ArgInv'
  BY <1>11, NamesDiffer
  DEF ArgInv, TypeOK, Begun, Stages, Fork, After
<1>12. ASSUME NEW r \in Clients, Finish(r) PROVE ArgInv'
  BY <1>12, NamesDiffer
  DEF ArgInv, TypeOK, Begun, Stages, Finish
<1>13. ASSUME NEW r \in Clients, P1Generate(r) PROVE ArgInv'
  BY <1>13, NamesDiffer
  DEF ArgInv, TypeOK, Begun, Stages, P1Generate, Exit
<1>14. ASSUME NEW r \in Clients, NEW m \in Methods, P2Solve(r, m) PROVE ArgInv'
  BY <1>14, NamesDiffer
  DEF ArgInv, TypeOK, Begun, Stages, P2Solve, Exit
<1>15. ASSUME NEW r \in Clients, P3Verify(r) PROVE ArgInv'
  BY <1>15, NamesDiffer
  DEF ArgInv, TypeOK, Begun, Stages, P3Verify
<1>16. ASSUME NEW r \in Clients, P3Answer(r) PROVE ArgInv'
  BY <1>16, NamesDiffer
  DEF ArgInv, TypeOK, Begun, Stages, P3Answer, Exit
<1>17. ASSUME NEW r \in Clients, NEW p \in Stages, Crash(r, p) PROVE ArgInv'
  BY <1>17, NamesDiffer
  DEF ArgInv, TypeOK, Begun, Stages, Crash, Exit
<1>18. CASE UNCHANGED vars
  BY <1>18 DEF ArgInv, TypeOK, Begun, Stages, vars
<1> QED
  BY <1>1, <1>2, <1>3, <1>4, <1>5, <1>6, <1>7, <1>8, <1>9,
     <1>10, <1>11, <1>12, <1>13, <1>14, <1>15, <1>16, <1>17, <1>18
  DEF Next, Step, ClientStep, MainStep, ThreadStep, ProcessStep


\* Nobody else writes to the segment of a request alone in the server.
LEMMA OwnStep == TypeOK /\ StageInv /\ SegmentInv /\ ArgInv /\ OwnInv /\ [Next]_vars => OwnInv'
<1> SUFFICES ASSUME TypeOK, StageInv, SegmentInv, ArgInv, OwnInv, [Next]_vars PROVE OwnInv'
  OBVIOUS
<1> USE DEF clientVars, mainVars, globals, threadVars, procVars
<1>1. ASSUME NEW c \in Clients, Connect(c) PROVE OwnInv'
  BY <1>1, NamesDiffer
  DEF OwnInv, OwnWhenAlone, TypeOK, StageInv, SegmentInv, ArgInv, Running, Begun, Stages,
      Contents, Connect
<1>2. ASSUME NEW c \in Clients, ConnectFails(c) PROVE OwnInv'
  BY <1>2, NamesDiffer
  DEF OwnInv, OwnWhenAlone, TypeOK, StageInv, SegmentInv, ArgInv, Running, Begun, Stages,
      Contents, ConnectFails, ExitClients
<1>3. ASSUME NEW c \in Clients, WriteRequest(c) PROVE OwnInv'
  BY <1>3, NamesDiffer
  DEF OwnInv, OwnWhenAlone, TypeOK, StageInv, SegmentInv, ArgInv, Running, Begun, Stages,
      Contents, WriteRequest
<1>4. ASSUME NEW c \in Clients, ReadNothing(c) PROVE OwnInv'
  BY <1>4, NamesDiffer
  DEF OwnInv, OwnWhenAlone, TypeOK, StageInv, SegmentInv, ArgInv, Running, Begun, Stages,
      Contents, ReadNothing
<1>5. ASSUME NEW c \in Clients, Accept(c) PROVE OwnInv'
  BY <1>5, NamesDiffer
  DEF OwnInv, OwnWhenAlone, TypeOK, StageInv, SegmentInv, ArgInv, Running, Begun, Stages,
      Contents, Accept
<1>6. CASE AcceptFails
  BY <1>6, NamesDiffer
  DEF OwnInv, OwnWhenAlone, TypeOK, StageInv, SegmentInv, ArgInv, Running, Begun, Stages,
      Contents, AcceptFails
<1>7. CASE Join
  BY <1>7, NamesDiffer
  DEF OwnInv, OwnWhenAlone, TypeOK, StageInv, SegmentInv, ArgInv, Running, Begun, Stages,
      Contents, Join
<1>8. CASE SigInt
  BY <1>8, NamesDiffer
  DEF OwnInv, OwnWhenAlone, TypeOK, StageInv, SegmentInv, ArgInv, Running, Begun, Stages,
      Contents, SigInt, ExitClients
<1>9. ASSUME NEW r \in Clients, ReadRequest(r) PROVE OwnInv'
  BY <1>9, NamesDiffer
  DEF OwnInv, OwnWhenAlone, TypeOK, StageInv, SegmentInv, ArgInv, Running, Begun, Stages,
      Contents, ReadRequest, BeginRequest, Active
<1>10. ASSUME NEW r \in Clients, ReadRequestFails(r) PROVE OwnInv'
  BY <1>10, NamesDiffer
  DEF OwnInv, OwnWhenAlone, TypeOK, StageInv, SegmentInv, ArgInv, Running, Begun, Stages,
      Contents, ReadRequestFails, BeginRequest, Active
<1>11. ASSUME NEW r \in Clients, NEW p \in Stages, Fork(r, p) PROVE OwnInv'
  BY <1>11, NamesDiffer
  DEF OwnInv, OwnWhenAlone, TypeOK, StageInv, SegmentInv, ArgInv, Running, Begun, Stages,
      Contents, Fork, After
<1>12. ASSUME NEW r \in Clients, Finish(r) PROVE OwnInv'
  BY <1>12, NamesDiffer
  DEF OwnInv, OwnWhenAlone, TypeOK, StageInv, SegmentInv, ArgInv, Running, Begun, Stages,
      Contents, Finish
<1>13. ASSUME NEW r \in Clients, P1Generate(r) PROVE OwnInv'
  BY <1>13, NamesDiffer
  DEF OwnInv, OwnWhenAlone, TypeOK, StageInv, SegmentInv, ArgInv, Running, Begun, Stages,
      Contents, P1Generate, Exit
<1>14. ASSUME NEW r \in Clients, NEW m \in Methods, P2Solve(r, m) PROVE OwnInv'
  <2>1. UNCHANGED <<tpc, arg, errors, overlapped, reply>>
    BY <1>14 DEF P2Solve
  <2>2. PICK X : segment' = [segment EXCEPT ![attached[r]["P2"]].x = X]
    BY <1>14, SolveStep
  <2>3. \A c \in Clients : segment'[c].arg = segment[c].arg
    BY <2>2 DEF TypeOK, Contents
  <2> QED
    BY <2>1, <2>3 DEF OwnInv, OwnWhenAlone, Begun
<1>15. ASSUME NEW r \in Clients, P3Verify(r) PROVE OwnInv'
  BY <1>15, NamesDiffer
  DEF OwnInv, OwnWhenAlone, TypeOK, StageInv, SegmentInv, ArgInv, Running, Begun, Stages,
      Contents, P3Verify
<1>16. ASSUME NEW r \in Clients, P3Answer(r) PROVE OwnInv'
  <2> DEFINE s == segment[attached[r]["P3"]]
              R == [arg |-> s.arg, errors |-> errors[r].arg]
  <2>1. /\ UNCHANGED <<tpc, arg, segment, overlapped>>
        /\ errors' = [errors EXCEPT ![r] = Empty]
        /\ \/ UNCHANGED reply
           \/ answers[r] /\ cpc[r] = "read" /\ reply' = [reply EXCEPT ![r] = R]
    BY <1>16 DEF P3Answer
  <2>2. \A c \in Clients : errors'[c] = IF c = r THEN Empty ELSE errors[c]
    BY <2>1 DEF TypeOK
  <2>3. ASSUME NEW c \in Clients \ overlapped
        PROVE  /\ segment'[c].arg # None => Begun(c)' /\ segment'[c].arg = arg'[c]
               /\ errors'[c].arg # None => Begun(c)' /\ errors'[c].arg = arg'[c]
    BY <2>1, <2>2, NamesDiffer DEF OwnInv, Begun
  <2>4. ASSUME r \notin overlapped, answers[r], cpc[r] = "read"
        PROVE  {R.arg, R.errors} \subseteq {r, None}
    <3>1. attached[r]["P3"] = r
      BY <1>16, <2>4 DEF SegmentInv, P3Answer, Running, Stages
    <3>2. arg[r] = r
      BY <2>4 DEF ArgInv
    <3> QED
      BY <2>4, <3>1, <3>2 DEF OwnInv
  <2>5. ASSUME NEW c \in Clients \ overlapped, reply'[c] # None
        PROVE  {reply'[c].arg, reply'[c].errors} \subseteq {c, None}
    <3>1. CASE reply'[c] = reply[c]
      BY <2>5, <3>1 DEF OwnInv, OwnWhenAlone
    <3>2. CASE reply'[c] # reply[c]
      <4>1. c = r /\ answers[r] /\ cpc[r] = "read" /\ reply'[c] = R
        BY <2>1, <3>2 DEF TypeOK
      <4> QED
        BY <2>4, <2>5, <4>1
    <3> QED
      BY <3>1, <3>2
  <2> QED
    BY <2>1, <2>3, <2>5 DEF OwnInv, OwnWhenAlone
<1>17. ASSUME NEW r \in Clients, NEW p \in Stages, Crash(r, p) PROVE OwnInv'
  BY <1>17, NamesDiffer
  DEF OwnInv, OwnWhenAlone, TypeOK, StageInv, SegmentInv, ArgInv, Running, Begun, Stages,
      Contents, Crash, Exit
<1>18. CASE UNCHANGED vars
  BY <1>18
  DEF OwnInv, OwnWhenAlone, TypeOK, StageInv, SegmentInv, ArgInv, Running, Begun, Stages,
      Contents, vars
<1> QED
  BY <1>1, <1>2, <1>3, <1>4, <1>5, <1>6, <1>7, <1>8, <1>9,
     <1>10, <1>11, <1>12, <1>13, <1>14, <1>15, <1>16, <1>17, <1>18
  DEF Next, Step, ClientStep, MainStep, ThreadStep, ProcessStep


\* The invariant holds in every reachable state.
LEMMA Invariant == Spec => []IInv
<1>1. IInv /\ [Next]_vars => IInv'
  BY TypeStep, StageStep, SegmentStep, ArgStep, OwnStep DEF IInv
<1> QED
  BY <1>1, InvInit, PTL DEF Spec

(***************************************************************************)
(* Theorems.                                                               *)
(***************************************************************************)

\* Every variable of the clients program and of the server (server.c,
\* clients.c) keeps its type.
THEOREM TypeCorrect == Spec => []TypeOK
<1>1. IInv => TypeOK
  BY DEF IInv
<1> QED
  BY <1>1, Invariant, PTL

\* However many requests meet and whoever reaps whose children, a thread
\* outlives its processes and main all of them.
THEOREM NoProcessIsLeft == Spec => []NoStrayProcess
<1>1. IInv => NoStrayProcess
  BY DEF IInv, StageInv
<1> QED
  BY <1>1, Invariant, PTL

\* The client of a request that met no other gets nobody else's matrices,
\* although the segments' identifiers pass through one global variable.
THEOREM AloneMeansOwn == Spec => []OwnWhenAlone
<1>1. IInv => OwnWhenAlone
  BY DEF IInv, OwnInv
<1> QED
  BY <1>1, Invariant, PTL

\* "create shared Memory with unique key" (server.c:93) is true of a request
\* that met no other: nobody else's process ever works on its segment, and its
\* own work on nothing else.
THEOREM AloneMeansUnique ==
  Spec => [](\A r \in Clients \ overlapped, s \in Clients : r # s =>
               \A p, q \in Stages : attached[r][p] # None => attached[r][p] # attached[s][q])
<1> DEFINE Unique == \A r \in Clients \ overlapped, s \in Clients : r # s =>
                       \A p, q \in Stages :
                         attached[r][p] # None => attached[r][p] # attached[s][q]
<1>1. IInv => Unique
  <2> SUFFICES ASSUME IInv, NEW r \in Clients \ overlapped, NEW s \in Clients, r # s,
                      NEW p \in Stages, NEW q \in Stages, attached[r][p] # None
               PROVE  attached[r][p] # attached[s][q]
    OBVIOUS
  <2>1. attached[r][p] = r
    BY DEF IInv, SegmentInv
  <2>2. CASE attached[s][q] = None
    BY <2>2
  <2>3. CASE attached[s][q] # None
    <3>1. attached[s][q] = s \/ attached[s][q] \in overlapped
      BY <2>3 DEF IInv, SegmentInv
    <3> QED
      BY <2>1, <3>1
  <2> QED
    BY <2>2, <2>3
<1> QED
  BY <1>1, Invariant, PTL
=============================================================================
