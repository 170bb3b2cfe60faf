----------------------------- MODULE IpcProofs -----------------------------
(***************************************************************************)
(* Proofs about Ipc, for any clients, malformed, stalled or interrupted,   *)
(* any backlog, any number of pieces and any faults.  IpcInv ties the      *)
(* three records of a connection together: the client's, the daemon's and  *)
(* what the handler did.  A server that has not handled a command has not  *)
(* carried it out, one that has written anything has, or its statement     *)
(* failed, or it works without a Storage; and it is past reading only if   *)
(* the client is past sending.                                             *)
(***************************************************************************)
EXTENDS Ipc, TLAPS

Connection(c) ==
  /\ client[c] = "new" => server[c] = "none"
  /\ client[c] = "brokenpipe" => server[c] = "closed"
  /\ server[c] \in {"none", "queued", "read", "handle"} =>
       carried[c] = 0 /\ c \notin lost /\ sent[c] = 0
  /\ server[c] = "write" => sent[c] < Parts
  /\ server[c] = "write" \/ sent[c] > 0 =>
       carried[c] = 1 \/ c \in lost \/ StorageGone
  /\ server[c] \in {"handle", "write"} =>
       client[c] \in {"waiting", "answered", "failed", "interrupted", "killed"}
  /\ client[c] \in {"answered", "failed"} =>
       sent[c] > 0 \/ server[c] \in {"none", "closed"}
  /\ client[c] = "answered" => sent[c] = Parts
  /\ client[c] = "interrupted" => c \in Browsers

IpcInv == IpcTypeOK /\ DaemonSurvives /\ \A c \in Clients : Connection(c)

LEMMA InvStarts == IpcInit => IpcInv
BY IpcAssumption
   DEF IpcInit, IpcInv, IpcTypeOK, DaemonSurvives, Connection, Ended

(* Who may break the pipe. *)
CutOff(c) == client[c] = "killed" \/ (c \in Browsers /\ client[c] = "interrupted")

(* The end of the process keeps the invariant if whoever breaks the pipe    *)
(* has been killed or interrupted.                                          *)
LEMMA InvEndProcess ==
  ASSUME IpcInv, NEW how \in Ended, EndProcess(how),
         UNCHANGED <<client, sent, carried, lost>>,
         how = "brokenpipe" => \E c \in Clients : CutOff(c)
  PROVE  IpcInv'
<1>1. IpcTypeOK'
  BY DEF IpcInv, IpcTypeOK, EndProcess
<1>2. ASSUME NEW c \in Clients PROVE Connection(c)'
  <2>1. server'[c] = IF server[c] = "none" THEN "none" ELSE "closed"
    BY DEF EndProcess
  <2>2. StorageGone'
    BY DEF EndProcess, StorageGone
  <2> QED BY <2>1, <2>2 DEF IpcInv, Connection
<1>3. DaemonSurvives'
  BY DEF EndProcess, DaemonSurvives, CutOff
<1> QED BY <1>1, <1>2, <1>3 DEF IpcInv

(* Dropping the connections nobody accepted keeps it.                       *)
LEMMA InvReset ==
  ASSUME IpcInv,
         UNCHANGED <<client, sent, carried, lost, main>>,
         acceptor' \in {"test", "accept", "gone"},
         server' \in {server, Reset(server)}
  PROVE  IpcInv'
<1>1. \A c \in Clients :
        server'[c] = server[c] \/ (server[c] = "queued" /\ server'[c] = "closed")
  BY DEF Reset
<1>2. IpcTypeOK'
  BY DEF IpcInv, IpcTypeOK, Reset
<1>3. ASSUME NEW c \in Clients PROVE Connection(c)'
  BY <1>1, IpcAssumption DEF IpcInv, Connection, StorageGone, IpcTypeOK
<1>4. DaemonSurvives'
  BY DEF IpcInv, DaemonSurvives
<1> QED BY <1>2, <1>3, <1>4 DEF IpcInv

LEMMA InvClient ==
  ASSUME IpcInv, NEW c \in Clients, ClientStep(c) \/ Interrupt(c) \/ Hangup(c)
  PROVE  IpcInv'
<1> USE IpcAssumption DEF IpcInv
<1>1. IpcTypeOK'
  BY DEF IpcTypeOK, ClientStep, Connect, ConnectRefused, Send, Receive,
         Interrupt, Hangup
<1>2. ASSUME NEW d \in Clients, d # c PROVE Connection(d)'
  BY <1>2 DEF IpcTypeOK, Connection, StorageGone, ClientStep, Connect,
              ConnectRefused, Send, Receive, Interrupt, Hangup
<1>3. Connection(c)'
  BY DEF IpcTypeOK, Connection, StorageGone, ClientStep, Connect,
         ConnectRefused, Send, Receive, Interrupt, Hangup
<1>4. DaemonSurvives'
  <2>1. \A d \in Clients : CutOff(d) => CutOff(d)'
    BY DEF CutOff, IpcTypeOK, ClientStep, Connect, ConnectRefused, Send, Receive,
           Interrupt, Hangup
  <2>2. main' = main
    BY DEF ClientStep, Connect, ConnectRefused, Send, Receive, Interrupt, Hangup
  <2> QED BY <2>1, <2>2 DEF DaemonSurvives, CutOff
<1> QED BY <1>1, <1>2, <1>3, <1>4

LEMMA InvAccept ==
  ASSUME IpcInv, NEW c \in Clients, Accept(c) PROVE IpcInv'
<1> USE IpcAssumption DEF IpcInv
<1>1. \A d \in Clients :
        \/ server'[d] = server[d]
        \/ server[d] = "queued" /\ server'[d] \in {"read", "closed"}
  BY DEF Accept, Reset, IpcTypeOK
<1>2. IpcTypeOK'
  BY DEF IpcTypeOK, Accept, Reset
<1>3. ASSUME NEW d \in Clients PROVE Connection(d)'
  BY <1>1 DEF Connection, StorageGone, Accept, IpcTypeOK
<1>4. DaemonSurvives'
  BY DEF Accept, DaemonSurvives
<1> QED BY <1>2, <1>3, <1>4

(* A handler's step that does not end the process.                          *)
LEMMA InvThread ==
  ASSUME IpcInv, NEW c \in Clients, UNCHANGED <<client, acceptor, main>>,
         \/ Read(c) \/ Handle(c) \/ HandleFails(c) \/ Write(c)
         \/ HandleDestroyed(c) /\ server' = [server EXCEPT ![c] = "write"]
                              /\ carried' \in {carried, [carried EXCEPT ![c] = @ + 1]}
         \/ WriteBreaks(c) /\ server' = [server EXCEPT ![c] = "closed"]
  PROVE  IpcInv'
<1> USE IpcAssumption DEF IpcInv
<1>1. IpcTypeOK'
  BY DEF IpcTypeOK, Connection, Read, Handle, HandleFails, HandleDestroyed,
         Write, WriteBreaks
<1>2. ASSUME NEW d \in Clients, d # c PROVE Connection(d)'
  BY <1>2 DEF IpcTypeOK, Connection, StorageGone, Read, Handle,
              HandleFails, HandleDestroyed, Write, WriteBreaks
<1>3. Connection(c)'
  BY DEF IpcTypeOK, Connection, StorageGone, Gone, Read, Handle,
         HandleFails, HandleDestroyed, Write, WriteBreaks
<1>4. DaemonSurvives'
  BY DEF DaemonSurvives
<1> QED BY <1>1, <1>2, <1>3, <1>4

(* The pipe breaks under the first piece only when the client was killed or *)
(* interrupted: every other way to be gone comes before a handler or after  *)
(* a piece.                                                                 *)
LEMMA BrokenByCutOff ==
  ASSUME IpcInv, NEW c \in Clients, WriteBreaks(c), sent[c] = 0
  PROVE  CutOff(c)
BY DEF IpcInv, Connection, WriteBreaks, Gone, CutOff

LEMMA InvHandler ==
  ASSUME IpcInv, NEW c \in Clients, HandlerStep(c) PROVE IpcInv'
<1>1. CASE Read(c) \/ Handle(c) \/ HandleFails(c) \/ Write(c)
  BY <1>1, InvThread DEF Read, Handle, HandleFails, Write
<1>2. CASE HandleThrows(c)
  BY <1>2, InvEndProcess DEF HandleThrows, Ended
<1>3. CASE HandleDestroyed(c)
  <2>1. CASE EndProcess("killed") /\ UNCHANGED carried
    BY <1>3, <2>1, InvEndProcess DEF HandleDestroyed, Ended
  <2>2. CASE /\ carried' \in {carried, [carried EXCEPT ![c] = @ + 1]}
             /\ server' = [server EXCEPT ![c] = "write"]
             /\ UNCHANGED <<acceptor, main>>
    BY <1>3, <2>2, InvThread DEF HandleDestroyed
  <2> QED BY <1>3, <2>1, <2>2 DEF HandleDestroyed
<1>4. CASE WriteBreaks(c)
  <2>1. CASE sent[c] = 0
    BY <1>4, <2>1, BrokenByCutOff, InvEndProcess DEF WriteBreaks, Ended
  <2>2. CASE sent[c] # 0
    BY <1>4, <2>2, InvThread DEF WriteBreaks
  <2> QED BY <2>1, <2>2
<1> QED BY <1>1, <1>2, <1>3, <1>4 DEF HandlerStep

(* The main thread before the end of the process.                           *)
LEMMA InvMain ==
  ASSUME IpcInv, RemoveSocket \/ DestroyStorage \/ RequestStop \/ CloseServer
  PROVE  IpcInv'
<1> USE IpcAssumption DEF IpcInv
<1>1. \A c \in Clients :
        server'[c] = server[c] \/ (server[c] = "queued" /\ server'[c] = "closed")
  BY DEF RemoveSocket, DestroyStorage, RequestStop, CloseServer, Reset
<1>2. IpcTypeOK'
  BY DEF IpcTypeOK, Ended, RemoveSocket, DestroyStorage, RequestStop, CloseServer, Reset
<1>3. ASSUME NEW c \in Clients PROVE Connection(c)'
  BY <1>1 DEF IpcTypeOK, Connection, StorageGone, Ended, RemoveSocket,
              DestroyStorage, RequestStop, CloseServer
<1>4. DaemonSurvives'
  BY DEF DaemonSurvives, RemoveSocket, DestroyStorage, RequestStop, CloseServer
<1> QED BY <1>2, <1>3, <1>4

LEMMA InvStep == IpcInv /\ [IpcNext]_vars => IpcInv'
<1> SUFFICES ASSUME IpcInv, [IpcNext]_vars PROVE IpcInv'
  OBVIOUS
<1>1. ASSUME NEW c \in Clients,
             ClientStep(c) \/ Interrupt(c) \/ Hangup(c) \/ HandlerStep(c) \/ Accept(c)
      PROVE  IpcInv'
  BY <1>1, InvClient, InvHandler, InvAccept
<1>2. CASE AcceptTest \/ AcceptFails
  BY <1>2, InvReset DEF AcceptTest, AcceptFails
<1>3. CASE RemoveSocket \/ DestroyStorage \/ RequestStop \/ CloseServer
  BY <1>3, InvMain
<1>4. CASE Exit \/ Kill
  BY <1>4, InvEndProcess DEF Exit, Kill, Ended
<1>5. CASE UNCHANGED vars
  BY <1>5 DEF vars, IpcInv, IpcTypeOK, DaemonSurvives, Connection, StorageGone
<1> QED BY <1>1, <1>2, <1>3, <1>4, <1>5 DEF IpcNext, AcceptorStep, MainStep

LEMMA Invariance == IpcSpec => []IpcInv
BY InvStarts, InvStep, PTL DEF IpcSpec

(* Types: in particular no thread writes more than one Response.            *)
THEOREM IpcTypesCorrect == IpcSpec => []IpcTypeOK
<1>1. IpcInv => IpcTypeOK
  BY DEF IpcInv
<1> QED BY <1>1, Invariance, PTL

(* A client ends the daemon through SIGPIPE only by being killed, or by a   *)
(* resize of its terminal, while it waits.                                  *)
THEOREM DaemonDoesSurvive == IpcSpec => []DaemonSurvives
<1>1. IpcInv => DaemonSurvives
  BY DEF IpcInv
<1> QED BY <1>1, Invariance, PTL

-----------------------------------------------------------------------------
(* The promise of RemoteCall                                               *)

(* The record of outcomes changes where a client's state does.              *)
OutcomeMap == [c \in Clients |-> Outcome(c)]

LEMMA ClientRefines ==
  ASSUME IpcInv, NEW c \in Clients, ClientStep(c) \/ Interrupt(c) \/ Hangup(c)
  PROVE  [Call!Next]_(Call!vars)
<1>1. carried' = carried /\ lost' = lost /\ StorageGone' = StorageGone
  BY DEF ClientStep, Connect, ConnectRefused, Send, Receive, Interrupt, Hangup,
         StorageGone
<1>2. /\ \A d \in Clients \ {c} : client'[d] = client[d]
      /\ client[c] \in {"new", "connected", "waiting"}
      /\ \/ client'[c] \in {"connected", "waiting", "failed", "brokenpipe",
                             "interrupted", "left", "killed"}
         \/ client'[c] = "answered" /\ sent[c] = Parts
  BY DEF IpcInv, IpcTypeOK, ClientStep, Connect, ConnectRefused, Send, Receive,
         Interrupt, Hangup
<1>3. Outcome(c) = "none" /\ \A d \in Clients \ {c} : Outcome(d)' = Outcome(d)
  BY <1>2 DEF Outcome, Gone
<1>4. OutcomeMap' = [OutcomeMap EXCEPT ![c] = Outcome(c)']
  BY <1>3 DEF OutcomeMap
<1>5. CASE client'[c] \in {"connected", "waiting"}
  <2>1. OutcomeMap' = OutcomeMap
    BY <1>3, <1>5 DEF OutcomeMap, Outcome, Gone
  <2> QED BY <1>1, <2>1 DEF Call!vars, OutcomeMap
<1>6. CASE client'[c] \in {"failed", "brokenpipe", "interrupted", "left", "killed"}
  <2>1. Outcome(c)' = "unanswered"
    BY <1>6 DEF Outcome, Gone
  <2>2. Call!Unanswered(c)
    BY <1>1, <1>3, <1>4, <2>1 DEF Call!Unanswered, OutcomeMap
  <2> QED BY <2>2 DEF Call!Next
<1>7. CASE client'[c] = "answered" /\ sent[c] = Parts
  <2>1. Outcome(c)' = "answered"
    BY <1>7 DEF Outcome
  <2>2. carried[c] = 1 \/ c \in lost \/ StorageGone
    BY <1>7, IpcAssumption DEF IpcInv, Connection
  <2>3. Call!Answered(c)
    BY <1>1, <1>3, <1>4, <2>1, <2>2 DEF Call!Answered, OutcomeMap
  <2> QED BY <2>3 DEF Call!Next
<1> QED BY <1>2, <1>5, <1>6, <1>7

(* Steps that touch no client: at most a command is carried out or fails,   *)
(* or the Storage is given up.                                              *)
LEMMA ServerRefines ==
  ASSUME UNCHANGED client,
         \/ UNCHANGED <<carried, lost, StorageGone>>
         \/ StorageGone' /\ UNCHANGED <<carried, lost>>
         \/ /\ UNCHANGED StorageGone
            /\ \E c \in Clients :
                 /\ carried[c] = 0 /\ c \notin lost
                 /\ \/ carried' = [carried EXCEPT ![c] = 1] /\ UNCHANGED lost
                    \/ lost' = lost \cup {c} /\ UNCHANGED carried
  PROVE  [Call!Next]_(Call!vars)
<1>1. OutcomeMap' = OutcomeMap
  BY DEF OutcomeMap, Outcome, Gone
<1>2. CASE UNCHANGED <<carried, lost, StorageGone>>
  BY <1>1, <1>2 DEF Call!vars, OutcomeMap
<1>3. CASE StorageGone' /\ UNCHANGED <<carried, lost>>
  <2>1. StorageGone' = TRUE
    BY <1>3 DEF StorageGone
  <2>2. Call!TakeDown
    BY <1>1, <1>3, <2>1 DEF Call!TakeDown, OutcomeMap
  <2> QED BY <2>2 DEF Call!Next
<1>4. ASSUME NEW c \in Clients, UNCHANGED StorageGone,
             carried[c] = 0, c \notin lost,
             carried' = [carried EXCEPT ![c] = 1], UNCHANGED lost
      PROVE  Call!Next
  <2>1. Call!Carry(c)
    BY <1>1, <1>4 DEF Call!Carry, OutcomeMap
  <2> QED BY <2>1 DEF Call!Next
<1>5. ASSUME NEW c \in Clients, UNCHANGED StorageGone,
             carried[c] = 0, c \notin lost,
             lost' = lost \cup {c}, UNCHANGED carried
      PROVE  Call!Next
  <2>1. Call!Lose(c)
    BY <1>1, <1>5 DEF Call!Lose, OutcomeMap
  <2> QED BY <2>1 DEF Call!Next
<1> QED BY <1>2, <1>3, <1>4, <1>5

LEMMA HandlerRefines ==
  ASSUME IpcInv, NEW c \in Clients, HandlerStep(c)
  PROVE  [Call!Next]_(Call!vars)
<1>1. CASE Read(c) \/ Write(c) \/ WriteBreaks(c) \/ HandleThrows(c)
  <2>1. UNCHANGED main \/ main' \in Ended
    BY <1>1 DEF Read, Write, WriteBreaks, HandleThrows, EndProcess, Ended
  <2>2. UNCHANGED StorageGone \/ StorageGone'
    BY <2>1 DEF StorageGone
  <2> QED BY <1>1, <2>2, ServerRefines DEF Read, Write, WriteBreaks, HandleThrows
<1>2. CASE Handle(c) \/ HandleDestroyed(c)
  <2>1. carried[c] = 0 /\ c \notin lost
    BY <1>2 DEF IpcInv, Connection, Handle, HandleDestroyed
  <2>2. carried' \in {carried, [carried EXCEPT ![c] = 1]}
    BY <1>2, <2>1 DEF IpcInv, IpcTypeOK, Handle, HandleDestroyed
  <2>3. UNCHANGED main \/ (main' \in Ended /\ UNCHANGED carried)
    BY <1>2 DEF Handle, HandleDestroyed, EndProcess, Ended
  <2>4. UNCHANGED StorageGone \/ (StorageGone' /\ UNCHANGED carried)
    BY <2>3 DEF StorageGone
  <2> QED BY <1>2, <2>1, <2>2, <2>4, ServerRefines DEF Handle, HandleDestroyed
<1>3. CASE HandleFails(c)
  <2>1. carried[c] = 0 /\ c \notin lost
    BY <1>3 DEF IpcInv, Connection, HandleFails
  <2>2. UNCHANGED StorageGone
    BY <1>3 DEF HandleFails, StorageGone
  <2> QED BY <1>3, <2>1, <2>2, ServerRefines DEF HandleFails
<1> QED BY <1>1, <1>2, <1>3 DEF HandlerStep

LEMMA StepRefines == IpcInv /\ [IpcNext]_vars => [Call!Next]_(Call!vars)
<1> SUFFICES ASSUME IpcInv, [IpcNext]_vars PROVE [Call!Next]_(Call!vars)
  OBVIOUS
<1>1. ASSUME NEW c \in Clients,
             ClientStep(c) \/ Interrupt(c) \/ Hangup(c) \/ HandlerStep(c)
      PROVE  [Call!Next]_(Call!vars)
  BY <1>1, ClientRefines, HandlerRefines
<1>2. CASE AcceptorStep \/ AcceptFails \/ UNCHANGED vars
  BY <1>2, ServerRefines
     DEF AcceptorStep, AcceptTest, Accept, AcceptFails, StorageGone, vars
<1>3. CASE MainStep \/ RequestStop \/ Kill
  <2>1. UNCHANGED <<client, carried, lost>>
    BY <1>3 DEF MainStep, CloseServer, RemoveSocket, DestroyStorage, Exit,
                RequestStop, Kill
  <2>2. UNCHANGED StorageGone \/ StorageGone'
    BY <1>3 DEF MainStep, CloseServer, RemoveSocket, DestroyStorage, Exit,
                RequestStop, Kill, EndProcess, StorageGone, Ended
  <2> QED BY <2>1, <2>2, ServerRefines
<1> QED BY <1>1, <1>2, <1>3 DEF IpcNext

(* A command is carried out at most once, and answered only if it was, its  *)
(* statement failed or the Storage is going, for any number of clients,     *)
(* faults at any point and any length of the answer.                        *)
THEOREM IpcImplementsCall == IpcSpec => ImplementsCall
<1>1. IpcInit => Call!Init
  BY DEF IpcInit, Call!Init, Outcome, Gone, StorageGone, Ended
<1> QED BY <1>1, StepRefines, Invariance, PTL DEF IpcSpec, ImplementsCall, Call!Spec
=============================================================================
