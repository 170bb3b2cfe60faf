-------------------------- MODULE LifecycleProofs --------------------------
(***************************************************************************)
(* Proofs about Lifecycle, for any number of processes and commands, with  *)
(* or without crashes and failing writes of the pid file.  The main        *)
(* invariant, Alone, says how far the only live process has come with the  *)
(* two files, as long as none went on without its pid in its file: it is   *)
(* what makes is_running tell the truth to a user who waits, and so keeps  *)
(* the process alone.                                                      *)
(***************************************************************************)
EXTENDS Lifecycle, SequenceTheorems, TLAPS

LEMMA TypeStarts == Init => TypeOK
<1> SUFFICES ASSUME Init PROVE TypeOK
  OBVIOUS
<1>1. pidtext \in Seq(Procs \cup {Empty}) /\ Len(pidtext) = 0
  BY DEF Init
<1>2. 0 \in 0 .. Len(pidtext)
  BY <1>1
<1> QED BY <1>1, <1>2 DEF Init, TypeOK

(* Truncating or writing a file keeps the list of files.                    *)
LEMMA FileWritten ==
  ASSUME TypeOK, NEW f \in 0 .. Len(pidtext), NEW t \in Procs \cup {Empty}
  PROVE  /\ [pidtext EXCEPT ![f] = t] \in Seq(Procs \cup {Empty})
         /\ Len([pidtext EXCEPT ![f] = t]) = Len(pidtext)
<1>1. pidtext \in Seq(Procs \cup {Empty})
  BY DEF TypeOK
<1>2. CASE f \in 1 .. Len(pidtext)
  BY <1>1, <1>2, ExceptSeq
<1>3. CASE f = 0
  <2>1. [pidtext EXCEPT ![f] = t] = pidtext
    BY <1>1, <1>3
  <2> QED BY <1>1, <2>1
<1> QED BY <1>2, <1>3

LEMMA TypeStep == TypeOK /\ [Next]_vars => TypeOK'
<1> SUFFICES ASSUME TypeOK, [Next]_vars PROVE TypeOK'
  OBVIOUS
<1> USE LifecycleAssumption DEF TypeOK, Go
<1>1. ASSUME NEW p \in Procs, StartRefused(p) \/ StartAccepted(p) PROVE TypeOK'
  BY <1>1 DEF StartRefused, StartAccepted, StartGiven
<1>2. ASSUME NEW p \in Procs, OpenPidfile(p) PROVE TypeOK'
  <2>1. /\ Len(pidtext') \in Nat /\ Len(pidtext) <= Len(pidtext')
        /\ pidtext' \in Seq(Procs \cup {Empty})
        /\ pidfile' \in 0 .. Len(pidtext')
    <3>1. CASE pidfile = 0
      <4>1. pidtext' = Append(pidtext, Empty)
        BY <1>2, <3>1 DEF OpenPidfile
      <4> QED BY <1>2, <3>1, <4>1 DEF OpenPidfile
    <3>2. CASE pidfile # 0
      BY <1>2, <3>2, FileWritten DEF OpenPidfile
    <3> QED BY <3>1, <3>2
  <2>2. \A q \in Procs : fd[q] \in 0 .. Len(pidtext')
    BY <2>1
  <2>3. fd' \in [Procs -> 0 .. Len(pidtext')]
    BY <1>2, <2>1, <2>2 DEF OpenPidfile
  <2> QED BY <1>2, <2>1, <2>3 DEF OpenPidfile
<1>3. ASSUME NEW p \in Procs, WritePidfile(p) PROVE TypeOK'
  <2>1. pidtext' \in Seq(Procs \cup {Empty}) /\ Len(pidtext') = Len(pidtext)
    BY <1>3, FileWritten DEF WritePidfile
  <2> QED BY <1>3, <2>1 DEF WritePidfile
<1>11. ASSUME NEW p \in Procs, OpenPidfileFails(p) \/ WritePidfileFails(p)
       PROVE  TypeOK'
  BY <1>11 DEF OpenPidfileFails, WritePidfileFails
<1>4. ASSUME NEW p \in Procs, UnlinkSocket(p) \/ BindSocket(p) \/ RemoveSocket(p)
      PROVE  TypeOK'
  BY <1>4 DEF UnlinkSocket, BindSocket, RemoveSocket
<1>5. ASSUME NEW p \in Procs,
             BindFails(p) \/ CloseServer(p) \/ RemovePidfile(p) \/ Exit(p)
      PROVE  TypeOK'
  <2>1. pidfile' \in 0 .. Len(pidtext)
    BY <1>5 DEF BindFails, CloseServer, RemovePidfile, Exit
  <2> QED BY <1>5, <2>1 DEF BindFails, CloseServer, RemovePidfile, Exit
<1>6. ASSUME NEW p \in Procs, StopByClient(p) PROVE TypeOK'
  BY <1>6 DEF StopByClient
<1>7. ASSUME NEW p \in Procs, Crash(p) PROVE TypeOK'
  BY <1>7 DEF Crash
<1>8. ASSUME StopCheck PROVE TypeOK'
  BY <1>8 DEF StopCheck
<1>9. ASSUME StopSignal PROVE TypeOK'
  BY <1>9 DEF StopSignal
<1>10. ASSUME UNCHANGED vars PROVE TypeOK'
  BY <1>10 DEF vars
<1> QED BY <1>1, <1>2, <1>3, <1>4, <1>5, <1>6, <1>7, <1>8, <1>9, <1>10, <1>11
      DEF Next, ProcessStep

(* Every variable of processes, files and commands keeps its type.          *)
THEOREM LifecycleTypesCorrect == Spec => []TypeOK
BY TypeStarts, TypeStep, PTL DEF Spec

-----------------------------------------------------------------------------
(* The socket path never leads to a process that left by itself.            *)

LEMMA SocketStep == TypeOK /\ SocketAnswers /\ [Next]_vars => SocketAnswers'
<1> SUFFICES ASSUME TypeOK, SocketAnswers, [Next]_vars PROVE SocketAnswers'
  OBVIOUS
<1> USE LifecycleAssumption DEF TypeOK, SocketAnswers, Go
<1>1. ASSUME NEW p \in Procs, StartRefused(p) \/ StartAccepted(p) PROVE SocketAnswers'
  BY <1>1 DEF StartRefused, StartAccepted
<1>2. ASSUME NEW p \in Procs,
             OpenPidfile(p) \/ WritePidfile(p) \/ OpenPidfileFails(p)
               \/ WritePidfileFails(p) \/ RemovePidfile(p) \/ Exit(p)
               \/ CloseServer(p) \/ BindFails(p)
      PROVE  SocketAnswers'
  BY <1>2 DEF OpenPidfile, WritePidfile, OpenPidfileFails, WritePidfileFails,
              RemovePidfile, Exit, CloseServer, BindFails
<1>3. ASSUME NEW p \in Procs, UnlinkSocket(p) \/ BindSocket(p) \/ RemoveSocket(p)
      PROVE  SocketAnswers'
  BY <1>3 DEF UnlinkSocket, BindSocket, RemoveSocket
<1>4. ASSUME NEW p \in Procs, StopByClient(p) \/ Crash(p) PROVE SocketAnswers'
  BY <1>4 DEF StopByClient, Crash, Alive
<1>5. ASSUME StopCheck \/ StopSignal \/ UNCHANGED vars PROVE SocketAnswers'
  BY <1>5 DEF StopCheck, StopSignal, vars
<1> QED BY <1>1, <1>2, <1>3, <1>4, <1>5 DEF Next, ProcessStep

(* However starts, stops and crashes overlap, clients find at the socket    *)
(* path a daemon that serves or is about to remove it, or what a crash left.*)
THEOREM SocketDoesAnswer == Spec => []SocketAnswers
<1>1. Init => SocketAnswers
  BY DEF Init, SocketAnswers
<1> QED BY <1>1, TypeStarts, TypeStep, SocketStep, PTL DEF Spec

-----------------------------------------------------------------------------
(* Users who wait, and a pid file that can be written                      *)

(* What a live process has made of the pid file and of the socket, step by  *)
(* step, when no other process touches them.                                *)
Named(p) == pidfile # 0 /\ pidtext[pidfile] = p

Files(p) ==
  /\ pc[p] = "opened" => pidfile # 0 /\ fd[p] = pidfile
  /\ pc[p] \in {"written", "unlinked", "serving"} => Named(p)
  /\ pc[p] \in {"unlinked", "closed", "removed"} => socket = None
  /\ pc[p] = "serving" => socket = p
  /\ pc[p] = "removed" => pidfile = 0

Alone ==
  Orderly => /\ \A p, q \in Procs : Alive(p) /\ Alive(q) => p = q
             /\ \A p \in Procs : Files(p)

LEMMA AloneStarts == Init => Alone
BY DEF Init, Alone, Alive, Files

(* When all is quiet a live process is one that serves, so the pid file     *)
(* names it and is_running cannot miss it.                                  *)
LEMMA StartIsAlone ==
  ASSUME TypeOK, Alone, Orderly, Quiet, IsRunning(FALSE), NEW q \in Procs
  PROVE  ~ Alive(q)
<1> SUFFICES ASSUME Alive(q) PROVE FALSE
  OBVIOUS
<1>1. Named(q)
  BY DEF Quiet, Serving, Alone, Files
<1>2. pidtext[pidfile] # Empty
  BY <1>1, LifecycleAssumption DEF Named
<1>3. FALSE = Alive(q)
  BY <1>1, <1>2 DEF IsRunning, Named
<1> QED BY <1>3

(* A step of the one live process keeps the others as they are.             *)
LEMMA AloneStep == TypeOK /\ Alone /\ [Next]_vars => Alone'
<1> SUFFICES ASSUME TypeOK, Alone, [Next]_vars, Orderly' PROVE Alone'
  BY DEF Alone
<1> USE LifecycleAssumption
<1>0. Orderly
  BY DEF Orderly, Next, vars, StartRefused, StartAccepted, StartGiven, ProcessStep,
         OpenPidfile, OpenPidfileFails, WritePidfile, WritePidfileFails,
         UnlinkSocket, BindSocket, BindFails, CloseServer, RemoveSocket,
         RemovePidfile, Exit, StopByClient, Crash, StopCheck, StopSignal, TypeOK
<1>1. ASSUME NEW p \in Procs, StartRefused(p) PROVE Alone'
  <2>1. \A q \in Procs : Alive(q)' = Alive(q)
    BY <1>1 DEF StartRefused, Go, Alive, TypeOK
  <2>2. \A q \in Procs : Files(q)'
    BY <1>0, <1>1 DEF StartRefused, Go, Alone, Files, Named, TypeOK
  <2> QED BY <1>0, <2>1, <2>2 DEF Alone
<1>2. ASSUME NEW p \in Procs, StartAccepted(p) PROVE Alone'
  <2>1. Quiet
    BY <1>2 DEF StartAccepted, StartGiven, Orderly
  <2>2. \A q \in Procs : ~ Alive(q)
    BY <1>0, <1>2, <2>1, StartIsAlone DEF StartAccepted
  <2>3. \A q \in Procs : Alive(q)' => q = p
    BY <1>2, <2>2 DEF StartAccepted, Go, Alive, TypeOK
  <2>4. \A q \in Procs : Files(q)'
    BY <1>0, <1>2 DEF StartAccepted, Go, Alone, Files, Named, TypeOK
  <2> QED BY <2>3, <2>4 DEF Alone
<1>3. ASSUME NEW p \in Procs, ProcessStep(p) PROVE Alone'
  <2>1. Alive(p) /\ \A q \in Procs : Alive(q) => q = p
    BY <1>0, <1>3 DEF ProcessStep, OpenPidfile, OpenPidfileFails, WritePidfile,
       WritePidfileFails, UnlinkSocket, BindSocket, BindFails, CloseServer,
       RemoveSocket, RemovePidfile, Exit, Go, Alive, Alone
  <2>2. \A q \in Procs \ {p} : pc'[q] = pc[q]
    BY <1>3 DEF ProcessStep, OpenPidfile, OpenPidfileFails, WritePidfile,
       WritePidfileFails, UnlinkSocket, BindSocket, BindFails, CloseServer,
       RemoveSocket, RemovePidfile, Exit, Go, TypeOK
  <2>3. \A q \in Procs : Alive(q)' => q = p
    BY <2>1, <2>2 DEF Alive
  <2>4. \A q \in Procs \ {p} : Files(q)'
    BY <2>1, <2>2 DEF Files, Alive
  <2>5. Files(p)
    BY <1>0 DEF Alone
  <2>6. ASSUME OpenPidfile(p) PROVE Files(p)'
    BY <2>6 DEF OpenPidfile, Go, Files, TypeOK
  <2>7. ASSUME WritePidfile(p) PROVE Files(p)'
    BY <2>5, <2>7 DEF WritePidfile, Go, Files, Named, TypeOK
  <2>8. ASSUME UnlinkSocket(p) \/ BindSocket(p) \/ BindFails(p) PROVE Files(p)'
    BY <2>5, <2>8 DEF UnlinkSocket, BindSocket, BindFails, Go, Files, Named, TypeOK
  <2>9. ASSUME CloseServer(p) \/ RemoveSocket(p) \/ RemovePidfile(p) \/ Exit(p)
        PROVE  Files(p)'
    BY <2>5, <2>9 DEF CloseServer, RemoveSocket, RemovePidfile, Exit, Go, Files,
                      Named, TypeOK
  <2>10. ~ (OpenPidfileFails(p) \/ WritePidfileFails(p))
    BY DEF OpenPidfileFails, WritePidfileFails, Orderly
  <2>11. Files(p)'
    BY <1>3, <2>6, <2>7, <2>8, <2>9, <2>10 DEF ProcessStep
  <2> QED BY <2>3, <2>4, <2>11 DEF Alone
<1>4. ASSUME NEW p \in Procs, Crash(p) PROVE Alone'
  <2>1. \A q \in Procs : Alive(q)' => Alive(q)
    BY <1>4 DEF Crash, Alive, TypeOK
  <2>2. \A q \in Procs : Files(q)'
    BY <1>0, <1>4 DEF Crash, Alone, Files, Named, TypeOK
  <2> QED BY <1>0, <2>1, <2>2 DEF Alone
<1>5. ASSUME UNCHANGED <<pc, fd, pidfile, pidtext, socket>> PROVE Alone'
  <2>1. \A q \in Procs : Alive(q)' = Alive(q)
    BY <1>5 DEF Alive
  <2>2. \A q \in Procs : Files(q)'
    BY <1>0, <1>5 DEF Alone, Files, Named
  <2> QED BY <1>0, <2>1, <2>2 DEF Alone
<1>6. CASE (\E p \in Procs : StopByClient(p)) \/ StopCheck \/ StopSignal \/ UNCHANGED vars
  BY <1>5, <1>6 DEF StopByClient, StopCheck, StopSignal, vars
<1> QED BY <1>1, <1>2, <1>3, <1>4, <1>6 DEF Next

LEMMA AloneImplies == Alone => OneDaemon /\ DaemonReachable
BY DEF Alone, OneDaemon, DaemonReachable, Files, Named, Serving

(* Users who let each command have its effect never have two daemons, as    *)
(* long as every daemon could write its pid file.                           *)
THEOREM OnlyOneDaemon == Spec => []OneDaemon
BY TypeStarts, TypeStep, AloneStarts, AloneStep, AloneImplies, PTL DEF Spec

(* For the same users the pid file and the socket lead to the daemon that   *)
(* serves, also after crashes that left either behind.                      *)
THEOREM DaemonIsReachable == Spec => []DaemonReachable
BY TypeStarts, TypeStep, AloneStarts, AloneStep, AloneImplies, PTL DEF Spec

LEMMA ExitIsClean ==
  Alone => \A p \in Procs : Exit(p) /\ Orderly => pidfile = 0 /\ socket = None
BY DEF Alone, Exit, Go, Files

(* For the same users a daemon that exits by itself leaves neither file.    *)
THEOREM ExitsAreClean == Spec => CleanExit
<1>1. Alone => [\A p \in Procs : Exit(p) /\ Orderly => pidfile = 0 /\ socket = None]_vars
  BY ExitIsClean
<1> QED BY <1>1, TypeStarts, TypeStep, AloneStarts, AloneStep, PTL DEF Spec, CleanExit
=============================================================================
