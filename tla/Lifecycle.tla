----------------------------- MODULE Lifecycle -----------------------------
(***************************************************************************)
(* Which daemon runs: `clip daemon start` and `clip daemon stop`, the pid  *)
(* file by which commands find the daemon, the socket by which clients     *)
(* reach it, clean exits, failed starts and crashes.                       *)
(*                                                                         *)
(* A process is one run of `clip daemon start`; its name is the pid of the *)
(* grandchild that becomes the daemon.  A file that is unlinked stays with *)
(* those who have it open, so the pid file is a name (pidfile) for a file  *)
(* (an index of pidtext).                                                  *)
(*                                                                         *)
(* External to the program: the user, or systemd, who gives the commands   *)
(* at any moment.  systemd waits for one command to have its full effect   *)
(* before it gives the next start; the history variable hasty says that    *)
(* somebody once did not.                                                  *)
(***************************************************************************)
EXTENDS Naturals, Sequences

CONSTANTS
  Procs,         (* runs of `clip daemon start`                             *)
  None,          (* no file, no owner                                       *)
  Empty,         (* the text of a file between open and write               *)
  Crashes,       (* may a process die at any moment?                        *)
  DiskFaults,    (* may the pid file fail to open or to be written?         *)
  MaxStops       (* bound: runs of `clip daemon stop`                       *)

ASSUME LifecycleAssumption ==
  /\ None \notin Procs /\ Empty \notin Procs /\ None # Empty
  /\ Crashes \in BOOLEAN /\ DiskFaults \in BOOLEAN
  /\ MaxStops \in Nat

VARIABLES
  pc,            (* process -> where it is in main, daemonize and run       *)
  running,       (* process -> its running_                                 *)
  fd,            (* process -> the file its ofstream has open               *)
  pidfile,       (* the file the pid path names, 0 for none                 *)
  pidtext,       (* file -> its text: Empty or a pid                        *)
  socket,        (* the process whose socket the socket path names          *)
  cmd,           (* the last command: "stop" while it runs, "stopped" when
                    it reported success, "restarted" when a start followed  *)
  stops,         (* runs of `clip daemon stop` so far                       *)
  hasty,         (* was a start given before all was quiet?                 *)
  nameless       (* did a daemon go on without its pid in its file?         *)

vars == <<pc, running, fd, pidfile, pidtext, socket, cmd, stops, hasty, nameless>>

Init ==
  /\ pc = [p \in Procs |-> "new"]
  /\ running = [p \in Procs |-> TRUE]
  /\ fd = [p \in Procs |-> 0]
  /\ pidfile = 0
  /\ pidtext = <<>>
  /\ socket = None
  /\ cmd = "idle"
  /\ stops = 0
  /\ hasty = FALSE
  /\ nameless = FALSE

Go(p, from, to) == pc[p] = from /\ pc' = [pc EXCEPT ![p] = to]

Alive(p) == pc[p] \notin {"new", "refused", "done"}

Serving(p) == pc[p] = "serving"

-----------------------------------------------------------------------------
(* The pid file, as the commands read it                                   *)

(* is_running: no file means no.  From an empty file nothing is extracted   *)
(* and pid keeps the value of its memory, so kill may answer anything.      *)
IsRunning(answer) ==
  CASE pidfile = 0 -> answer = FALSE
    [] pidfile # 0 /\ pidtext[pidfile] = Empty -> answer \in BOOLEAN
    [] OTHER -> answer = Alive(pidtext[pidfile])

(* No command is under way and no process is on its way up or down.         *)
Quiet ==
  /\ cmd # "stop"
  /\ \A p \in Procs : Alive(p) => Serving(p) /\ running[p]

-----------------------------------------------------------------------------
(* clip daemon start                                                       *)

StartGiven ==
  /\ cmd' = IF cmd = "stopped" THEN "restarted" ELSE "idle"
  /\ hasty' = (hasty \/ ~ Quiet)

StartRefused(p) ==
  /\ IsRunning(TRUE)
  /\ Go(p, "new", "refused")
  /\ StartGiven
  /\ UNCHANGED <<running, fd, pidfile, pidtext, socket, stops, nameless>>

StartAccepted(p) ==
  /\ IsRunning(FALSE)
  /\ Go(p, "new", "daemonize")
  /\ StartGiven
  /\ UNCHANGED <<running, fd, pidfile, pidtext, socket, stops, nameless>>

(* Mutant: the file exists under its name only when it is written. *)
OpenPidfileLazily(p) ==
  /\ Go(p, "daemonize", "opened")
  /\ pidfile' = Len(pidtext) + 1
  /\ fd' = [fd EXCEPT ![p] = pidfile']
  /\ UNCHANGED <<running, pidtext, socket, cmd, stops, hasty, nameless>>

(* The ofstream of write_pidfile: an existing file is truncated.            *)
OpenPidfile(p) ==
  /\ Go(p, "daemonize", "opened")
  /\ IF pidfile = 0
     THEN /\ pidtext' = Append(pidtext, Empty)
          /\ pidfile' = Len(pidtext')
     ELSE /\ pidtext' = [pidtext EXCEPT ![pidfile] = Empty]
          /\ UNCHANGED pidfile
  /\ fd' = [fd EXCEPT ![p] = pidfile']
  /\ UNCHANGED <<running, socket, cmd, stops, hasty, nameless>>

(* Mutant: the stream is never flushed. *)
WritePidfileUnflushed(p) ==
  /\ Go(p, "opened", "written")
  /\ UNCHANGED <<running, fd, pidfile, pidtext, socket, cmd, stops, hasty,
                 nameless>>

WritePidfile(p) ==
  /\ Go(p, "opened", "written")
  /\ pidtext' = [pidtext EXCEPT ![fd[p]] = p]
  /\ UNCHANGED <<running, fd, pidfile, socket, cmd, stops, hasty, nameless>>

(* Whatever keeps write_pidfile from its file (no room, no right to write,  *)
(* no descriptor) is logged, and the daemon goes on.  What the path named   *)
(* before it names still.                                                   *)
OpenPidfileFails(p) ==
  /\ DiskFaults
  /\ Go(p, "daemonize", "written")
  /\ nameless' = TRUE
  /\ UNCHANGED <<running, fd, pidfile, pidtext, socket, cmd, stops, hasty>>

(* The file was truncated and the number does not get into it: not even     *)
(* this is logged.                                                          *)
WritePidfileFails(p) ==
  /\ DiskFaults
  /\ Go(p, "opened", "written")
  /\ nameless' = TRUE
  /\ UNCHANGED <<running, fd, pidfile, pidtext, socket, cmd, stops, hasty>>

(* Mutant: the socket left by a crashed daemon is not removed. *)
KeepSocket(p) ==
  /\ Go(p, "written", "unlinked")
  /\ UNCHANGED <<running, fd, pidfile, pidtext, socket, cmd, stops, hasty,
                 nameless>>

(* IPCServer::start removes whatever the socket path names.                 *)
UnlinkSocket(p) ==
  /\ Go(p, "written", "unlinked")
  /\ socket' = None
  /\ UNCHANGED <<running, fd, pidfile, pidtext, cmd, stops, hasty, nameless>>

(* Mutant: unlink comes after bind. *)
BindAndUnlink(p) ==
  /\ Go(p, "unlinked", "serving")
  /\ socket' = None
  /\ UNCHANGED <<running, fd, pidfile, pidtext, cmd, stops, hasty, nameless>>

BindSocket(p) ==
  /\ socket = None
  /\ Go(p, "unlinked", "serving")
  /\ socket' = p
  /\ UNCHANGED <<running, fd, pidfile, pidtext, cmd, stops, hasty, nameless>>

(* Mutant: bind is tried again for as long as the path is taken. *)
BindRetries(p) ==
  /\ socket # None
  /\ Go(p, "unlinked", "unlinked")
  /\ UNCHANGED <<running, fd, pidfile, pidtext, socket, cmd, stops, hasty,
                 nameless>>

(* bind fails when another daemon has bound the path meanwhile: the         *)
(* exception ends the process and the pid file stays.                       *)
BindFails(p) ==
  /\ socket # None
  /\ Go(p, "unlinked", "done")
  /\ UNCHANGED <<running, fd, pidfile, pidtext, socket, cmd, stops, hasty,
                 nameless>>

-----------------------------------------------------------------------------
(* clip daemon stop reads the pid file twice: is_running, then stop         *)

StopCheck ==
  /\ stops < MaxStops
  /\ cmd # "stop"
  /\ IsRunning(TRUE)
  /\ cmd' = "stop"
  /\ stops' = stops + 1
  /\ UNCHANGED <<pc, running, fd, pidfile, pidtext, socket, hasty, nameless>>

(* Whatever became of the signal, "Daemon stopped" is printed and the exit  *)
(* code is 0.  An empty file leaves a pid that names no daemon.             *)
StopSignal ==
  /\ cmd = "stop"
  /\ cmd' = "stopped"
  /\ running' = [p \in Procs |->
       running[p] /\ ~ (pidfile # 0 /\ pidtext[pidfile] = p)]
  /\ UNCHANGED <<pc, fd, pidfile, pidtext, socket, stops, hasty, nameless>>

(* The command STOP, over the socket.                                       *)
StopByClient(p) ==
  /\ stops < MaxStops
  /\ socket = p /\ Serving(p)
  /\ running' = [running EXCEPT ![p] = FALSE]
  /\ stops' = stops + 1
  /\ cmd' = IF cmd = "restarted" THEN "idle" ELSE cmd
  /\ UNCHANGED <<pc, fd, pidfile, pidtext, socket, hasty, nameless>>

-----------------------------------------------------------------------------
(* The end of run: both files go by their names, whoever they belong to     *)

CloseServer(p) ==
  /\ ~ running[p]
  /\ Go(p, "serving", "closing")
  /\ UNCHANGED <<running, fd, pidfile, pidtext, socket, cmd, stops, hasty,
                 nameless>>

(* Mutant: stop closes the socket and leaves its file. *)
LeaveSocket(p) ==
  /\ Go(p, "closing", "closed")
  /\ UNCHANGED <<running, fd, pidfile, pidtext, socket, cmd, stops, hasty,
                 nameless>>

RemoveSocket(p) ==
  /\ Go(p, "closing", "closed")
  /\ socket' = None
  /\ UNCHANGED <<running, fd, pidfile, pidtext, cmd, stops, hasty, nameless>>

RemovePidfile(p) ==
  /\ Go(p, "closed", "removed")
  /\ pidfile' = 0
  /\ UNCHANGED <<running, fd, pidtext, socket, cmd, stops, hasty, nameless>>

Exit(p) ==
  /\ Go(p, "removed", "done")
  /\ UNCHANGED <<running, fd, pidfile, pidtext, socket, cmd, stops, hasty,
                 nameless>>

(* SIGKILL, an exception in any thread, the Storage that cannot be opened.  *)
Crash(p) ==
  /\ Crashes
  /\ Alive(p)
  /\ pc' = [pc EXCEPT ![p] = "done"]
  /\ cmd' = IF cmd = "restarted" THEN "idle" ELSE cmd
  /\ UNCHANGED <<running, fd, pidfile, pidtext, socket, stops, hasty,
                 nameless>>

-----------------------------------------------------------------------------
ProcessStep(p) ==
  \/ OpenPidfile(p) \/ OpenPidfileFails(p)
  \/ WritePidfile(p) \/ WritePidfileFails(p)
  \/ UnlinkSocket(p) \/ BindSocket(p) \/ BindFails(p)
  \/ CloseServer(p) \/ RemoveSocket(p) \/ RemovePidfile(p) \/ Exit(p)

Next ==
  \/ \E p \in Procs :
       \/ StartRefused(p) \/ StartAccepted(p)
       \/ ProcessStep(p)
       \/ StopByClient(p)
       \/ Crash(p)
  \/ StopCheck
  \/ StopSignal

Spec == Init /\ [][Next]_vars

(* A live process goes on: the sleeps of 500 ms end, system calls return,   *)
(* and so does the stop command.                                            *)
FairSpec ==
  /\ Spec
  /\ \A p \in Procs : WF_vars(ProcessStep(p))
  /\ WF_vars(StopSignal)

-----------------------------------------------------------------------------
TypeOK ==
  /\ pc \in [Procs -> {"new", "refused", "daemonize", "opened", "written",
                       "unlinked", "serving", "closing", "closed", "removed",
                       "done"}]
  /\ running \in [Procs -> BOOLEAN]
  /\ fd \in [Procs -> 0 .. Len(pidtext)]
  /\ pidfile \in 0 .. Len(pidtext)
  /\ pidtext \in Seq(Procs \cup {Empty})
  /\ socket \in Procs \cup {None}
  /\ cmd \in {"idle", "stop", "stopped", "restarted"}
  /\ stops \in Nat
  /\ hasty \in BOOLEAN
  /\ nameless \in BOOLEAN

(* Every start so far was given when all was quiet, and every daemon got    *)
(* its pid into the file.                                                   *)
Orderly == ~ hasty /\ ~ nameless

(* For users who wait, as systemd does, and while the pid file can be       *)
(* written.  Two daemons would both record the clipboard, each with its own *)
(* last_content, and the one that loses the socket could not be reached.    *)
OneDaemon ==
  Orderly => \A p, q \in Procs : Alive(p) /\ Alive(q) => p = q

(* For the same users: as long as nobody asked it to stop, the daemon that  *)
(* serves is the one the pid file names and the one clients reach.          *)
DaemonReachable ==
  Orderly => \A p \in Procs : Serving(p) /\ running[p] =>
                /\ pidfile # 0 /\ pidtext[pidfile] = p
                /\ socket = p

(* For the same users: a daemon that exits cleanly leaves neither file.     *)
CleanExit ==
  [][\A p \in Procs : Exit(p) /\ Orderly => pidfile = 0 /\ socket = None]_vars

(* `clip daemon stop && clip daemon start` ends with a daemon that serves,  *)
(* unless it crashes or another command is given.  The pid file of a daemon *)
(* that died before it wrote its pid is excepted: what the commands make of *)
(* an empty file is chance.                                                 *)
PidfileEmpty == pidfile # 0 /\ pidtext[pidfile] = Empty

RestartEnds ==
  \/ cmd # "restarted"
  \/ \E p \in Procs : Serving(p) /\ running[p]

(* The README's way to restart, typed as it stands there.                   *)
DocumentedRestartServes ==
  cmd = "restarted" /\ ~ PidfileEmpty ~> RestartEnds

(* The same for users who let the stop take effect before they start.       *)
RestartServes ==
  cmd = "restarted" /\ ~ PidfileEmpty /\ ~ hasty ~> RestartEnds \/ hasty

(* Even when commands are given at any time and daemons overlap: the socket *)
(* path leads to a daemon that has not finished IPCServer::stop, or to one  *)
(* that crashed and is there for the next start to remove; one that exits   *)
(* by itself leaves clients nothing to fail on.                             *)
SocketAnswers ==
  socket # None =>
    \/ pc[socket] \in {"serving", "closing"}
    \/ Crashes /\ pc[socket] = "done"

(* A process that was told to stop ends, wherever it was at the time.       *)
StopIsObeyed ==
  \A p \in Procs : Alive(p) /\ ~ running[p] ~> pc[p] = "done"
=============================================================================
