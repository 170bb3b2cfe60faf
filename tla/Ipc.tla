-------------------------------- MODULE Ipc --------------------------------
(***************************************************************************)
(* The Unix socket between clients and the daemon (ipc.cpp): an accept     *)
(* loop, a detached thread per connection, clients that send one fixed     *)
(* Message, read one fixed Response and hang up, and the main thread that  *)
(* closes the socket and destroys the Storage while threads may be inside. *)
(*                                                                         *)
(* External to the program is what Linux makes of the calls.  A Message    *)
(* arrives whole; a Response is longer than one socket buffer segment and  *)
(* arrives in Parts pieces, and read returns what is there.  write to a    *)
(* peer that hung up raises SIGPIPE, which nobody ignores, unless a piece  *)
(* was already written.  close does not wake a thread blocked in accept,   *)
(* and the socket lives on until accept returns.  The connection accept    *)
(* takes is any waiting one: no property depends on their order.  A client *)
(* of the browser runs with ncurses' handler of SIGWINCH, which does not   *)
(* restart a system call: a resize ends a read or a connect that waits.    *)
(***************************************************************************)
EXTENDS Naturals, FiniteSets

CONSTANTS
  Clients,       (* each is one command of a user, or of a script           *)
  Malformed,     (* those whose payload makes std::stoi throw               *)
  Stalled,       (* those that may stop for ever at any point (Ctrl-Z)      *)
  Browsers,      (* those sent by the browser, in a terminal that may change *)
  Backlog,       (* the argument of listen: 5 in the code                   *)
  Parts,         (* pieces of a Response                                    *)
  Faults         (* which of the following happen                           *)

AllFaults == {"hangup", "kill", "accept", "storage"}

ASSUME IpcAssumption ==
  /\ Malformed \subseteq Clients /\ Stalled \subseteq Clients
  /\ Browsers \subseteq Clients
  /\ Backlog \in Nat
  /\ Parts \in Nat \ {0}
  /\ Faults \subseteq AllFaults

VARIABLES
  client,        (* client -> where it is, or how it ended                  *)
  server,        (* client -> the daemon's end of its connection            *)
  sent,          (* client -> pieces of the Response written to it          *)
  carried,       (* client -> how often its command was carried out         *)
  lost,          (* clients whose command's statement failed (history)      *)
  acceptor,      (* the accept loop                                         *)
  main           (* the main thread, or how the process ended               *)

vars == <<client, server, sent, carried, lost, acceptor, main>>

Ended == {"exited", "killed", "threw", "brokenpipe"}

IpcInit ==
  /\ client = [c \in Clients |-> "new"]
  /\ server = [c \in Clients |-> "none"]
  /\ sent = [c \in Clients |-> 0]
  /\ carried = [c \in Clients |-> 0]
  /\ lost = {}
  /\ acceptor = "test"
  /\ main = "running"

(* The socket accepts connections until stop closes it, and for as long as  *)
(* the accept loop is inside accept.                                        *)
Listening == main \in {"running", "stopping"} \/ acceptor = "accept"

(* A path that leads to the socket: stop unlinks it after it closed it.     *)
Reachable == Listening /\ main \in {"running", "stopping", "closing"}

(* When the socket goes, so do the connections nobody accepted.             *)
Reset(srv) == [c \in Clients |-> IF srv[c] = "queued" THEN "closed" ELSE srv[c]]

(* The process ends: every thread stops and every descriptor is closed.     *)
EndProcess(how) ==
  /\ main' = how
  /\ acceptor' = "gone"
  /\ server' = [c \in Clients |-> IF server[c] = "none" THEN "none" ELSE "closed"]

-----------------------------------------------------------------------------
(* IPCClient, as send_cmd and tui_send call it                             *)

BacklogFull == Cardinality({d \in Clients : server[d] = "queued"}) > Backlog

(* connect blocks while the backlog is full.                                *)
Connect(c) ==
  /\ client[c] = "new"
  /\ Reachable
  /\ ~ BacklogFull
  /\ client' = [client EXCEPT ![c] = "connected"]
  /\ server' = [server EXCEPT ![c] = "queued"]
  /\ UNCHANGED <<sent, carried, lost, acceptor, main>>

ConnectRefused(c) ==
  /\ client[c] = "new"
  /\ ~ Reachable
  /\ client' = [client EXCEPT ![c] = "failed"]
  /\ UNCHANGED <<server, sent, carried, lost, acceptor, main>>

(* The write of send.  The daemon's end may be closed: SIGPIPE.             *)
Send(c) ==
  /\ client[c] = "connected"
  /\ client' = [client EXCEPT ![c] =
                  IF server[c] = "closed" THEN "brokenpipe" ELSE "waiting"]
  /\ UNCHANGED <<server, sent, carried, lost, acceptor, main>>

(* Mutant: the client does not wait for an answer that is late. *)
ReceiveOrGiveUp(c) ==
  /\ client[c] = "waiting"
  /\ client' = [client EXCEPT ![c] = IF sent[c] = Parts THEN "answered" ELSE "failed"]
  /\ UNCHANGED <<server, sent, carried, lost, acceptor, main>>

(* The one read of send, and disconnect: anything shorter than a Response   *)
(* is "Invalid response from daemon".                                       *)
Receive(c) ==
  /\ client[c] = "waiting"
  /\ sent[c] > 0 \/ server[c] = "closed"
  /\ client' = [client EXCEPT ![c] = IF sent[c] = Parts THEN "answered" ELSE "failed"]
  /\ UNCHANGED <<server, sent, carried, lost, acceptor, main>>

(* The terminal of the browser is resized while connect or read waits: the  *)
(* call returns -1, and the client closes the connection and goes on.       *)
Interrupt(c) ==
  /\ c \in Browsers
  /\ \/ /\ client[c] = "new" /\ Reachable /\ BacklogFull
        /\ client' = [client EXCEPT ![c] = "failed"]
     \/ /\ client[c] = "waiting" /\ sent[c] = 0 /\ server[c] # "closed"
        /\ client' = [client EXCEPT ![c] = "interrupted"]
  /\ UNCHANGED <<server, sent, carried, lost, acceptor, main>>

(* Ctrl-C, a closed terminal: before its Message was sent, or after.        *)
Hangup(c) ==
  /\ "hangup" \in Faults
  /\ client[c] \in {"new", "connected", "waiting"}
  /\ client' = [client EXCEPT ![c] = IF @ = "waiting" THEN "killed" ELSE "left"]
  /\ UNCHANGED <<server, sent, carried, lost, acceptor, main>>

Gone(c) ==
  client[c] \in {"answered", "failed", "brokenpipe", "interrupted", "left", "killed"}

-----------------------------------------------------------------------------
(* The accept loop                                                         *)

AcceptTest ==
  /\ acceptor = "test"
  /\ acceptor' = IF main \in {"running", "stopping"} THEN "accept" ELSE "gone"
  /\ UNCHANGED <<client, server, sent, carried, lost, main>>

(* Mutant: the loop serves a connection before it accepts another. *)
AcceptAlone(c) ==
  /\ \A d \in Clients : server[d] \notin {"read", "handle", "write"}
  /\ acceptor = "accept"
  /\ server[c] = "queued"
  /\ server' = [server EXCEPT ![c] = "read"]
  /\ acceptor' = "test"
  /\ UNCHANGED <<client, sent, carried, lost, main>>

(* The test that follows fails when stop ran meanwhile, and the socket that *)
(* accept held goes away.                                                   *)
Accept(c) ==
  /\ acceptor = "accept"
  /\ server[c] = "queued"
  /\ LET srv == [server EXCEPT ![c] = "read"] IN
     IF main \in {"running", "stopping"}
     THEN server' = srv /\ acceptor' = "test"
     ELSE server' = Reset(srv) /\ acceptor' = "gone"
  /\ UNCHANGED <<client, sent, carried, lost, main>>

(* No descriptor left, for one: the loop ends for good, as if the socket    *)
(* had been closed.                                                         *)
AcceptFails ==
  /\ "accept" \in Faults
  /\ acceptor = "accept"
  /\ acceptor' = "gone"
  /\ server' = IF main \in {"running", "stopping"} THEN server ELSE Reset(server)
  /\ UNCHANGED <<client, sent, carried, lost, main>>

-----------------------------------------------------------------------------
(* The thread of a connection                                              *)

(* Mutant: a read of nothing is tried again. *)
ReadAgain(c) ==
  /\ server[c] = "read"
  /\ client[c] \notin {"connected", "left"}
  /\ server' = [server EXCEPT ![c] = "handle"]
  /\ UNCHANGED <<client, sent, carried, lost, acceptor, main>>

(* read returns the Message, or nothing when the client hung up before.     *)
Read(c) ==
  /\ server[c] = "read"
  /\ client[c] # "connected"
  /\ server' = [server EXCEPT ![c] = IF client[c] = "left" THEN "closed" ELSE "handle"]
  /\ UNCHANGED <<client, sent, carried, lost, acceptor, main>>

(* Mutant: a command is handled until a client has its answer. *)
HandleRepeatedly(c) ==
  /\ server[c] = "handle"
  /\ carried' = [carried EXCEPT ![c] = @ + 1]
  /\ \E next \in {"handle", "write"} : server' = [server EXCEPT ![c] = next]
  /\ carried[c] < 2
  /\ UNCHANGED <<client, sent, lost, acceptor, main>>

(* handle_message on a Storage that exists.                                 *)
Handle(c) ==
  /\ server[c] = "handle"
  /\ c \notin Malformed
  /\ main # "destroyed"
  /\ carried' = [carried EXCEPT ![c] = @ + 1]
  /\ server' = [server EXCEPT ![c] = "write"]
  /\ UNCHANGED <<client, sent, lost, acceptor, main>>

(* The statement fails.  delete_item, clear_history, pin_item and           *)
(* save_snippet tell nobody, and the handler answers as if it had not.      *)
HandleFails(c) ==
  /\ "storage" \in Faults
  /\ server[c] = "handle"
  /\ c \notin Malformed
  /\ main # "destroyed"
  /\ lost' = lost \cup {c}
  /\ server' = [server EXCEPT ![c] = "write"]
  /\ UNCHANGED <<client, sent, carried, acceptor, main>>

(* std::stoi throws, and nothing catches it: std::terminate.                *)
HandleThrows(c) ==
  /\ server[c] = "handle"
  /\ c \in Malformed
  /\ EndProcess("threw")
  /\ UNCHANGED <<client, sent, carried, lost>>

(* run destroyed the Storage the handler has by reference: undefined.       *)
HandleDestroyed(c) ==
  /\ server[c] = "handle"
  /\ c \notin Malformed
  /\ main = "destroyed"
  /\ \/ /\ carried' \in {carried, [carried EXCEPT ![c] = @ + 1]}
        /\ server' = [server EXCEPT ![c] = "write"]
        /\ UNCHANGED <<acceptor, main>>
     \/ EndProcess("killed") /\ UNCHANGED carried
  /\ UNCHANGED <<client, sent, lost>>

(* Mutant: the number of pieces is off by one. *)
WriteOneMore(c) ==
  /\ server[c] = "write"
  /\ ~ Gone(c)
  /\ sent' = [sent EXCEPT ![c] = @ + 1]
  /\ server' = [server EXCEPT ![c] = IF sent'[c] > Parts THEN "closed" ELSE "write"]
  /\ UNCHANGED <<client, carried, lost, acceptor, main>>

(* The write of a Response: the next piece, and close after the last one.   *)
Write(c) ==
  /\ server[c] = "write"
  /\ ~ Gone(c)
  /\ sent' = [sent EXCEPT ![c] = @ + 1]
  /\ server' = [server EXCEPT ![c] = IF sent'[c] = Parts THEN "closed" ELSE "write"]
  /\ UNCHANGED <<client, carried, lost, acceptor, main>>

(* The client has hung up.                                                  *)
WriteBreaks(c) ==
  /\ server[c] = "write"
  /\ Gone(c)
  /\ IF sent[c] = 0
     THEN EndProcess("brokenpipe")
     ELSE server' = [server EXCEPT ![c] = "closed"] /\ UNCHANGED <<acceptor, main>>
  /\ UNCHANGED <<client, sent, carried, lost>>

-----------------------------------------------------------------------------
(* The main thread: the end of run, and of main                            *)

(* SIGTERM, SIGINT or the command STOP; the loop looks at running_ later.   *)
RequestStop ==
  /\ main = "running"
  /\ main' = "stopping"
  /\ UNCHANGED <<client, server, sent, carried, lost, acceptor>>

CloseServer ==
  /\ main = "stopping"
  /\ main' = "closing"
  /\ server' = IF acceptor = "accept" THEN server ELSE Reset(server)
  /\ UNCHANGED <<client, sent, carried, lost, acceptor>>

RemoveSocket ==
  /\ main = "closing"
  /\ main' = "unlinked"
  /\ UNCHANGED <<client, server, sent, carried, lost, acceptor>>

DestroyStorage ==
  /\ main = "unlinked"
  /\ main' = "destroyed"
  /\ UNCHANGED <<client, server, sent, carried, lost, acceptor>>

Exit ==
  /\ main = "destroyed"
  /\ EndProcess("exited")
  /\ UNCHANGED <<client, sent, carried, lost>>

(* SIGKILL, power loss, a thread that cannot be created.                    *)
Kill ==
  /\ "kill" \in Faults
  /\ main \notin Ended
  /\ EndProcess("killed")
  /\ UNCHANGED <<client, sent, carried, lost>>

-----------------------------------------------------------------------------
ClientStep(c) == Connect(c) \/ ConnectRefused(c) \/ Send(c) \/ Receive(c)

AcceptorStep == AcceptTest \/ (\E c \in Clients : Accept(c))

HandlerStep(c) ==
  Read(c) \/ Handle(c) \/ HandleFails(c) \/ HandleThrows(c)
    \/ HandleDestroyed(c) \/ Write(c) \/ WriteBreaks(c)

MainStep == CloseServer \/ RemoveSocket \/ DestroyStorage \/ Exit

IpcNext ==
  \/ \E c \in Clients : ClientStep(c) \/ Interrupt(c) \/ Hangup(c) \/ HandlerStep(c)
  \/ AcceptorStep \/ AcceptFails
  \/ MainStep \/ RequestStop \/ Kill

IpcSpec == IpcInit /\ [][IpcNext]_vars

(* Every thread of the daemon goes on when it can, and so does a client     *)
(* that nobody stops.                                                       *)
IpcFairSpec ==
  /\ IpcSpec
  /\ \A c \in Clients \ Stalled : WF_vars(ClientStep(c))
  /\ \A c \in Clients : WF_vars(HandlerStep(c))
  /\ WF_vars(AcceptorStep)
  /\ WF_vars(MainStep)

-----------------------------------------------------------------------------
IpcTypeOK ==
  /\ client \in [Clients -> {"new", "connected", "waiting", "answered", "failed",
                             "brokenpipe", "interrupted", "left", "killed"}]
  /\ server \in [Clients -> {"none", "queued", "read", "handle", "write", "closed"}]
  /\ sent \in [Clients -> 0 .. Parts]
  /\ carried \in [Clients -> Nat]
  /\ lost \subseteq Clients
  /\ acceptor \in {"test", "accept", "gone"}
  /\ main \in {"running", "stopping", "closing", "unlinked", "destroyed"} \cup Ended

(* The whole transport keeps the promise of RemoteCall: at most once, and   *)
(* no answer for a command that was not carried out, unless its statement   *)
(* failed or run has already destroyed the Storage.                         *)
Outcome(c) ==
  IF client[c] = "answered" THEN "answered"
  ELSE IF Gone(c) THEN "unanswered" ELSE "none"

StorageGone == main \in Ended \cup {"destroyed"}

Call == INSTANCE RemoteCall WITH
  outcome <- [c \in Clients |-> Outcome(c)],
  down <- StorageGone

ImplementsCall == Call!Spec

(* Clients that stall, in the backlog or with a thread of their own, and    *)
(* clients that hang up do not keep another client waiting for ever.  An    *)
(* accept loop that ended on an error does.                                 *)
AcceptorLost == acceptor = "gone" /\ main \in {"running", "stopping"}

CallEnds ==
  \A c \in Clients \ Stalled : <>(Gone(c) \/ AcceptorLost)

(* No thread and no descriptor stays behind for a client that is gone.      *)
HandlersEnd ==
  \A c \in Clients :
    server[c] \in {"read", "handle", "write"} /\ Gone(c) ~> server[c] = "closed"

(* Only a client that was killed, or whose terminal was resized, while it   *)
(* waited for its answer can break the daemon's pipe: one that takes a      *)
(* short answer for an invalid one and hangs up early, or that is cut off   *)
(* by stop, never ends the daemon.                                          *)
DaemonSurvives ==
  main = "brokenpipe" =>
    \E c \in Clients : \/ client[c] = "killed"
                       \/ c \in Browsers /\ client[c] = "interrupted"

(* ipc.h: "fixed sizes guarantee both sides read/write exact byte counts".  *)
(* A command that was carried out by a daemon that goes on is reported so.  *)
CarriedIsReported ==
  \A c \in Clients : client[c] = "failed" /\ carried[c] > 0 => main # "running"
=============================================================================
