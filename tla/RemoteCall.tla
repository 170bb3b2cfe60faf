----------------------------- MODULE RemoteCall -----------------------------
(***************************************************************************)
(* What a client may expect of one command sent to the daemon, whatever    *)
(* happens to connections, threads and processes in between: it is carried *)
(* out at most once, and an answer means that it was carried out, unless   *)
(* its statement failed, which nobody is told, or the daemon was being     *)
(* taken down.  A client without an answer knows nothing: its command may  *)
(* still be carried out.                                                   *)
(***************************************************************************)
EXTENDS Naturals

CONSTANT Clients     (* every client sends one command                      *)

VARIABLES
  carried,           (* client -> how often its command was carried out     *)
  lost,              (* clients whose command failed in the database        *)
  outcome,           (* client -> "none", "answered" or "unanswered"        *)
  down               (* has the daemon given up its storage?                *)

vars == <<carried, lost, outcome, down>>

Init ==
  /\ carried = [c \in Clients |-> 0]
  /\ lost = {}
  /\ outcome = [c \in Clients |-> "none"]
  /\ down = FALSE

Carry(c) ==
  /\ carried[c] = 0 /\ c \notin lost
  /\ carried' = [carried EXCEPT ![c] = 1]
  /\ UNCHANGED <<lost, outcome, down>>

Lose(c) ==
  /\ carried[c] = 0 /\ c \notin lost
  /\ lost' = lost \cup {c}
  /\ UNCHANGED <<carried, outcome, down>>

Answered(c) ==
  /\ outcome[c] = "none"
  /\ carried[c] = 1 \/ c \in lost \/ down
  /\ outcome' = [outcome EXCEPT ![c] = "answered"]
  /\ UNCHANGED <<carried, lost, down>>

Unanswered(c) ==
  /\ outcome[c] = "none"
  /\ outcome' = [outcome EXCEPT ![c] = "unanswered"]
  /\ UNCHANGED <<carried, lost, down>>

TakeDown ==
  /\ down' = TRUE
  /\ UNCHANGED <<carried, lost, outcome>>

Next ==
  \/ \E c \in Clients : Carry(c) \/ Lose(c) \/ Answered(c) \/ Unanswered(c)
  \/ TakeDown

Spec == Init /\ [][Next]_vars
=============================================================================
