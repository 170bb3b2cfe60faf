----------------------------- MODULE HistoryLog -----------------------------
(***************************************************************************)
(* What the clipboard history promises to everything that reads it: an     *)
(* append-only log.  A row gets the next number when it is written, keeps  *)
(* its number and its text for as long as it exists, and once it is gone   *)
(* its number is never given to another row.  `clip delete <id>`, `clip    *)
(* pin <id>` and the interactive browser, which send back numbers they     *)
(* read some time ago, are meaningful only because of this promise.        *)
(***************************************************************************)
EXTENDS Naturals

CONSTANT Texts   (* what a row may hold *)

VARIABLES
  issued,        (* the number of rows ever written, the largest number given *)
  live           (* the rows that exist: number -> text                       *)

vars == <<issued, live>>

Init ==
  /\ issued = 0
  /\ live = [i \in {} |-> i]

(* A new row enters under a fresh number. *)
Write(t) ==
  /\ issued' = issued + 1
  /\ live' = [i \in DOMAIN live \cup {issued + 1} |->
                IF i = issued + 1 THEN t ELSE live[i]]

(* Some rows disappear; the others are as they were. *)
Remove(S) ==
  /\ live' = [i \in DOMAIN live \ S |-> live[i]]
  /\ UNCHANGED issued

Next ==
  \/ \E t \in Texts : Write(t)
  \/ \E S \in SUBSET DOMAIN live : Remove(S)

Spec == Init /\ [][Next]_vars
=============================================================================
