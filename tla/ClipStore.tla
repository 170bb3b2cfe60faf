------------------------------ MODULE ClipStore ------------------------------
(***************************************************************************)
(* The class Storage: the two SQLite tables, and one action per method     *)
(* that changes them.  A method is one SQL statement, which SQLite runs    *)
(* atomically, except save_item, which is two (is_duplicate, then INSERT). *)
(* Here save_item is one action, SaveItem, as for a caller alone with the  *)
(* database on whom the clock waits; module Daemon takes the statements,   *)
(* and the times bound to them, apart, because there other threads run and *)
(* time passes between.                                                    *)
(*                                                                         *)
(* A row's text is an element of Contents and detect_type is the function  *)
(* TypeOf on it.  The columns app, created and the snippet id are never    *)
(* read back by the program and are left out.                              *)
(***************************************************************************)
EXTENDS Integers, FiniteSets

CONSTANTS
  Contents,      (* clipboard texts, as they are after trimming              *)
  TypeOf,        (* detect_type: the type utils.cpp gives a text             *)
  Names,         (* snippet names                                            *)
  SecretTtl,     (* seconds a secret is kept: the 30 written in save_item    *)
  Limits,        (* values of max_history a caller may pass, and of LIMIT    *)
  MaxNow,        (* bound: the clock stops here                              *)
  MaxIds         (* bound of StoreNext: rows ever written                    *)

Types == {"text", "url", "path", "code", "secret"}

ASSUME StoreAssumption ==
  /\ TypeOf \in [Contents -> Types]
  /\ SecretTtl \in Nat
  /\ Limits \subseteq Int
  /\ MaxNow \in Nat
  /\ MaxIds \in Nat

VARIABLES
  history,       (* table history: id -> row                                 *)
  seq,           (* sqlite_sequence: the largest id AUTOINCREMENT gave       *)
  snippets,      (* table snippets: name -> text                             *)
  now            (* time(nullptr), in seconds                                *)

tables == <<history, seq, snippets>>
storeVars == <<history, seq, snippets, now>>

Row == [content: Contents, type: Types, timestamp: Nat, pinned: BOOLEAN,
        expires_at: Nat]

Ids == DOMAIN history

EmptyTable == [i \in {} |-> i]

(* create_tables on a database file that did not exist.                     *)
StoreInit ==
  /\ history = EmptyTable
  /\ seq = 0
  /\ snippets = EmptyTable
  /\ now = 1

-----------------------------------------------------------------------------
(* save_item                                                               *)

(* Mutant: is_duplicate says yes when its query returns no row.             *)
IsDuplicateOrEmpty(c) ==
  \A i \in Ids : (\A j \in Ids : j <= i) => history[i].content = c

(* Only the newest row that still exists counts.                            *)
IsDuplicate(c) ==
  \E i \in Ids : (\A j \in Ids : j <= i) /\ history[i].content = c

(* Mutant: every row expires. *)
ExpiryOfAll(c) == now + SecretTtl

ExpiryOf(c) == IF TypeOf[c] = "secret" THEN now + SecretTtl ELSE 0

(* Mutant: a row is written and sqlite_sequence is not advanced.            *)
InsertKeepingSeq(c, at, expires) ==
  /\ seq' = seq
  /\ history' = [i \in Ids \cup {seq + 1} |->
                   IF i = seq + 1
                   THEN [content |-> c, type |-> TypeOf[c],
                         timestamp |-> at, pinned |-> FALSE,
                         expires_at |-> expires]
                   ELSE history[i]]

(* Mutant: INTEGER PRIMARY KEY without AUTOINCREMENT, which gives the       *)
(* largest id still present plus one.                                       *)
InsertAfterLargest(c, at, expires) ==
  LET id == IF Ids = {} THEN 1
            ELSE 1 + (CHOOSE i \in Ids : \A j \in Ids : j <= i)
  IN  /\ seq' = id
      /\ history' = [i \in Ids \cup {id} |->
                       IF i = id
                       THEN [content |-> c, type |-> TypeOf[c],
                             timestamp |-> at, pinned |-> FALSE,
                             expires_at |-> expires]
                       ELSE history[i]]

(* INSERT INTO history: an AUTOINCREMENT id and the column defaults.  Both  *)
(* times are bound to the statement before it runs.                         *)
InsertItem(c, at, expires) ==
  /\ seq' = seq + 1
  /\ history' = [i \in Ids \cup {seq + 1} |->
                   IF i = seq + 1
                   THEN [content |-> c, type |-> TypeOf[c],
                         timestamp |-> at, pinned |-> FALSE,
                         expires_at |-> expires]
                   ELSE history[i]]

SaveItem(c) ==
  /\ seq < MaxIds
  /\ ~ IsDuplicate(c)
  /\ InsertItem(c, now, ExpiryOf(c))
  /\ UNCHANGED <<snippets, now>>

-----------------------------------------------------------------------------
(* The DELETE and UPDATE statements                                        *)

Discard(S) == history' = [i \in Ids \ S |-> history[i]]

Expired(at) == {i \in Ids : history[i].expires_at > 0 /\ history[i].expires_at < at}

(* delete_expired: the time is bound to the statement before it runs, and   *)
(* no row is spared for being pinned.                                       *)
DeleteExpired(at) ==
  /\ Discard(Expired(at))
  /\ UNCHANGED <<seq, snippets>>

DeleteItem(i) ==
  /\ Discard({i})
  /\ UNCHANGED <<seq, snippets>>

Unpinned == {i \in Ids : ~ history[i].pinned}

ClearHistory ==
  /\ Discard(Unpinned)
  /\ UNCHANGED <<seq, snippets>>

PinItem(i, pinned) ==
  /\ i \in Ids
  /\ history' = [history EXCEPT ![i].pinned = pinned]
  /\ UNCHANGED <<seq, snippets>>

(* Mutant: the inner SELECT without WHERE pinned = 0, so that pinned rows   *)
(* use up the LIMIT.                                                        *)
OldestOfAll(max_history) ==
  {i \in Unpinned : Cardinality({j \in Ids : j < i})
                      < Cardinality(Ids) - max_history}

(* The oldest unpinned rows, as many as there are rows over the limit, if   *)
(* so many are unpinned.  A limit that is not exceeded selects nothing.     *)
EvictionVictims(max_history) ==
  {i \in Unpinned : Cardinality({j \in Unpinned : j < i})
                      < Cardinality(Ids) - max_history}

EvictOldItems(max_history) ==
  /\ Discard(EvictionVictims(max_history))
  /\ UNCHANGED <<seq, snippets>>

(* INSERT OR REPLACE: the new text wins.                                    *)
SaveSnippet(name, c) ==
  /\ snippets' = [n \in DOMAIN snippets \cup {name} |->
                    IF n = name THEN c ELSE snippets[n]]
  /\ UNCHANGED <<history, seq>>

DeleteSnippet(name) ==
  /\ snippets' = [n \in DOMAIN snippets \ {name} |-> snippets[n]]
  /\ UNCHANGED <<history, seq>>

-----------------------------------------------------------------------------
(* A caller alone with the database: the class Storage as its header        *)
(* declares it, every public method that writes included.                   *)

StoreTick ==
  /\ now < MaxNow
  /\ now' = now + 1
  /\ UNCHANGED tables

StoreNext ==
  \/ \E c \in Contents : SaveItem(c)
  \/ DeleteExpired(now) /\ UNCHANGED now
  \/ \E i \in Ids : DeleteItem(i) /\ UNCHANGED now
  \/ ClearHistory /\ UNCHANGED now
  \/ \E i \in Ids, p \in BOOLEAN : PinItem(i, p) /\ UNCHANGED now
  \/ \E m \in Limits : EvictOldItems(m) /\ UNCHANGED now
  \/ \E n \in Names, c \in Contents : SaveSnippet(n, c) /\ UNCHANGED now
  \/ \E n \in Names : DeleteSnippet(n) /\ UNCHANGED now
  \/ StoreTick

StoreSpec == StoreInit /\ [][StoreNext]_storeVars

-----------------------------------------------------------------------------
(* Properties                                                              *)

(* Every table holds what its schema says, and no id is beyond the          *)
(* AUTOINCREMENT counter.                                                   *)
StoreTypeOK ==
  /\ seq \in Nat
  /\ now \in Nat \ {0}
  /\ Ids \subseteq 1 .. seq
  /\ history \in [Ids -> Row]
  /\ DOMAIN snippets \subseteq Names
  /\ snippets \in [DOMAIN snippets -> Contents]

(* evict_old_items removes the oldest unpinned rows and no more of them     *)
(* than needed, never a pinned one ("pinned items are never evicted"), and  *)
(* afterwards the table respects the limit unless only pinned rows are      *)
(* left.                                                                    *)
EvictionIsOldestFirst ==
  [][\A m \in Limits : EvictOldItems(m) =>
       /\ \A i \in Ids \ Ids' : ~ history[i].pinned
       /\ \A i \in Ids \ Ids', j \in Ids' : history[j].pinned \/ i < j
       /\ Cardinality(Ids') <= m \/ \A j \in Ids' : history[j].pinned
       /\ Ids' # Ids => Cardinality(Ids') >= m]_storeVars

(* The tables implement the append-only log that readers rely on: ids are   *)
(* never reused, and a row's text never changes.                            *)
Log == INSTANCE HistoryLog
         WITH Texts <- Contents, issued <- seq,
              live <- [i \in Ids |-> history[i].content]

ImplementsLog == Log!Spec
=============================================================================
