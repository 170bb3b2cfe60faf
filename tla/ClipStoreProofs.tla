--------------------------- MODULE ClipStoreProofs ---------------------------
(***************************************************************************)
(* Proofs about ClipStore.  The lemmas are about single statements and say *)
(* nothing of who runs them, so that DaemonProofs can use them as well.    *)
(***************************************************************************)
EXTENDS ClipStore, TLAPS

-----------------------------------------------------------------------------
(* Every statement keeps the tables well-typed.                            *)

(* save_item's INSERT. *)
LEMMA InsertType ==
  ASSUME StoreTypeOK, NEW c \in Contents, NEW at \in Nat, NEW e \in Nat,
         InsertItem(c, at, e), UNCHANGED <<snippets, now>>
  PROVE  StoreTypeOK'
<1> DEFINE row == [content |-> c, type |-> TypeOf[c], timestamp |-> at,
                   pinned |-> FALSE, expires_at |-> e]
<1>1. row \in Row
  BY StoreAssumption DEF StoreTypeOK, Row
<1>2. seq' \in Nat /\ Ids' = Ids \cup {seq + 1} /\ Ids' \subseteq 1 .. seq'
  BY DEF StoreTypeOK, InsertItem, Ids
<1>3. \A i \in Ids' : history'[i] = IF i = seq + 1 THEN row ELSE history[i]
  BY <1>2 DEF InsertItem, Ids
<1>4. history' \in [Ids' -> Row]
  <2>1. \A i \in Ids' : history'[i] \in Row
    BY <1>1, <1>2, <1>3 DEF StoreTypeOK
  <2>2. history' = [i \in Ids' |-> history'[i]]
    BY <1>2 DEF InsertItem, Ids
  <2> QED BY <2>1, <2>2
<1> QED BY <1>2, <1>4 DEF StoreTypeOK

(* Every DELETE on history: DELETE, CLEAR, the cleaner, eviction. *)
LEMMA DiscardType ==
  ASSUME StoreTypeOK, NEW S, Discard(S), UNCHANGED <<seq, snippets, now>>
  PROVE  StoreTypeOK'
<1>1. Ids' = Ids \ S
  BY DEF Discard, Ids
<1>2. history' \in [Ids' -> Row]
  BY <1>1 DEF Discard, StoreTypeOK
<1> QED BY <1>1, <1>2 DEF StoreTypeOK

(* pin_item. *)
LEMMA PinType ==
  ASSUME StoreTypeOK, NEW i \in Ids, NEW p \in BOOLEAN, PinItem(i, p),
         UNCHANGED now
  PROVE  /\ StoreTypeOK'
         /\ Ids' = Ids
         /\ \A j \in Ids : /\ history'[j].content = history[j].content
                           /\ history'[j].type = history[j].type
                           /\ history'[j].timestamp = history[j].timestamp
                           /\ history'[j].expires_at = history[j].expires_at
<1>1. Ids' = Ids
  BY DEF PinItem, Ids, StoreTypeOK
<1>2. \A j \in Ids :
        history'[j] = IF j = i THEN [history[i] EXCEPT !.pinned = p]
                               ELSE history[j]
  BY DEF PinItem, StoreTypeOK, Ids
<1>3. \A j \in Ids : history[j] \in Row
  BY DEF StoreTypeOK
<1>4. \A j \in Ids : /\ history'[j] \in Row
                     /\ history'[j].content = history[j].content
                     /\ history'[j].type = history[j].type
                     /\ history'[j].timestamp = history[j].timestamp
                     /\ history'[j].expires_at = history[j].expires_at
  BY <1>2, <1>3 DEF Row
<1>5. history' \in [Ids' -> Row]
  BY <1>1, <1>4 DEF PinItem, Ids, StoreTypeOK
<1> QED BY <1>1, <1>4, <1>5 DEF PinItem, StoreTypeOK

(* save_snippet and delete_snippet. *)
LEMMA SaveSnippetType ==
  ASSUME StoreTypeOK, NEW n \in Names, NEW c \in Contents, SaveSnippet(n, c),
         UNCHANGED now
  PROVE  StoreTypeOK'
BY DEF SaveSnippet, StoreTypeOK, Ids

LEMMA DeleteSnippetType ==
  ASSUME StoreTypeOK, NEW n \in Names, DeleteSnippet(n), UNCHANGED now
  PROVE  StoreTypeOK'
BY DEF DeleteSnippet, StoreTypeOK, Ids

LEMMA ExpiryOfType ==
  ASSUME now \in Nat, NEW c \in Contents
  PROVE  ExpiryOf(c) \in Nat
BY StoreAssumption DEF ExpiryOf

-----------------------------------------------------------------------------
(* A caller alone with the database.                                       *)

LEMMA StoreInitType == StoreInit => StoreTypeOK
BY DEF StoreInit, StoreTypeOK, EmptyTable, Ids

LEMMA StoreStepType == StoreTypeOK /\ [StoreNext]_storeVars => StoreTypeOK'
<1> SUFFICES ASSUME StoreTypeOK, [StoreNext]_storeVars PROVE StoreTypeOK'
  OBVIOUS
<1>1. ASSUME NEW c \in Contents, SaveItem(c) PROVE StoreTypeOK'
  <2>1. ExpiryOf(c) \in Nat /\ now \in Nat
    BY ExpiryOfType DEF StoreTypeOK
  <2> QED BY <1>1, <2>1, InsertType DEF SaveItem
<1>2. CASE DeleteExpired(now) /\ UNCHANGED now
  BY <1>2, DiscardType DEF DeleteExpired
<1>3. ASSUME NEW i \in Ids, DeleteItem(i), UNCHANGED now PROVE StoreTypeOK'
  BY <1>3, DiscardType DEF DeleteItem
<1>4. CASE ClearHistory /\ UNCHANGED now
  BY <1>4, DiscardType DEF ClearHistory
<1>5. ASSUME NEW i \in Ids, NEW p \in BOOLEAN, PinItem(i, p), UNCHANGED now
      PROVE  StoreTypeOK'
  BY <1>5, PinType
<1>6. ASSUME NEW m \in Limits, EvictOldItems(m), UNCHANGED now
      PROVE  StoreTypeOK'
  BY <1>6, DiscardType DEF EvictOldItems
<1>7. ASSUME NEW n \in Names, NEW c \in Contents, SaveSnippet(n, c),
             UNCHANGED now
      PROVE  StoreTypeOK'
  BY <1>7, SaveSnippetType
<1>8. ASSUME NEW n \in Names, DeleteSnippet(n), UNCHANGED now
      PROVE  StoreTypeOK'
  BY <1>8, DeleteSnippetType
<1>9. CASE StoreTick
  BY <1>9 DEF StoreTick, tables, StoreTypeOK, Ids
<1>10. CASE UNCHANGED storeVars
  BY <1>10 DEF storeVars, StoreTypeOK, Ids
<1> QED
  BY <1>1, <1>2, <1>3, <1>4, <1>5, <1>6, <1>7, <1>8, <1>9, <1>10
     DEF StoreNext

(* The tables are well-typed and no id is beyond the AUTOINCREMENT counter, *)
(* whatever sequence of methods is called.                                  *)
THEOREM StoreTypesCorrect == StoreSpec => []StoreTypeOK
BY StoreInitType, StoreStepType, PTL DEF StoreSpec

-----------------------------------------------------------------------------
(* The tables implement the append-only log.                               *)

LEMMA InsertIsWrite ==
  ASSUME StoreTypeOK, NEW c \in Contents, NEW at \in Nat, NEW e \in Nat,
         InsertItem(c, at, e)
  PROVE  Log!Next
<1> DEFINE live == [i \in Ids |-> history[i].content]
<1>1. seq + 1 \notin Ids
  BY DEF StoreTypeOK
<1>2. Ids' = Ids \cup {seq + 1}
  BY DEF InsertItem, Ids
<1>3. \A i \in Ids' : history'[i].content =
                        IF i = seq + 1 THEN c ELSE live[i]
  BY <1>2 DEF InsertItem, Ids
<1>4. Log!Write(c)
  BY <1>1, <1>2, <1>3 DEF InsertItem, Log!Write
<1> QED BY <1>4 DEF Log!Next

LEMMA DiscardIsRemove ==
  ASSUME NEW D, Discard(D), UNCHANGED seq
  PROVE  Log!Next
<1>1. Ids' = Ids \ D /\ \A i \in Ids' : history'[i] = history[i]
  BY DEF Discard, Ids
<1>2. PICK R : R = Ids \cap D
  OBVIOUS
<1>3. Log!Remove(R)
  BY <1>1, <1>2 DEF Log!Remove
<1>4. R \in SUBSET DOMAIN [i \in Ids |-> history[i].content]
  BY <1>2
<1> QED BY <1>3, <1>4 DEF Log!Next

LEMMA PinIsStutter ==
  ASSUME StoreTypeOK, NEW i \in Ids, NEW p \in BOOLEAN, PinItem(i, p),
         UNCHANGED now
  PROVE  UNCHANGED Log!vars
<1>1. seq' = seq
  BY DEF PinItem
<1> QED BY <1>1, PinType DEF Log!vars

LEMMA StoreStepRefines ==
  StoreTypeOK /\ [StoreNext]_storeVars => [Log!Next]_(Log!vars)
<1> SUFFICES ASSUME StoreTypeOK, [StoreNext]_storeVars
             PROVE  [Log!Next]_(Log!vars)
  OBVIOUS
<1>1. ASSUME NEW c \in Contents, SaveItem(c) PROVE Log!Next
  <2>1. ExpiryOf(c) \in Nat /\ now \in Nat
    BY ExpiryOfType DEF StoreTypeOK
  <2> QED BY <1>1, <2>1, InsertIsWrite DEF SaveItem
<1>2. CASE DeleteExpired(now)
  BY <1>2, DiscardIsRemove DEF DeleteExpired
<1>3. ASSUME NEW i \in Ids, DeleteItem(i) PROVE Log!Next
  BY <1>3, DiscardIsRemove DEF DeleteItem
<1>4. CASE ClearHistory
  BY <1>4, DiscardIsRemove DEF ClearHistory
<1>5. ASSUME NEW i \in Ids, NEW p \in BOOLEAN, PinItem(i, p), UNCHANGED now
      PROVE  UNCHANGED Log!vars
  BY <1>5, PinIsStutter
<1>6. ASSUME NEW m \in Limits, EvictOldItems(m) PROVE Log!Next
  BY <1>6, DiscardIsRemove DEF EvictOldItems
<1>7. CASE UNCHANGED <<history, seq>>
  BY <1>7 DEF Log!vars, Ids
<1> QED
  BY <1>1, <1>2, <1>3, <1>4, <1>5, <1>6, <1>7
     DEF StoreNext, SaveSnippet, DeleteSnippet, StoreTick, tables, storeVars

(* Ids are given out in order and never twice, and a row keeps its text.    *)
THEOREM StoreRefinesLog == StoreSpec => ImplementsLog
<1>1. StoreInit => Log!Init
  BY DEF StoreInit, Log!Init, EmptyTable, Ids
<1> QED BY <1>1, StoreStepRefines, StoreTypesCorrect, PTL
        DEF StoreSpec, ImplementsLog, Log!Spec
=============================================================================
