---------------------------- MODULE DaemonProofs ----------------------------
(***************************************************************************)
(* Proofs about Daemon.  Every inductive argument is laid out alike: the   *)
(* actions that touch what the invariant is about have a step each, the    *)
(* others share one.                                                       *)
(***************************************************************************)
EXTENDS Daemon, ClipStoreProofs

-----------------------------------------------------------------------------
(* Types                                                                   *)

LEMMA ClipboardType == DaemonTypeOK => Clipboard \in Contents \cup {NoContent}
BY DEF DaemonTypeOK, Clipboard

LEMMA DaemonInitType == DaemonInit => DaemonTypeOK
<1> SUFFICES ASSUME DaemonInit PROVE DaemonTypeOK
  OBVIOUS
<1>1. StoreTypeOK
  BY StoreInitType DEF DaemonInit
<1> QED BY <1>1 DEF DaemonInit, DaemonTypeOK, EmptyTable, Saving

(* What the tables have in common with the other variables is nothing: an   *)
(* action that leaves them alone keeps their types.                         *)
LEMMA StoreFrame ==
  StoreTypeOK /\ UNCHANGED <<history, seq, snippets, now>> => StoreTypeOK'
BY DEF StoreTypeOK, Ids

LEMMA DaemonStepType == DaemonTypeOK /\ [DaemonNext]_vars => DaemonTypeOK'
<1> SUFFICES ASSUME DaemonTypeOK, [DaemonNext]_vars PROVE DaemonTypeOK'
  OBVIOUS
<1> USE DEF mainVars, watcherVars, cleanerVars, listVars, clipVars
<1>0. StoreTypeOK
  BY DEF DaemonTypeOK
<1>1. ASSUME NEW c \in Contents \cup {NoContent}, Copy(c) PROVE DaemonTypeOK'
  BY <1>0, <1>1, StoreFrame DEF DaemonTypeOK, Copy
<1>2. CASE Tick
  <2>1. StoreTypeOK'
    BY <1>0, <1>2 DEF Tick, StoreTypeOK, Ids
  <2> QED BY <1>2, <2>1 DEF DaemonTypeOK, Tick
<1>3. CASE Start
  <2>1. now \in Nat /\ now + CleanPeriod \in Nat
    BY <1>0, DaemonAssumption DEF StoreTypeOK
  <2>2. StoreTypeOK'
    BY <1>0, <1>3, StoreFrame DEF Start
  <2> QED BY SMTT(30), <1>3, <2>1, <2>2 DEF DaemonTypeOK, Start
<1>4. CASE RequestStop
  BY <1>0, <1>4, StoreFrame DEF DaemonTypeOK, RequestStop
<1>5. CASE Exit \/ Crash
  <2>1. ProcessGone
    BY <1>5 DEF Exit, Crash
  <2>2. StoreTypeOK'
    BY <1>0, <2>1, StoreFrame DEF ProcessGone
  <2>3. DOMAIN seen' \subseteq Nat /\ seen' \in [DOMAIN seen' -> Contents]
    BY <2>1 DEF DaemonTypeOK, ProcessGone, EmptyTable
  <2> QED BY <2>1, <2>2, <2>3 DEF DaemonTypeOK, ProcessGone, Saving
<1>6. CASE WatcherTest \/ WatcherPoll \/ WatcherReadFails
  <2>1. CASE WatcherTest
    BY <1>0, <2>1, StoreFrame DEF DaemonTypeOK, WatcherTest, Saving
  <2>2. CASE WatcherPoll
    BY SMTT(30), <1>0, <2>2, StoreFrame, ClipboardType
       DEF DaemonTypeOK, WatcherPoll, Notices, NoticesNothing, Saving
  <2>3. CASE WatcherReadFails
    BY <1>0, <2>3, StoreFrame DEF DaemonTypeOK, WatcherReadFails, NoticesNothing, Saving
  <2> QED BY <1>6, <2>1, <2>2, <2>3
<1>7. CASE WatcherCheck \/ WatcherCheckFails
  <2>1. last_content \in Contents /\ ExpiryOf(last_content) \in Nat
    BY <1>0, <1>7, ExpiryOfType
       DEF DaemonTypeOK, StoreTypeOK, WatcherCheck, WatcherCheckFails, Saving
  <2> QED BY <1>0, <1>7, <2>1, StoreFrame
          DEF DaemonTypeOK, WatcherCheck, WatcherCheckFails, Saving
<1>23. CASE WatcherBind
  BY <1>0, <1>23, StoreFrame DEF DaemonTypeOK, StoreTypeOK, WatcherBind, Saving
<1>8. CASE WatcherInsert
  <2>1. StoreTypeOK'
    BY <1>0, <1>8, InsertType DEF DaemonTypeOK, WatcherInsert, Saving
  <2>2. issued' \in Seq([start: Nat, copy: Nat, written: Nat])
    BY <1>0, <1>8 DEF DaemonTypeOK, StoreTypeOK, WatcherInsert
  <2> QED BY <1>8, <2>1, <2>2 DEF DaemonTypeOK, WatcherInsert, Saving, SaveReturns
<1>9. CASE WatcherInsertFails
  BY <1>0, <1>9, StoreFrame DEF DaemonTypeOK, WatcherInsertFails, Saving,
        SaveReturns
<1>10. CASE CleanerWake
  BY <1>0, <1>10, StoreFrame DEF DaemonTypeOK, StoreTypeOK, CleanerWake
<1>11. CASE CleanerDelete
  <2>1. StoreTypeOK' /\ now \in Nat
    BY <1>0, <1>11, DiscardType DEF StoreTypeOK, CleanerDelete, DeleteExpired
  <2> QED BY SMTT(30), <1>11, <2>1, DaemonAssumption
          DEF DaemonTypeOK, CleanerDelete, SleepAgain
<1>12. CASE CleanerDeleteFails
  <2>1. now \in Nat
    BY <1>0 DEF StoreTypeOK
  <2> QED BY SMTT(30), <1>0, <1>12, <2>1, StoreFrame, DaemonAssumption
          DEF DaemonTypeOK, CleanerDeleteFails, SleepAgain
<1>13. CASE OthersIdle /\ StoreTypeOK'
  BY <1>13 DEF OthersIdle, DaemonTypeOK
<1>24. CASE StatementFails /\ OthersIdle
  BY <1>0, <1>13, <1>24, StoreFrame DEF StatementFails, OthersIdle, tables
<1>14. ASSUME NEW i \in Ids, HandleDelete(i) PROVE DaemonTypeOK'
  BY <1>0, <1>13, <1>14, <1>24, DiscardType DEF HandleDelete, DeleteItem, OthersIdle
<1>15. CASE HandleClear
  BY <1>0, <1>13, <1>15, <1>24, DiscardType DEF HandleClear, ClearHistory, OthersIdle
<1>16. ASSUME NEW i \in Ids, NEW p \in BOOLEAN, HandlePin(i, p)
       PROVE  DaemonTypeOK'
  BY <1>0, <1>13, <1>16, <1>24, PinType DEF HandlePin, OthersIdle
<1>17. ASSUME NEW n \in Names, NEW c \in Contents, HandleSave(n, c)
       PROVE  DaemonTypeOK'
  BY <1>0, <1>13, <1>17, <1>24, SaveSnippetType DEF HandleSave, OthersIdle
<1>18. ASSUME NEW m \in Int, NEW q \in SUBSET Contents, ListBegin(m, q)
       PROVE  DaemonTypeOK'
  <2>1. seq + 1 \in Nat
    BY <1>0 DEF StoreTypeOK
  <2> QED BY <1>0, <1>18, <2>1, StoreFrame DEF DaemonTypeOK, ListBegin, EmptyTable
<1>19. CASE ListRow
  <2>1. PICK i \in Ids :
          /\ lcursor' = i
          /\ seen' = [j \in DOMAIN seen \cup {i} |->
                        IF j = i THEN history[i].content ELSE seen[j]]
    BY <1>19 DEF ListRow, Matching
  <2>2. i \in Nat /\ history[i].content \in Contents
    BY <1>0 DEF StoreTypeOK, Row
  <2>3. DOMAIN seen' \subseteq Nat /\ seen' \in [DOMAIN seen' -> Contents]
    BY <2>1, <2>2 DEF DaemonTypeOK
  <2>4. lleft' \in Int
    BY <1>19 DEF ListRow, DaemonTypeOK
  <2> QED BY <1>0, <1>19, <2>1, <2>2, <2>3, <2>4, StoreFrame
          DEF DaemonTypeOK, ListRow
<1>20. CASE ListEnd \/ ListFails
  BY <1>0, <1>20, StoreFrame DEF DaemonTypeOK, ListEnd, ListFails, ListAnswered
<1>21. CASE UNCHANGED vars
  BY <1>0, <1>21, StoreFrame DEF DaemonTypeOK, vars
<1>22. Limits \subseteq Int /\ SearchLimit \in Int /\ Contents \in SUBSET Contents
       /\ Queries \subseteq SUBSET Contents
  BY StoreAssumption, DaemonAssumption
<1> QED
  BY <1>1, <1>2, <1>3, <1>4, <1>5, <1>6, <1>7, <1>8, <1>9, <1>10, <1>11,
     <1>12, <1>14, <1>15, <1>16, <1>17, <1>18, <1>19, <1>20, <1>21, <1>22,
     <1>23
     DEF DaemonNext

(* Every variable of the daemon has its type, in every interleaving of its  *)
(* threads and its clients, with any number of crashes and restarts.        *)
THEOREM DaemonTypesCorrect == DaemonSpec => []DaemonTypeOK
BY DaemonInitType, DaemonStepType, PTL DEF DaemonSpec

-----------------------------------------------------------------------------
(* What a step can do to the history                                       *)

(* A step writes one row under the next number, or removes rows, or keeps   *)
(* every row but for the pinned column.                                     *)
RowsKept ==
  /\ seq' = seq
  /\ Ids' = Ids
  /\ \A i \in Ids : /\ history'[i].content = history[i].content
                    /\ history'[i].type = history[i].type
                    /\ history'[i].timestamp = history[i].timestamp
                    /\ history'[i].expires_at = history[i].expires_at

RowsRemoved ==
  /\ seq' = seq
  /\ Ids' \subseteq Ids
  /\ \A i \in Ids' : history'[i] = history[i]

RowWritten ==
  /\ WatcherInsert
  /\ seq' = seq + 1
  /\ Ids' = Ids \cup {seq + 1}
  /\ \A i \in Ids : history'[i] = history[i]
  /\ history'[seq + 1] = [content |-> last_content,
                          type |-> TypeOf[last_content], timestamp |-> wtime,
                          pinned |-> FALSE, expires_at |-> wexp]

LEMMA InsertEffect == StoreTypeOK /\ WatcherInsert => RowWritten
BY DEF StoreTypeOK, WatcherInsert, InsertItem, RowWritten, Ids

LEMMA DiscardEffect ==
  ASSUME NEW D, Discard(D), UNCHANGED seq
  PROVE  RowsRemoved /\ Ids' = Ids \ D
BY DEF Discard, RowsRemoved, Ids

LEMMA StepEffect ==
  DaemonTypeOK /\ [DaemonNext]_vars => RowsKept \/ RowsRemoved \/ RowWritten
<1> SUFFICES ASSUME DaemonTypeOK, [DaemonNext]_vars
             PROVE  RowsKept \/ RowsRemoved \/ RowWritten
  OBVIOUS
<1>0. StoreTypeOK
  BY DEF DaemonTypeOK
<1>1. CASE UNCHANGED <<history, seq>>
  BY <1>1 DEF RowsRemoved, Ids
<1>2. CASE WatcherInsert
  BY <1>0, <1>2, InsertEffect
<1>3. CASE CleanerDelete
  BY <1>3, DiscardEffect DEF CleanerDelete, DeleteExpired
<1>7. CASE StatementFails
  BY <1>1, <1>7 DEF StatementFails, tables
<1>4. ASSUME NEW i \in Ids, HandleDelete(i), ~ StatementFails PROVE RowsRemoved
  BY <1>4, DiscardEffect DEF HandleDelete, DeleteItem
<1>5. CASE HandleClear /\ ~ StatementFails
  BY <1>5, DiscardEffect DEF HandleClear, ClearHistory
<1>6. ASSUME NEW i \in Ids, NEW p \in BOOLEAN, HandlePin(i, p), ~ StatementFails
      PROVE  RowsKept
  <2>1. PinItem(i, p) /\ UNCHANGED now /\ UNCHANGED seq
    BY <1>6 DEF HandlePin, OthersIdle, PinItem
  <2> QED BY <1>0, <2>1, PinType DEF RowsKept
<1> QED
  BY <1>1, <1>2, <1>3, <1>4, <1>5, <1>6, <1>7
     DEF DaemonNext, vars, Copy, Tick, Start, RequestStop, Exit, Crash,
         ProcessGone, WatcherTest, WatcherReadFails, WatcherPoll, WatcherCheck,
         WatcherCheckFails, WatcherBind, WatcherInsertFails, CleanerWake,
         CleanerDeleteFails, HandleSave, SaveSnippet, ListBegin, ListRow,
         ListEnd, ListFails, ListAnswered

-----------------------------------------------------------------------------
(* The daemon's database implements the append-only log                    *)

LEMMA DaemonStepRefines ==
  DaemonTypeOK /\ [DaemonNext]_vars => [Log!Next]_(Log!vars)
<1> SUFFICES ASSUME DaemonTypeOK, [DaemonNext]_vars
             PROVE  [Log!Next]_(Log!vars)
  OBVIOUS
<1>0. StoreTypeOK
  BY DEF DaemonTypeOK
<1>1. CASE UNCHANGED <<history, seq>>
  BY <1>1 DEF Log!vars, Ids
<1>2. CASE WatcherInsert
  <2>1. last_content \in Contents /\ wtime \in Nat /\ wexp \in Nat
    BY <1>2 DEF DaemonTypeOK, WatcherInsert, Saving
  <2> QED BY <1>0, <1>2, <2>1, InsertIsWrite DEF WatcherInsert
<1>3. CASE CleanerDelete
  BY <1>3, DiscardIsRemove DEF CleanerDelete, DeleteExpired
<1>7. CASE StatementFails
  BY <1>1, <1>7 DEF StatementFails, tables
<1>4. ASSUME NEW i \in Ids, HandleDelete(i), ~ StatementFails PROVE Log!Next
  BY <1>4, DiscardIsRemove DEF HandleDelete, DeleteItem
<1>5. CASE HandleClear /\ ~ StatementFails
  BY <1>5, DiscardIsRemove DEF HandleClear, ClearHistory
<1>6. ASSUME NEW i \in Ids, NEW p \in BOOLEAN, HandlePin(i, p), ~ StatementFails
      PROVE  UNCHANGED Log!vars
  BY <1>0, <1>6, PinIsStutter DEF HandlePin, OthersIdle
<1> QED
  BY <1>1, <1>2, <1>3, <1>4, <1>5, <1>6, <1>7
     DEF DaemonNext, vars, Copy, Tick, Start, RequestStop, Exit, Crash,
         ProcessGone, WatcherTest, WatcherReadFails, WatcherPoll, WatcherCheck,
         WatcherCheckFails, WatcherBind, WatcherInsertFails, CleanerWake,
         CleanerDeleteFails, HandleSave, SaveSnippet, ListBegin, ListRow,
         ListEnd, ListFails, ListAnswered

(* With all threads running, and through crashes and restarts, numbers are  *)
(* given out in order and never twice, and a row keeps its text.            *)
THEOREM DaemonRefinesLog == DaemonSpec => ImplementsLog
<1>1. DaemonInit => Log!Init
  BY DEF DaemonInit, StoreInit, Log!Init, EmptyTable, Ids
<1> QED BY <1>1, DaemonStepRefines, DaemonTypesCorrect, PTL
        DEF DaemonSpec, ImplementsLog, Log!Spec

-----------------------------------------------------------------------------
(* What a client was told                                                  *)

(* SeenIdsStable alone is not inductive: a new row could take a number the  *)
(* client knows from a row that is gone.                                    *)
SeenInv == SeenIdsStable /\ DOMAIN seen \subseteq 1 .. seq

LEMMA SeenInit == DaemonInit => SeenInv
BY DEF DaemonInit, SeenInv, SeenIdsStable, EmptyTable, Ids

LEMMA SeenStep == DaemonTypeOK /\ SeenInv /\ [DaemonNext]_vars => SeenInv'
<1> SUFFICES ASSUME DaemonTypeOK, SeenInv, [DaemonNext]_vars PROVE SeenInv'
  OBVIOUS
<1>0. seq \in Nat /\ Ids \subseteq 1 .. seq
  BY DEF DaemonTypeOK, StoreTypeOK
<1>1. CASE UNCHANGED seen
  <2>1. CASE RowsKept
    BY <1>1, <2>1 DEF SeenInv, SeenIdsStable, RowsKept
  <2>2. CASE RowsRemoved
    BY <1>1, <2>2 DEF SeenInv, SeenIdsStable, RowsRemoved
  <2>3. CASE RowWritten
    BY <1>0, <1>1, <2>3 DEF SeenInv, SeenIdsStable, RowWritten
  <2> QED BY <2>1, <2>2, <2>3, StepEffect
<1>2. CASE UNCHANGED <<history, seq>> /\ seen' = EmptyTable
  BY <1>2 DEF SeenInv, SeenIdsStable, EmptyTable
<1>3. CASE ListRow
  <2>1. PICK i \in Ids :
          seen' = [j \in DOMAIN seen \cup {i} |->
                     IF j = i THEN history[i].content ELSE seen[j]]
    BY <1>3 DEF ListRow, Matching
  <2>2. UNCHANGED <<history, seq>>
    BY <1>3 DEF ListRow
  <2> QED BY <1>0, <2>1, <2>2 DEF SeenInv, SeenIdsStable, Ids
<1> QED
  BY <1>1, <1>2, <1>3
     DEF DaemonNext, vars, listVars, Copy, Tick, Start, RequestStop, Exit,
         Crash, ProcessGone,
         WatcherTest, WatcherReadFails, WatcherPoll, WatcherCheck,
         WatcherCheckFails, WatcherBind, WatcherInsert, WatcherInsertFails,
         CleanerWake, CleanerDelete, CleanerDeleteFails, HandleDelete,
         HandleClear, HandlePin, HandleSave, OthersIdle, ListBegin, ListEnd,
         ListFails, ListAnswered

(* A number a client was told never comes to mean another item.             *)
THEOREM SeenIdsAreStable == DaemonSpec => []SeenIdsStable
<1>1. SeenInv => SeenIdsStable
  BY DEF SeenInv
<1> QED BY <1>1, SeenInit, SeenStep, DaemonTypesCorrect, PTL DEF DaemonSpec

-----------------------------------------------------------------------------
(* The answer of LIST and SEARCH                                           *)

(* While a scan runs, its cursor is below every row it returned and not     *)
(* above the newest row it began with; new rows come in above that one.     *)
ListInv ==
  /\ ListComplete
  /\ ltop <= seq + 1
  /\ lpc = "scan" => lcursor <= ltop /\ \A j \in DOMAIN seen : lcursor <= j

LEMMA ListInit == DaemonInit => ListInv
BY DEF DaemonInit, StoreInit, ListInv, ListComplete, Overlooked, EmptyTable, Ids

LEMMA ListStep == DaemonTypeOK /\ ListInv /\ [DaemonNext]_vars => ListInv'
<1> SUFFICES ASSUME DaemonTypeOK, ListInv, [DaemonNext]_vars PROVE ListInv'
  OBVIOUS
<1> USE DEF Overlooked
<1>0. /\ seq \in Nat /\ Ids \subseteq 1 .. seq /\ DOMAIN seen \subseteq Nat
      /\ ltop \in Nat /\ lcursor \in Nat /\ lleft \in Int
  BY DEF DaemonTypeOK, StoreTypeOK
<1>1. CASE UNCHANGED <<lpc, lquery, ltop, lcursor, lleft, seen>>
  <2>1. seq' \in {seq, seq + 1}
    BY <1>0, StepEffect DEF RowsKept, RowsRemoved, RowWritten
  <2>2. \A i \in Ids' : i < ltop => i \in Ids /\ history'[i].content = history[i].content
    <3>1. CASE RowsKept
      BY <3>1 DEF RowsKept
    <3>2. CASE RowsRemoved
      BY <3>2 DEF RowsRemoved
    <3>3. CASE RowWritten
      BY <1>0, <3>3 DEF RowWritten, ListInv
    <3> QED BY <3>1, <3>2, <3>3, StepEffect
  <2>3. ListComplete'
    BY <1>1, <2>2 DEF ListInv, ListComplete
  <2>4. ltop' <= seq' + 1
    <3>1. ltop' = ltop /\ ltop <= seq + 1
      BY <1>1 DEF ListInv
    <3>2. ltop \in Nat /\ seq \in Nat /\ seq' \in Nat
      BY <1>0, <2>1
    <3>3. CASE seq' = seq
      BY <3>1, <3>2, <3>3
    <3>4. CASE seq' = seq + 1
      BY <3>1, <3>2, <3>4
    <3> QED BY <2>1, <3>3, <3>4
  <2>5. (lpc = "scan" => lcursor <= ltop /\ \A j \in DOMAIN seen : lcursor <= j)'
    BY <1>1 DEF ListInv
  <2> QED BY <2>3, <2>4, <2>5 DEF ListInv
<1>2. CASE ProcessGone
  <2>1. /\ lpc' # "scan"
        /\ lpc' \in {"done", "cut"} => lpc' = lpc /\ seen' = seen
    BY <1>2 DEF ProcessGone
  <2>2. UNCHANGED <<history, seq, lquery, ltop, lcursor, lleft>>
    BY <1>2 DEF ProcessGone
  <2> QED BY <2>1, <2>2 DEF ListInv, ListComplete, Ids
<1>3. ASSUME NEW m \in Int, NEW q \in SUBSET Contents, ListBegin(m, q)
      PROVE  ListInv'
  BY <1>0, <1>3 DEF ListBegin, ListInv, ListComplete, EmptyTable, Ids
<1>4. CASE ListRow
  <2>1. PICK i \in Matching :
          /\ \A j \in Matching : j <= i
          /\ lcursor' = i
          /\ seen' = [j \in DOMAIN seen \cup {i} |->
                        IF j = i THEN history[i].content ELSE seen[j]]
    BY <1>4 DEF ListRow
  <2>2. /\ lpc = "scan" /\ lpc' = "scan"
        /\ UNCHANGED <<history, seq, lquery, ltop>>
    BY <1>4 DEF ListRow
  <2>3. i < lcursor /\ i \in Nat /\ DOMAIN seen' = DOMAIN seen \cup {i}
    BY <1>0, <2>1 DEF Matching
  <2>4. \A k \in Ids : Overlooked(k)' => k < i
    <3> SUFFICES ASSUME NEW k \in Ids, Overlooked(k)' PROVE k < i
      OBVIOUS
    <3>1. k # i /\ Overlooked(k)
      BY <2>2, <2>3
    <3>2. k \in Matching
      BY <2>2, <3>1 DEF ListInv, ListComplete, Matching
    <3> QED BY <1>0, <2>1, <2>3, <3>1, <3>2
  <2>5. ListComplete'
    BY <2>1, <2>2, <2>4 DEF ListComplete, Ids
  <2>6. lcursor' <= ltop' /\ \A j \in DOMAIN seen' : lcursor' <= j
    BY <1>0, <2>1, <2>2, <2>3 DEF ListInv
  <2> QED BY <2>2, <2>5, <2>6 DEF ListInv
<1>5. CASE ListEnd \/ ListFails
  <2>1. /\ lpc = "scan" /\ lpc' \in {"done", "cut"}
        /\ lpc' = "done" => lleft = 0 \/ Matching = {}
        /\ UNCHANGED <<history, seq, lquery, ltop, lcursor, lleft, seen>>
    BY <1>5 DEF ListEnd, ListFails, ListAnswered
  <2>2. \A i \in Ids : Overlooked(i) => i < lcursor /\ i \in Matching
    BY <2>1 DEF ListInv, ListComplete, Matching
  <2>3. \A i \in Ids : Overlooked(i) =>
          /\ \A j \in DOMAIN seen : i < j
          /\ lpc' = "done" => lleft = 0
    BY <1>0, <2>1, <2>2 DEF ListInv
  <2> QED BY <2>1, <2>3 DEF ListInv, ListComplete, Ids
<1>6. Limits \subseteq Int /\ SearchLimit \in Int /\ Contents \in SUBSET Contents
      /\ Queries \subseteq SUBSET Contents
  BY StoreAssumption, DaemonAssumption
<1> QED
  BY <1>1, <1>2, <1>3, <1>4, <1>5, <1>6
     DEF DaemonNext, vars, listVars, Copy, Tick, Start, RequestStop, Exit,
         Crash,
         WatcherTest, WatcherReadFails, WatcherPoll, WatcherCheck, WatcherCheckFails,
         WatcherBind, WatcherInsert, WatcherInsertFails, CleanerWake,
         CleanerDelete, CleanerDeleteFails, HandleDelete, HandleClear,
         HandlePin, HandleSave, OthersIdle

(* No matter what the other threads insert and delete while LIST or SEARCH  *)
(* reads, a row that stays is missing from the answer only behind its end:  *)
(* where LIMIT or a failing statement cut it.                               *)
THEOREM ListIsComplete == DaemonSpec => []ListComplete
<1>1. ListInv => ListComplete
  BY DEF ListInv
<1> QED BY <1>1, ListInit, ListStep, DaemonTypesCorrect, PTL DEF DaemonSpec

-----------------------------------------------------------------------------
(* Secrets                                                                 *)

ExpiryFits(content, expires, written) ==
  /\ TypeOf[content] = "secret" <=> expires > 0
  /\ expires <= written + SecretTtl

(* The expiry the watcher computed is still good when the timestamp is      *)
(* read, and with that when the INSERT comes.                               *)
ExpiryComputed ==
  /\ wpc = "bind" => ExpiryFits(last_content, wexp, now)
  /\ wpc = "insert" => ExpiryFits(last_content, wexp, wtime)

ExpiryInv == SecretsCarryExpiry /\ ExpiryComputed

LEMMA ExpiryInit == DaemonInit => ExpiryInv
BY DEF DaemonInit, StoreInit, ExpiryInv, SecretsCarryExpiry, ExpiryComputed,
       EmptyTable, Ids

LEMMA ExpiryOfFits ==
  ASSUME now \in Nat \ {0}, NEW c \in Contents
  PROVE  ExpiryFits(c, ExpiryOf(c), now)
BY StoreAssumption DEF ExpiryFits, ExpiryOf

LEMMA ExpiryStep == DaemonTypeOK /\ ExpiryInv /\ [DaemonNext]_vars => ExpiryInv'
<1> SUFFICES ASSUME DaemonTypeOK, ExpiryInv, [DaemonNext]_vars PROVE ExpiryInv'
  OBVIOUS
<1>0. now \in Nat \ {0} /\ wexp \in Nat /\ wtime \in Nat /\ seq + 1 \notin Ids
  BY DEF DaemonTypeOK, StoreTypeOK
<1>1. SecretsCarryExpiry'
  <2>1. CASE RowsKept
    BY <2>1 DEF ExpiryInv, SecretsCarryExpiry, RowsKept
  <2>2. CASE RowsRemoved
    BY <2>2 DEF ExpiryInv, SecretsCarryExpiry, RowsRemoved
  <2>3. CASE RowWritten
    <3>1. ExpiryFits(last_content, wexp, wtime)
      BY <2>3 DEF ExpiryInv, ExpiryComputed, RowWritten, WatcherInsert
    <3> QED BY <1>0, <2>3, <3>1
            DEF ExpiryInv, SecretsCarryExpiry, RowWritten, ExpiryFits
  <2> QED BY <2>1, <2>2, <2>3, StepEffect
<1>2. ExpiryComputed'
  <2>1. CASE WatcherCheck \/ WatcherCheckFails
    <3>1. last_content \in Contents
      BY <2>1 DEF DaemonTypeOK, WatcherCheck, WatcherCheckFails, Saving
    <3> QED BY <1>0, <2>1, <3>1, ExpiryOfFits
            DEF WatcherCheck, WatcherCheckFails, ExpiryComputed
  <2>2. CASE WatcherBind
    BY <2>2 DEF WatcherBind, ExpiryInv, ExpiryComputed
  <2>3. CASE Tick
    <3>1. UNCHANGED <<wpc, last_content, wexp, wtime>> /\ now' = now + 1
      BY <2>3 DEF Tick, watcherVars
    <3> QED BY <1>0, <3>1, StoreAssumption DEF ExpiryInv, ExpiryComputed, ExpiryFits
  <2>4. CASE wpc' \notin {"bind", "insert"}
    BY <2>4 DEF ExpiryComputed
  <2>5. CASE UNCHANGED <<wpc, last_content, wexp, wtime, now>>
    BY <2>5 DEF ExpiryInv, ExpiryComputed, ExpiryFits
  <2> QED
    BY <2>1, <2>2, <2>3, <2>4, <2>5
       DEF DaemonNext, vars, watcherVars, Copy, Start, RequestStop, Exit,
           Crash, ProcessGone, WatcherTest, WatcherReadFails, WatcherPoll, Notices,
           NoticesNothing, WatcherInsert, WatcherInsertFails, CleanerWake,
           CleanerDelete, CleanerDeleteFails, HandleDelete, HandleClear,
           HandlePin, HandleSave, OthersIdle, ListBegin, ListRow, ListEnd,
           ListFails, ListAnswered, SleepAgain, SaveReturns
<1> QED BY <1>1, <1>2 DEF ExpiryInv

(* Exactly the secrets expire, at most SecretTtl after they were written.   *)
THEOREM SecretsDoCarryExpiry == DaemonSpec => []SecretsCarryExpiry
<1>1. ExpiryInv => SecretsCarryExpiry
  BY DEF ExpiryInv
<1> QED BY <1>1, ExpiryInit, ExpiryStep, DaemonTypesCorrect, PTL DEF DaemonSpec

-----------------------------------------------------------------------------
(* Where the rows come from                                                *)

(* What the watcher saw last is at wcopy, no row is from a later copy, and  *)
(* while it is about to write, no row of this start is from that copy.      *)
CopyInv ==
  /\ HistoryFollowsClipboard
  /\ wcopy <= Len(copies)
  /\ last_content = IF wcopy = 0 THEN NoContent ELSE copies[wcopy]
  /\ wpc \in Saving => wcopy > 0
  /\ \A k \in 1 .. seq :
       /\ issued[k].copy \in 1 .. Len(copies)
       /\ issued[k].start <= starts
       /\ Up /\ issued[k].start = starts => issued[k].copy <= wcopy
       /\ wcopy > 0 => issued[k].copy <= wcopy
       /\ wpc \in Saving => issued[k].start < starts \/ issued[k].copy < wcopy

LEMMA CopyInit == DaemonInit => CopyInv
BY DEF DaemonInit, StoreInit, CopyInv, HistoryFollowsClipboard, EmptyTable, Ids,
       Saving

LEMMA CopyStep == DaemonTypeOK /\ CopyInv /\ [DaemonNext]_vars => CopyInv'
<1> SUFFICES ASSUME DaemonTypeOK, CopyInv, [DaemonNext]_vars PROVE CopyInv'
  OBVIOUS
<1>t. /\ seq \in Nat /\ wcopy \in Nat /\ starts \in Nat
      /\ issued \in Seq([start: Nat, copy: Nat, written: Nat])
      /\ copies \in Seq(Contents \cup {NoContent})
  BY DEF DaemonTypeOK, StoreTypeOK
<1>i. Ids \subseteq 1 .. seq
  BY DEF DaemonTypeOK, StoreTypeOK
<1>k. \A k \in 1 .. seq : /\ issued[k] \in [start: Nat, copy: Nat, written: Nat]
                          /\ issued[k].start \in Nat /\ issued[k].copy \in Nat
  <2>1. Len(issued) = seq
    BY DEF CopyInv, HistoryFollowsClipboard
  <2> DEFINE Origin == [start: Nat, copy: Nat, written: Nat]
  <2>2. issued \in Seq(Origin)
    BY <1>t
  <2>3. \A k \in 1 .. seq : issued[k] \in Origin
    <3> HIDE DEF Origin
    <3> QED BY <2>1, <2>2
  <2> QED BY <2>3
(* The rows change, but none is written. *)
<1>1. CASE UNCHANGED <<copies, proc, starts, wpc, last_content, wcopy, issued>>
           /\ (RowsKept \/ RowsRemoved)
  <2>1. seq' = seq /\ \A i \in Ids' : i \in Ids /\ history'[i].content = history[i].content
    BY <1>1 DEF RowsKept, RowsRemoved
  <2>2. HistoryFollowsClipboard'
    BY <1>1, <2>1 DEF CopyInv, HistoryFollowsClipboard, Before
  <2> QED BY <1>1, <2>1, <2>2 DEF CopyInv, Up
<1>2. ASSUME NEW c \in Contents \cup {NoContent}, Copy(c) PROVE CopyInv'
  <2>1. /\ copies' = Append(copies, c)
        /\ UNCHANGED <<history, seq, proc, starts, wpc, last_content, wcopy, issued>>
    BY <1>2 DEF Copy, mainVars, watcherVars
  <2>2. /\ Len(copies') = Len(copies) + 1 /\ Len(copies) \in Nat
        /\ \A k \in 1 .. Len(copies) : copies'[k] = copies[k]
    BY <1>t, <2>1
  <2>3. HistoryFollowsClipboard'
    <3>1. \A i \in Ids : history[i].content = copies'[issued[i].copy]
      BY <1>i, <2>2 DEF CopyInv, HistoryFollowsClipboard
    <3> QED BY ZenonT(60), <2>1, <3>1 DEF CopyInv, HistoryFollowsClipboard, Ids, Before
  <2>4. /\ wcopy' <= Len(copies')
        /\ last_content' = IF wcopy' = 0 THEN NoContent ELSE copies'[wcopy']
    BY <1>t, <2>1, <2>2 DEF CopyInv
  <2>5. \A k \in 1 .. seq : issued[k].copy \in 1 .. Len(copies')
    BY <1>k, <2>2 DEF CopyInv
  <2> QED BY <2>1, <2>3, <2>4, <2>5 DEF CopyInv, Up
<1>3. CASE Start
  <2>1. /\ proc = "down" /\ starts' = starts + 1
        /\ UNCHANGED <<history, seq, copies, wpc, last_content, wcopy, issued>>
    BY <1>3 DEF Start, clipVars, watcherVars
  <2>2. \A k \in 1 .. seq : issued[k].start < starts' /\ issued[k].start <= starts'
    <3> SUFFICES ASSUME NEW k \in 1 .. seq
                 PROVE  issued[k].start < starts + 1 /\ issued[k].start <= starts + 1
      BY <2>1
    <3>1. issued[k].start \in Nat /\ issued[k].start <= starts
      BY <1>k DEF CopyInv
    <3> QED BY SMTT(30), <1>t, <3>1
  <2>3. HistoryFollowsClipboard'
    BY <2>1 DEF CopyInv, HistoryFollowsClipboard, Ids, Before
  <2>4. \A k \in 1 .. seq : issued[k].start # starts'
    BY <1>t, <1>k, <2>1, <2>2
  <2> QED BY <2>1, <2>2, <2>3, <2>4 DEF CopyInv
<1>4. CASE RequestStop
  <2>1. /\ Up
        /\ UNCHANGED <<history, seq, copies, starts, wpc, last_content, wcopy, issued>>
    BY <1>4 DEF RequestStop, clipVars, watcherVars, Up
  <2>2. HistoryFollowsClipboard'
    BY <2>1 DEF CopyInv, HistoryFollowsClipboard, Ids, Before
  <2> QED BY <2>1, <2>2 DEF CopyInv
<1>5. CASE ProcessGone
  <2>1. /\ ~ Up' /\ wpc' = "poll" /\ wcopy' = 0 /\ last_content' = NoContent
        /\ UNCHANGED <<history, seq, copies, starts, issued>>
    BY <1>5 DEF ProcessGone, clipVars, Up
  <2>2. HistoryFollowsClipboard'
    BY <2>1 DEF CopyInv, HistoryFollowsClipboard, Ids, Before
  <2>3. wcopy' <= Len(copies')
    BY <1>t, <2>1
  <2> QED BY <2>1, <2>2, <2>3 DEF CopyInv, Saving
(* The watcher is between polls, or finds nothing new. *)
<1>11. CASE /\ wpc' \notin Saving
            /\ UNCHANGED <<history, seq, copies, proc, starts, last_content, wcopy, issued>>
  <2>1. HistoryFollowsClipboard'
    BY <1>11 DEF CopyInv, HistoryFollowsClipboard, Ids, Before
  <2> QED BY <1>11, <2>1 DEF CopyInv, Up
<1>12. CASE WatcherTest \/ WatcherReadFails
  BY <1>11, <1>12 DEF WatcherTest, WatcherReadFails, NoticesNothing, Saving, clipVars,
                      mainVars
<1>6. CASE WatcherPoll /\ Notices(Clipboard) /\ Clipboard \notin {NoContent, last_content}
  <2>1. /\ Clipboard # NoContent /\ Clipboard # last_content
        /\ last_content' = Clipboard /\ wcopy' = Len(copies) /\ Up
        /\ UNCHANGED <<history, seq, copies, proc, starts, issued>>
    BY <1>6 DEF WatcherPoll, Notices, clipVars, mainVars, Up
  <2>2. Len(copies) \in Nat /\ Len(copies) > 0 /\ Clipboard = copies[Len(copies)]
    BY <1>t, <2>1 DEF Clipboard
  <2>3. wcopy < Len(copies)
    BY <1>t, <2>1, <2>2 DEF CopyInv
  <2>4. HistoryFollowsClipboard'
    BY <2>1 DEF CopyInv, HistoryFollowsClipboard, Ids, Before
  <2>5. \A k \in 1 .. seq :
          /\ issued[k].copy <= wcopy'
          /\ issued[k].start < starts \/ issued[k].copy < wcopy'
    <3> SUFFICES ASSUME NEW k \in 1 .. seq
                 PROVE  /\ issued[k].copy <= Len(copies)
                        /\ issued[k].start < starts \/ issued[k].copy < Len(copies)
      BY <2>1
    <3>1. /\ issued[k].copy \in Nat /\ issued[k].start \in Nat
          /\ issued[k].copy \in 1 .. Len(copies) /\ issued[k].start <= starts
          /\ issued[k].start = starts => issued[k].copy <= wcopy
      BY <1>k, <2>1 DEF CopyInv
    <3> QED BY SMTT(30), <1>t, <2>2, <2>3, <3>1
  <2> QED BY <2>1, <2>2, <2>4, <2>5 DEF CopyInv
<1>13. CASE WatcherPoll
  <2>1. CASE NoticesNothing
    BY <1>11, <1>13, <2>1 DEF WatcherPoll, NoticesNothing, Saving, clipVars, mainVars
  <2> QED BY <1>6, <1>13, <2>1 DEF WatcherPoll
<1>7. CASE WatcherCheck \/ WatcherCheckFails \/ WatcherBind
  <2>1. /\ wpc \in Saving
        /\ UNCHANGED <<history, seq, copies, proc, starts, last_content, wcopy, issued>>
    BY <1>7 DEF WatcherCheck, WatcherCheckFails, WatcherBind, Saving, clipVars, mainVars
  <2>2. HistoryFollowsClipboard'
    BY <2>1 DEF CopyInv, HistoryFollowsClipboard, Ids, Before
  <2> QED BY <2>1, <2>2 DEF CopyInv, Up
<1>8. CASE WatcherInsertFails
  BY <1>8, <1>11 DEF WatcherInsertFails, Saving, clipVars, mainVars, SaveReturns
<1>9. CASE WatcherInsert
  <2> DEFINE new == [start |-> starts, copy |-> wcopy, written |-> now]
  <2>1. /\ RowWritten /\ wpc \in Saving /\ wpc' \notin Saving
        /\ issued' = Append(issued, new)
        /\ UNCHANGED <<copies, proc, starts, last_content, wcopy>>
    BY <1>9, InsertEffect
       DEF WatcherInsert, Saving, clipVars, mainVars, DaemonTypeOK, SaveReturns
  <2>2. Len(issued) = seq /\ wcopy > 0 /\ wcopy <= Len(copies) /\ Len(copies) \in Nat
    BY <1>t, <2>1 DEF CopyInv, HistoryFollowsClipboard
  <2>3. /\ seq' = seq + 1 /\ Len(issued') = seq' /\ issued'[seq + 1] = new
        /\ \A k \in 1 .. seq : issued'[k] = issued[k]
    BY <1>t, <2>1, <2>2 DEF RowWritten
  <2>4. \A k \in 1 .. seq : Before(issued[k], new)
    <3> SUFFICES ASSUME NEW k \in 1 .. seq PROVE Before(issued[k], new)
      OBVIOUS
    <3>1. /\ issued[k].start <= starts /\ issued[k].copy <= wcopy
          /\ issued[k].start < starts \/ issued[k].copy < wcopy
      BY <2>1, <2>2 DEF CopyInv
    <3>2. issued[k].start \in Nat /\ issued[k].copy \in Nat
      BY <1>k
    <3>3. new.start = starts /\ new.copy = wcopy
      OBVIOUS
    <3> HIDE DEF new
    <3>4. issued[k].start # new.start \/ issued[k].copy # new.copy
      BY <1>t, <3>1, <3>2, <3>3
    <3> QED BY <3>1, <3>3, <3>4 DEF Before
  <2>5. \A i, j \in 1 .. seq' : i < j => Before(issued'[i], issued'[j])
    <3> SUFFICES ASSUME NEW i \in 1 .. seq', NEW j \in 1 .. seq', i < j
                 PROVE  Before(issued'[i], issued'[j])
      OBVIOUS
    <3>1. i \in 1 .. seq /\ issued'[i] = issued[i]
      BY <1>t, <2>3
    <3>2. CASE j = seq + 1
      BY <2>3, <2>4, <3>1, <3>2
    <3>3. CASE j \in 1 .. seq
      <4>1. Before(issued[i], issued[j])
        BY <3>1, <3>3 DEF CopyInv, HistoryFollowsClipboard
      <4> QED BY <2>3, <3>1, <3>3, <4>1
    <3> QED BY <1>t, <2>3, <3>2, <3>3
  <2>6. \A i \in Ids' : history'[i].content = copies'[issued'[i].copy]
    <3>1. history'[seq + 1].content = copies[wcopy]
      BY <2>1, <2>2, <1>t DEF RowWritten, CopyInv
    <3>2. issued'[seq + 1].copy = wcopy
      BY <2>3
    <3>3. history'[seq + 1].content = copies'[issued'[seq + 1].copy]
      BY <2>1, <3>1, <3>2
    <3>4. \A i \in Ids : history'[i].content = copies'[issued'[i].copy]
      BY <1>i, <2>1, <2>3 DEF RowWritten, CopyInv, HistoryFollowsClipboard
    <3>5. \A i \in Ids' : i \in Ids \/ i = seq + 1
      BY <2>1 DEF RowWritten
    <3> QED BY <3>3, <3>4, <3>5
  <2>7. HistoryFollowsClipboard'
    BY <2>3, <2>5, <2>6 DEF HistoryFollowsClipboard
  <2>8. \A k \in 1 .. seq' :
          /\ issued'[k].copy \in 1 .. Len(copies)
          /\ issued'[k].start <= starts
          /\ issued'[k].copy <= wcopy
    <3>1. \A k \in 1 .. seq : /\ issued[k].copy \in 1 .. Len(copies)
                              /\ issued[k].start <= starts
                              /\ issued[k].copy <= wcopy
      BY <2>2 DEF CopyInv
    <3>2. /\ new.copy \in 1 .. Len(copies) /\ new.start <= starts
          /\ new.copy <= wcopy
      BY <1>t, <2>2
    <3>3. \A k \in 1 .. seq' : k \in 1 .. seq \/ k = seq + 1
      BY <1>t, <2>3
    <3> SUFFICES ASSUME NEW k \in 1 .. seq'
                 PROVE  /\ issued'[k].copy \in 1 .. Len(copies)
                        /\ issued'[k].start <= starts
                        /\ issued'[k].copy <= wcopy
      OBVIOUS
    <3>4. CASE k \in 1 .. seq
      BY <2>3, <3>1, <3>4
    <3>5. CASE k = seq + 1
      BY <2>3, <3>2, <3>5
    <3> QED BY <3>3, <3>4, <3>5
  <2> QED BY <2>1, <2>2, <2>7, <2>8 DEF CopyInv
<1>10. (RowsKept \/ RowsRemoved) \/ WatcherInsert
  BY StepEffect DEF RowWritten
<1> QED
  BY <1>1, <1>2, <1>3, <1>4, <1>5, <1>7, <1>8, <1>9, <1>10, <1>12, <1>13
     DEF DaemonNext, vars, clipVars, mainVars, watcherVars, Tick, Exit,
         Crash, CleanerWake, CleanerDelete, CleanerDeleteFails,
         HandleDelete, HandleClear, HandlePin, HandleSave, OthersIdle,
         ListBegin, ListRow, ListEnd, ListFails, ListAnswered

(* The history is the clipboard's: every row holds what was copied, in the  *)
(* order of the copies, and one copy makes at most one row per start.       *)
THEOREM HistoryDoesFollowClipboard == DaemonSpec => []HistoryFollowsClipboard
<1>1. CopyInv => HistoryFollowsClipboard
  BY DEF CopyInv
<1> QED BY <1>1, CopyInit, CopyStep, DaemonTypesCorrect, PTL DEF DaemonSpec

-----------------------------------------------------------------------------
(* How long secrets stay                                                   *)

(* While the daemon runs, the cleaner's next round is at most one period    *)
(* away and at most Lag seconds late, and unless its last DELETE failed its *)
(* sleep ends at most one period and one Lag after the time from which an   *)
(* expiring row counts.                                                     *)
CountsFrom(i, t) ==
  t \in {history[i].expires_at, issued[i].written, upSince}

InTime(i) ==
  history[i].expires_at > 0 =>
    \E t \in Nat : CountsFrom(i, t) /\ wakeAt <= t + CleanPeriod + Lag

RoundInTime ==
  /\ now <= wakeAt + Lag
  /\ wakeAt <= now + CleanPeriod
  /\ cpc = "delete" => wakeAt <= ctime /\ ctime <= now

LifeInv ==
  /\ proc = "down" => cpc = "sleep"
  /\ proc = "running" => RoundInTime
  /\ proc = "running" /\ cres = "ok" => \A i \in Ids : InTime(i)

LEMMA LifeInit == DaemonInit => LifeInv
BY DEF DaemonInit, LifeInv

LEMMA LifeStep ==
  /\ DaemonTypeOK /\ HistoryFollowsClipboard /\ LifeInv
  /\ [DaemonNext]_vars
  => LifeInv'
<1> SUFFICES ASSUME DaemonTypeOK, HistoryFollowsClipboard, LifeInv, [DaemonNext]_vars
             PROVE  LifeInv'
  OBVIOUS
<1>0. /\ now \in Nat /\ wakeAt \in Nat /\ ctime \in Nat /\ upSince \in Nat
      /\ CleanPeriod \in Nat /\ Lag \in Nat
      /\ seq \in Nat /\ Ids \subseteq 1 .. seq
      /\ \A i \in Ids : history[i].expires_at \in Nat
  BY DaemonAssumption DEF DaemonTypeOK, StoreTypeOK, Row
<1>1. (proc = "down" => cpc = "sleep")'
  BY DEF LifeInv, DaemonNext, vars, mainVars, cleanerVars, Up, Copy, Tick, Start,
         RequestStop, Exit, Crash, ProcessGone,
         WatcherTest, WatcherReadFails, WatcherPoll,
         WatcherCheck, WatcherCheckFails, WatcherBind, WatcherInsert,
         WatcherInsertFails, CleanerWake, CleanerDelete, CleanerDeleteFails,
         HandleDelete, HandleClear, HandlePin, HandleSave, OthersIdle,
         ListBegin, ListRow, ListEnd, ListFails, ListAnswered,
         SleepAgain, SaveReturns
<1> SUFFICES ASSUME proc' = "running"
             PROVE  RoundInTime' /\ (cres' = "ok" => \A i \in Ids' : InTime(i)')
  BY <1>1 DEF LifeInv
<1>2. ASSUME proc = "running", UNCHANGED <<wakeAt, upSince, cres>>, cres' = "ok",
             UNCHANGED issued \/ WatcherInsert
      PROVE  \A i \in Ids' : InTime(i)'
  <2>0. RoundInTime /\ \A i \in Ids : InTime(i)
    BY <1>2 DEF LifeInv
  <2>1. CASE RowsKept
    <3>1. UNCHANGED issued
      BY <1>0, <1>2, <2>1 DEF WatcherInsert, InsertItem, RowsKept
    <3> QED BY <1>2, <2>0, <2>1, <3>1 DEF RowsKept, InTime, CountsFrom
  <2>2. CASE RowsRemoved
    <3>1. UNCHANGED issued
      BY <1>0, <1>2, <2>2 DEF WatcherInsert, InsertItem, RowsRemoved
    <3> QED BY <1>2, <2>0, <2>2, <3>1 DEF RowsRemoved, InTime, CountsFrom
  <2>3. CASE RowWritten
    <3> DEFINE Origin == [start: Nat, copy: Nat, written: Nat]
               new == [start |-> starts, copy |-> wcopy, written |-> now]
    <3>1. issued' = Append(issued, new) /\ issued \in Seq(Origin) /\ Len(issued) = seq
      BY <2>3 DEF RowWritten, WatcherInsert, DaemonTypeOK, HistoryFollowsClipboard
    <3>2. new.written = now
      OBVIOUS
    <3> HIDE DEF Origin, new
    <3>3. issued'[seq + 1] = new /\ \A i \in 1 .. seq : issued'[i] = issued[i]
      BY <1>0, <3>1
    <3>4. \A i \in Ids' : i = seq + 1 \/ (i \in Ids /\ history'[i] = history[i])
      BY <2>3 DEF RowWritten
    <3>5. ASSUME NEW i \in Ids', i = seq + 1 PROVE InTime(i)'
      <4>1. issued'[i].written = now
        BY <3>2, <3>3, <3>5
      <4>2. wakeAt' <= now + CleanPeriod + Lag
        BY <1>0, <1>2, <2>0 DEF RoundInTime
      <4> QED BY <1>0, <4>1, <4>2 DEF InTime, CountsFrom
    <3>6. ASSUME NEW i \in Ids, history'[i] = history[i] PROVE InTime(i)'
      <4>1. issued'[i] = issued[i]
        BY <1>0, <3>3
      <4> QED BY <1>2, <2>0, <3>6, <4>1 DEF InTime, CountsFrom
    <3> QED BY <3>4, <3>5, <3>6
  <2> QED BY <2>1, <2>2, <2>3, StepEffect
<1>3. CASE proc = "running" /\ UNCHANGED <<cpc, wakeAt, ctime, cres, upSince, now>>
           /\ (UNCHANGED issued \/ WatcherInsert)
  <2>1. RoundInTime'
    BY <1>3 DEF LifeInv, RoundInTime
  <2> QED BY <1>2, <1>3, <2>1
<1>4. CASE Tick
  <2>1. /\ proc = "running" /\ now < wakeAt + Lag /\ now' = now + 1
        /\ UNCHANGED <<cpc, wakeAt, ctime, cres, upSince, issued>>
    BY <1>4 DEF Tick, mainVars, cleanerVars
  <2>2. RoundInTime'
    BY <1>0, <2>1 DEF LifeInv, RoundInTime
  <2> QED BY <1>2, <2>1, <2>2
<1>5. CASE Start
  <2>1. /\ proc = "down" /\ upSince' = now /\ wakeAt' = now + CleanPeriod
        /\ UNCHANGED <<history, issued, now, cpc>>
    BY <1>5 DEF Start
  <2>2. RoundInTime'
    BY <1>0, <2>1 DEF LifeInv, RoundInTime
  <2>3. \A i \in Ids' : InTime(i)'
    BY <1>0, <2>1 DEF InTime, CountsFrom
  <2> QED BY <2>2, <2>3
<1>6. CASE CleanerWake
  <2>1. /\ proc = "running" /\ wakeAt <= now /\ ctime' = now
        /\ UNCHANGED <<wakeAt, cres, now, upSince, issued>>
    BY <1>6 DEF CleanerWake, mainVars
  <2>2. RoundInTime'
    BY <1>0, <2>1 DEF LifeInv, RoundInTime
  <2> QED BY <1>2, <2>1, <2>2
<1>7. CASE CleanerDelete
  <2>1. /\ proc = "running" /\ cpc = "delete" /\ cpc' = "sleep"
        /\ wakeAt' = now + CleanPeriod /\ UNCHANGED <<now, upSince, issued>>
    BY <1>7 DEF CleanerDelete, mainVars, SleepAgain
  <2>2. RoundInTime'
    BY <1>0, <2>1 DEF RoundInTime
  <2>3. now <= ctime + Lag
    BY <1>0, <2>1 DEF LifeInv, RoundInTime
  <2>4. \A i \in Ids' : /\ i \in Ids /\ history'[i] = history[i]
                        /\ history[i].expires_at > 0 => ctime <= history[i].expires_at
    <3>1. Discard(Expired(ctime)) /\ UNCHANGED seq
      BY <1>7 DEF CleanerDelete, DeleteExpired
    <3>2. RowsRemoved /\ Ids' = Ids \ Expired(ctime)
      BY <3>1, DiscardEffect
    <3>3. ASSUME NEW i \in Ids' PROVE i \in Ids \ Expired(ctime) /\ history'[i] = history[i]
      BY <3>2, <3>3 DEF RowsRemoved
    <3>4. ASSUME NEW i \in Ids \ Expired(ctime), history[i].expires_at > 0
          PROVE  ctime <= history[i].expires_at
      <4> DEFINE e == history[i].expires_at
      <4>1. e \in Nat /\ e > 0 /\ ~ (e > 0 /\ e < ctime)
        BY <1>0, <3>4 DEF Expired
      <4> HIDE DEF e
      <4>2. ctime <= e
        BY <1>0, <4>1
      <4> QED BY <4>2 DEF e
    <3> QED BY <3>3, <3>4
  <2>5. ASSUME NEW i \in Ids', history'[i].expires_at > 0 PROVE InTime(i)'
    <3>1. /\ history'[i].expires_at \in Nat
          /\ wakeAt' <= history'[i].expires_at + CleanPeriod + Lag
      <4>1. i \in Ids /\ history'[i] = history[i] /\ history[i].expires_at \in Nat
        BY <1>0, <2>4
      <4>2. ctime <= history[i].expires_at
        BY <2>4, <2>5, <4>1
      <4> DEFINE e == history[i].expires_at
      <4>3. e \in Nat /\ ctime <= e /\ history'[i].expires_at = e
        BY <4>1, <4>2
      <4> HIDE DEF e
      <4> QED BY <1>0, <2>1, <2>3, <4>3
    <3>2. history'[i].expires_at
            \in {history'[i].expires_at, issued'[i].written, upSince'}
      OBVIOUS
    <3> QED BY <3>1, <3>2 DEF InTime, CountsFrom
  <2> QED BY <2>2, <2>5 DEF InTime
<1>8. CASE CleanerDeleteFails
  <2>1. cpc' = "sleep" /\ wakeAt' = now + CleanPeriod /\ now' = now /\ cres' = "failed"
    BY <1>8 DEF CleanerDeleteFails, SleepAgain
  <2> QED BY <1>0, <2>1 DEF RoundInTime
<1> QED
  BY <1>3, <1>4, <1>5, <1>6, <1>7, <1>8
     DEF DaemonNext, vars, mainVars, cleanerVars, Copy, RequestStop, Exit,
         Crash, ProcessGone,
         WatcherTest, WatcherReadFails, WatcherPoll, WatcherCheck,
         WatcherCheckFails, WatcherBind, WatcherInsert, WatcherInsertFails,
         HandleDelete, HandleClear, HandlePin, HandleSave,
         OthersIdle, ListBegin, ListRow, ListEnd, ListFails, ListAnswered

(* Secrets are gone within one cleaner period and the delays of two rounds  *)
(* of the moment they count from.                                           *)
THEOREM SecretsAreShortLived == DaemonSpec => []SecretLifetime
<1>1. DaemonTypeOK /\ LifeInv => SecretLifetime
  <2> SUFFICES ASSUME DaemonTypeOK, LifeInv, proc = "running", cres = "ok",
                      NEW i \in Ids, history[i].expires_at > 0
               PROVE  \E t \in {history[i].expires_at, issued[i].written, upSince} :
                        now <= t + CleanPeriod + 2 * Lag
    BY DEF SecretLifetime
  <2>1. PICK t \in Nat : CountsFrom(i, t) /\ wakeAt <= t + CleanPeriod + Lag
    BY DEF LifeInv, InTime
  <2>2. /\ now <= wakeAt + Lag
        /\ now \in Nat /\ wakeAt \in Nat /\ CleanPeriod \in Nat /\ Lag \in Nat
    BY DaemonAssumption DEF LifeInv, RoundInTime, DaemonTypeOK, StoreTypeOK
  <2>3. now <= t + CleanPeriod + 2 * Lag
    BY <2>1, <2>2
  <2> QED BY <2>1, <2>3 DEF CountsFrom
<1> QED BY <1>1, LifeInit, LifeStep, DaemonTypesCorrect, HistoryDoesFollowClipboard,
           PTL DEF DaemonSpec
=============================================================================
