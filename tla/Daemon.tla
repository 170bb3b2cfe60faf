------------------------------- MODULE Daemon -------------------------------
(***************************************************************************)
(* The background process: Daemon::run and the threads it starts, all of   *)
(* them on one Storage.                                                    *)
(*                                                                         *)
(*   main      starts the others, waits for running_ to become false, and  *)
(*             leaves; nobody joins the threads, they die with the process *)
(*   watcher   watch_clipboard: test running_, read the clipboard, compare *)
(*             with last_content, save_item                                *)
(*   cleaner   sleep, test running_, then delete_expired                   *)
(*   handlers  one detached thread per client connection.  A command that  *)
(*             is one SQL statement is one action; LIST and SEARCH are one *)
(*             action per row, because the statements of other threads run *)
(*             between the rows.  One client is followed through its scan  *)
(*             and keeps what it was told (`seen`); scans only read, so    *)
(*             another client changes nothing for this one.                *)
(*                                                                         *)
(* With StorageFaults any statement may fail.  A failed one changes no     *)
(* row, and no caller but save_item looks at the result: a handler answers *)
(* as if it had succeeded (what that is to the client is in module Ipc).   *)
(*                                                                         *)
(* The process may be stopped, may crash, and may be started again on the  *)
(* same database.  Which process runs, and how start and stop find it, is  *)
(* the subject of module Lifecycle.                                        *)
(***************************************************************************)
EXTENDS ClipStore, Sequences

CONSTANTS
  NoContent,     (* the empty string                                        *)
  CleanPeriod,   (* seconds the cleaner sleeps: 5 in the code               *)
  Lag,           (* seconds by which a round of the cleaner may be late      *)
  SearchLimit,   (* the LIMIT of search: 50 in the code                     *)
  Queries,       (* for each search a client may make, the texts it matches *)
  StorageFaults, (* may a statement fail (SQLITE_BUSY, SQLITE_FULL, ...)?   *)
  MaxCopies,     (* bound: changes of the clipboard                         *)
  MaxStarts      (* bound: starts of the daemon                             *)

ASSUME DaemonAssumption ==
  /\ NoContent \notin Contents
  /\ CleanPeriod \in Nat \ {0}
  /\ Lag \in Nat
  /\ SearchLimit \in Nat
  /\ Queries \subseteq SUBSET Contents
  /\ StorageFaults \in BOOLEAN
  /\ MaxCopies \in Nat
  /\ MaxStarts \in Nat

VARIABLES
  copies,        (* every text the clipboard has held; the last is there now *)
  proc,          (* "running" is running_; "stopping" is running_ = false    *)
  starts,        (* how often the daemon was started                         *)
  upSince,       (* when it was started last                                 *)
  wpc,           (* watcher: between polls, before it reads the clipboard,
                    and the places in save_item where others may run         *)
  last_content,  (* watcher: the text it saw last                            *)
  wcopy,         (* watcher: the index in copies of what it saw last         *)
  wexp,          (* watcher: expires_at, computed before the INSERT          *)
  wtime,         (* watcher: timestamp, bound to the INSERT after that       *)
  cpc,           (* cleaner: asleep, or past its second test of running_     *)
  wakeAt,        (* cleaner: when sleep_for returns at the earliest          *)
  ctime,         (* cleaner: the time bound to its DELETE                    *)
  cres,          (* ... and how the last one ended (a history variable)      *)
  lpc,           (* handler of the client's LIST or SEARCH: "cut" when a
                    statement failed, which the client is not told           *)
  lquery,        (* ... the texts its WHERE clause accepts                   *)
  ltop,          (* ... every row that existed when it began is below this   *)
  lcursor,       (* ... the id of the row it returned last                   *)
  lleft,         (* ... rows its LIMIT still allows, negative for all        *)
  seen,          (* the client: number -> text, as it was told               *)
  issued         (* for every row ever written, the start and the copy it is
                    from and when it was written (a history variable)        *)

clipVars == <<copies>>
mainVars == <<proc, starts, upSince>>
watcherVars == <<wpc, last_content, wcopy, wexp, wtime>>
cleanerVars == <<cpc, wakeAt, ctime, cres>>
listVars == <<lpc, lquery, ltop, lcursor, lleft, seen>>

vars == <<history, seq, snippets, now, copies, proc, starts, upSince,
          wpc, last_content, wcopy, wexp, wtime, cpc, wakeAt, ctime,
          cres, lpc, lquery, ltop, lcursor, lleft, seen, issued>>

Up == proc # "down"

Clipboard == IF copies = <<>> THEN NoContent ELSE copies[Len(copies)]

DaemonInit ==
  /\ StoreInit
  /\ copies = <<>>
  /\ proc = "down" /\ starts = 0 /\ upSince = 0
  /\ wpc = "poll" /\ last_content = NoContent /\ wcopy = 0
  /\ wexp = 0 /\ wtime = 0
  /\ cpc = "sleep" /\ wakeAt = 0 /\ ctime = 0 /\ cres = "ok"
  /\ lpc = "idle" /\ lquery = {} /\ ltop = 0 /\ lcursor = 0 /\ lleft = 0
  /\ seen = EmptyTable
  /\ issued = <<>>

-----------------------------------------------------------------------------
(* The user and the clock                                                  *)

(* Some program takes the clipboard, or (NoContent) leaves it empty.        *)
Copy(c) ==
  /\ Len(copies) < MaxCopies
  /\ copies' = Append(copies, c)
  /\ UNCHANGED <<history, seq, snippets, now, mainVars, watcherVars,
                 cleanerVars, listVars, issued>>

(* sleep_for is a minimum, and the DELETE takes its time: a round of the    *)
(* cleaner, from the end of its sleep to the end of its statement, is       *)
(* assumed to take at most Lag seconds, for which the clock waits.          *)
Tick ==
  /\ now < MaxNow
  /\ proc = "running" => now < wakeAt + Lag
  /\ now' = now + 1
  /\ UNCHANGED <<history, seq, snippets, clipVars, mainVars, watcherVars,
                 cleanerVars, listVars, issued>>

-----------------------------------------------------------------------------
(* Main thread                                                             *)

Start ==
  /\ proc = "down"
  /\ starts < MaxStarts
  /\ proc' = "running"
  /\ starts' = starts + 1
  /\ upSince' = now
  /\ wakeAt' = now + CleanPeriod
  /\ UNCHANGED <<history, seq, snippets, now, clipVars, watcherVars, cpc, ctime,
                 cres, listVars, issued>>

(* SIGTERM, SIGINT or the command STOP: all of them set running_ to false.  *)
RequestStop ==
  /\ proc = "running"
  /\ proc' = "stopping"
  /\ UNCHANGED <<history, seq, snippets, now, clipVars, starts, upSince,
                 watcherVars, cleanerVars, listVars, issued>>

(* The process is gone, and with it what its threads knew.  A client whose  *)
(* answer was being collected gets none.                                    *)
ProcessGone ==
  /\ proc' = "down"
  /\ wpc' = "poll" /\ last_content' = NoContent /\ wcopy' = 0
  /\ wexp' = 0 /\ wtime' = 0
  /\ cpc' = "sleep" /\ wakeAt' = 0 /\ ctime' = 0 /\ cres' = "ok"
  /\ lpc' = IF lpc = "scan" THEN "idle" ELSE lpc
  /\ seen' = IF lpc = "scan" THEN EmptyTable ELSE seen
  /\ UNCHANGED <<history, seq, snippets, now, clipVars, starts, upSince,
                 lquery, ltop, lcursor, lleft, issued>>

(* run returns: the Storage is closed and main returns, while the detached  *)
(* threads may be anywhere; what they had not done yet is never done.       *)
Exit ==
  /\ proc = "stopping"
  /\ ProcessGone

(* SIGKILL, an uncaught exception in a thread, SIGPIPE, power loss.         *)
Crash ==
  /\ Up
  /\ ProcessGone

-----------------------------------------------------------------------------
(* watch_clipboard                                                         *)

(* The loop's test of running_.  A stop may come before the clipboard is    *)
(* read, and the poll goes on.                                              *)
WatcherTest ==
  /\ proc = "running" /\ wpc = "poll"
  /\ wpc' = "read"
  /\ UNCHANGED <<history, seq, snippets, now, clipVars, mainVars, last_content,
                 wcopy, wexp, wtime, cleanerVars, listVars, issued>>

Notices(c) ==
  /\ last_content' = c
  /\ wcopy' = Len(copies)
  /\ wpc' = "check"

NoticesNothing == wpc' = "poll" /\ UNCHANGED <<last_content, wcopy>>

(* Mutant: the test for an empty clipboard is missing. *)
WatcherPollEmpty ==
  /\ Up /\ wpc = "read"
  /\ IF Clipboard # last_content THEN Notices(Clipboard) ELSE NoticesNothing
  /\ UNCHANGED <<history, seq, snippets, now, clipVars, mainVars, wexp, wtime,
                 cleanerVars, listVars, issued>>

(* Mutant: every poll goes to save_item, which has a test of its own. *)
WatcherPollAlways ==
  /\ Up /\ wpc = "read"
  /\ IF Clipboard # NoContent THEN Notices(Clipboard) ELSE NoticesNothing
  /\ UNCHANGED <<history, seq, snippets, now, clipVars, mainVars, wexp, wtime,
                 cleanerVars, listVars, issued>>

(* One poll.  When it finds something new, last_content changes before      *)
(* save_item is called.                                                     *)
WatcherPoll ==
  /\ Up /\ wpc = "read"
  /\ IF Clipboard \notin {NoContent, last_content}
     THEN Notices(Clipboard)
     ELSE NoticesNothing
  /\ UNCHANGED <<history, seq, snippets, now, clipVars, mainVars, wexp, wtime,
                 cleanerVars, listVars, issued>>

(* popen fails, or xclip does and prints nothing.                           *)
WatcherReadFails ==
  /\ Up /\ wpc = "read"
  /\ NoticesNothing
  /\ UNCHANGED <<history, seq, snippets, now, clipVars, mainVars, wexp, wtime,
                 cleanerVars, listVars, issued>>

(* save_item up to its INSERT: is_duplicate, the type, the expiry.          *)
WatcherCheck ==
  /\ Up /\ wpc = "check"
  /\ IF IsDuplicate(last_content)
     THEN wpc' = "poll" /\ UNCHANGED wexp
     ELSE wpc' = "bind" /\ wexp' = ExpiryOf(last_content)
  /\ UNCHANGED <<history, seq, snippets, now, clipVars, mainVars,
                 last_content, wcopy, wtime, cleanerVars, listVars, issued>>

(* The SELECT of is_duplicate returns no row because it failed.             *)
WatcherCheckFails ==
  /\ StorageFaults
  /\ Up /\ wpc = "check"
  /\ wpc' = "bind" /\ wexp' = ExpiryOf(last_content)
  /\ UNCHANGED <<history, seq, snippets, now, clipVars, mainVars,
                 last_content, wcopy, wtime, cleanerVars, listVars, issued>>

(* The clock is read a second time, for the timestamp.                      *)
WatcherBind ==
  /\ Up /\ wpc = "bind"
  /\ wpc' = "insert" /\ wtime' = now
  /\ UNCHANGED <<history, seq, snippets, now, clipVars, mainVars,
                 last_content, wcopy, wexp, cleanerVars, listVars, issued>>

(* The poll is over, and with it what save_item kept.                       *)
SaveReturns == wpc' = "poll" /\ wexp' = 0 /\ wtime' = 0

(* Between the two statements of save_item any other thread may have run.   *)
WatcherInsert ==
  /\ Up /\ wpc = "insert"
  /\ InsertItem(last_content, wtime, wexp)
  /\ issued' = Append(issued, [start |-> starts, copy |-> wcopy, written |-> now])
  /\ SaveReturns
  /\ UNCHANGED <<snippets, now, clipVars, mainVars, last_content, wcopy,
                 cleanerVars, listVars>>

(* save_item returns -1 after an error, which the watcher ignores.          *)
WatcherInsertFails ==
  /\ StorageFaults
  /\ Up /\ wpc = "insert"
  /\ SaveReturns
  /\ UNCHANGED <<history, seq, snippets, now, clipVars, mainVars,
                 last_content, wcopy, cleanerVars, listVars, issued>>

-----------------------------------------------------------------------------
(* The cleaner thread                                                      *)

(* Mutant: the clock is read once, before the loop. *)
CleanerWakeOnce ==
  /\ proc = "running" /\ cpc = "sleep" /\ wakeAt <= now
  /\ cpc' = "delete" /\ ctime' = upSince
  /\ UNCHANGED <<history, seq, snippets, now, clipVars, mainVars, watcherVars,
                 wakeAt, cres, listVars, issued>>

(* The second test of running_, and the time for the statement.             *)
CleanerWake ==
  /\ proc = "running" /\ cpc = "sleep" /\ wakeAt <= now
  /\ cpc' = "delete" /\ ctime' = now
  /\ UNCHANGED <<history, seq, snippets, now, clipVars, mainVars, watcherVars,
                 wakeAt, cres, listVars, issued>>

SleepAgain == cpc' = "sleep" /\ wakeAt' = now + CleanPeriod /\ ctime' = 0

CleanerDelete ==
  /\ Up /\ cpc = "delete"
  /\ DeleteExpired(ctime)
  /\ SleepAgain /\ cres' = "ok"
  /\ UNCHANGED <<now, clipVars, mainVars, watcherVars, listVars, issued>>

(* The error is ignored; the rows wait for the next round.                  *)
CleanerDeleteFails ==
  /\ StorageFaults
  /\ Up /\ cpc = "delete"
  /\ SleepAgain /\ cres' = "failed"
  /\ UNCHANGED <<history, seq, snippets, now, clipVars, mainVars,
                 watcherVars, listVars, issued>>

-----------------------------------------------------------------------------
(* handle_message: DELETE, CLEAR, PIN, SAVE.  The client's number may be of *)
(* a row that is gone, which changes nothing and is answered as a success,  *)
(* and so is a statement that fails.                                        *)

OthersIdle == UNCHANGED <<now, clipVars, mainVars, watcherVars, cleanerVars,
                          listVars, issued>>

StatementFails == StorageFaults /\ UNCHANGED tables

HandleDelete(i) == Up /\ (DeleteItem(i) \/ StatementFails) /\ OthersIdle

HandleClear == Up /\ (ClearHistory \/ StatementFails) /\ OthersIdle

HandlePin(i, pinned) == Up /\ (PinItem(i, pinned) \/ StatementFails) /\ OthersIdle

HandleSave(name, c) == Up /\ (SaveSnippet(name, c) \/ StatementFails) /\ OthersIdle

-----------------------------------------------------------------------------
(* handle_message: LIST and SEARCH                                         *)

(* The first step of the SELECT places its cursor behind the newest row.    *)
ListBegin(limit, query) ==
  /\ Up /\ lpc # "scan"
  /\ lpc' = "scan"
  /\ lquery' = query
  /\ ltop' = seq + 1
  /\ lcursor' = seq + 1
  /\ lleft' = limit
  /\ seen' = EmptyTable
  /\ UNCHANGED <<history, seq, snippets, now, clipVars, mainVars, watcherVars,
                 cleanerVars, issued>>

Matching == {i \in Ids : i < lcursor /\ history[i].content \in lquery}

(* Mutant: the cursor steps over the neighbour of the row it returned. *)
ListRowSkipping ==
  /\ Up /\ lpc = "scan" /\ lleft # 0
  /\ \E i \in Matching :
       /\ \A j \in Matching : j <= i
       /\ lcursor' = i - 1
       /\ seen' = [j \in DOMAIN seen \cup {i} |->
                     IF j = i THEN history[i].content ELSE seen[j]]
  /\ lleft' = IF lleft > 0 THEN lleft - 1 ELSE lleft
  /\ UNCHANGED <<history, seq, snippets, now, clipVars, mainVars, watcherVars,
                 cleanerVars, lpc, lquery, ltop, issued>>

(* sqlite3_step: the next row downwards, as the table is now.               *)
ListRow ==
  /\ Up /\ lpc = "scan" /\ lleft # 0
  /\ \E i \in Matching :
       /\ \A j \in Matching : j <= i
       /\ lcursor' = i
       /\ seen' = [j \in DOMAIN seen \cup {i} |->
                     IF j = i THEN history[i].content ELSE seen[j]]
  /\ lleft' = IF lleft > 0 THEN lleft - 1 ELSE lleft
  /\ UNCHANGED <<history, seq, snippets, now, clipVars, mainVars, watcherVars,
                 cleanerVars, lpc, lquery, ltop, issued>>

ListAnswered(how) ==
  /\ Up /\ lpc = "scan"
  /\ lpc' = how
  /\ UNCHANGED <<history, seq, snippets, now, clipVars, mainVars, watcherVars,
                 cleanerVars, lquery, ltop, lcursor, lleft, seen, issued>>

(* No more rows: the answer goes to the client.                             *)
ListEnd ==
  /\ lleft = 0 \/ Matching = {}
  /\ ListAnswered("done")

(* The SELECT cannot be prepared, or one of its steps fails: what was read  *)
(* until then, if anything, is answered with status 0.                      *)
ListFails ==
  /\ StorageFaults
  /\ ListAnswered("cut")

-----------------------------------------------------------------------------
DaemonNext ==
  \/ \E c \in Contents \cup {NoContent} : Copy(c)
  \/ Tick
  \/ Start
  \/ RequestStop
  \/ Exit
  \/ Crash
  \/ WatcherTest
  \/ WatcherPoll
  \/ WatcherReadFails
  \/ WatcherCheck
  \/ WatcherCheckFails
  \/ WatcherBind
  \/ WatcherInsert
  \/ WatcherInsertFails
  \/ CleanerWake
  \/ CleanerDelete
  \/ CleanerDeleteFails
  \/ \E i \in Ids : HandleDelete(i)
  \/ HandleClear
  \/ \E i \in Ids, pinned \in BOOLEAN : HandlePin(i, pinned)
  \/ \E name \in Names, c \in Contents : HandleSave(name, c)
  \/ \E limit \in Limits : ListBegin(limit, Contents)
  \/ \E query \in Queries : ListBegin(SearchLimit, query)
  \/ ListRow
  \/ ListEnd
  \/ ListFails

DaemonSpec == DaemonInit /\ [][DaemonNext]_vars

(* Every thread of a live process gets the processor and popen of xclip     *)
(* returns, so the watcher's loop goes round; and the clipboard is not      *)
(* unreadable for ever.                                                     *)
DaemonFairSpec ==
  /\ DaemonSpec
  /\ WF_vars(WatcherTest)
  /\ SF_vars(WatcherPoll)
  /\ WF_vars(WatcherCheck)
  /\ WF_vars(WatcherBind)
  /\ WF_vars(WatcherInsert)

-----------------------------------------------------------------------------
(* Types                                                                   *)

(* The watcher is in save_item. *)
Saving == {"check", "bind", "insert"}

DaemonTypeOK ==
  /\ StoreTypeOK
  /\ copies \in Seq(Contents \cup {NoContent})
  /\ proc \in {"down", "running", "stopping"}
  /\ starts \in Nat
  /\ upSince \in Nat
  /\ wpc \in {"poll", "read", "check", "bind", "insert"}
  /\ last_content \in Contents \cup {NoContent}
  /\ wpc \in Saving => last_content \in Contents
  /\ wcopy \in Nat
  /\ wexp \in Nat
  /\ wtime \in Nat
  /\ cpc \in {"sleep", "delete"}
  /\ wakeAt \in Nat
  /\ ctime \in Nat
  /\ cres \in {"ok", "failed"}
  /\ lpc \in {"idle", "scan", "done", "cut"}
  /\ lquery \in SUBSET Contents
  /\ ltop \in Nat
  /\ lcursor \in Nat
  /\ lleft \in Int
  /\ DOMAIN seen \subseteq Nat
  /\ seen \in [DOMAIN seen -> Contents]
  /\ issued \in Seq([start: Nat, copy: Nat, written: Nat])

-----------------------------------------------------------------------------
(* Safety                                                                  *)

(* A number the client was told names, for as long as the row exists, the   *)
(* item the client saw under it: whatever ran since, `clip delete <id>`,    *)
(* `clip pin <id>` and the browser's d and p act on that item and no other. *)
SeenIdsStable ==
  \A i \in DOMAIN seen \cap Ids : seen[i] = history[i].content

(* LIST and SEARCH read row by row while other threads insert and delete.   *)
(* Of what was there when the answer began and is still there, only rows    *)
(* older than all of the answer can be missing from it; and none is, unless *)
(* LIMIT cut it off or a statement failed.                                  *)
Overlooked(i) == i < ltop /\ history[i].content \in lquery /\ i \notin DOMAIN seen

ListComplete ==
  \A i \in Ids : Overlooked(i) =>
    /\ lpc = "scan" => i < lcursor
    /\ lpc \in {"done", "cut"} => \A j \in DOMAIN seen : i < j
    /\ lpc = "done" => lleft = 0

(* However polls, commands, failures, crashes and restarts interleave, the  *)
(* history is the clipboard's history: a row holds what was copied, rows    *)
(* are in the order of the copies they are from, and one copy makes at most *)
(* one row each time the daemon is started.                                 *)
Before(a, b) ==
  /\ a.start <= b.start
  /\ a.copy <= b.copy
  /\ a.start # b.start \/ a.copy # b.copy

HistoryFollowsClipboard ==
  /\ Len(issued) = seq
  /\ \A i \in Ids : history[i].content = copies[issued[i].copy]
  /\ \A i, j \in 1 .. seq : i < j => Before(issued[i], issued[j])

(* A row has an expiry if and only if its text is a secret, at most the 30  *)
(* seconds after the row was written, however long save_item was held up    *)
(* between computing the one and the other.                                 *)
SecretsCarryExpiry ==
  \A i \in Ids :
    /\ history[i].type = "secret" <=> history[i].expires_at > 0
    /\ history[i].expires_at <= history[i].timestamp + SecretTtl

(* While the daemon runs, and unless the cleaner's last DELETE failed, a    *)
(* secret is gone one period of the cleaner after it expired, or, if it     *)
(* expired while no daemon ran or before it was written, after the daemon   *)
(* started or the row was written.  To the period come the delays of two    *)
(* rounds: the one that just missed it, and the one that removes it.  A pin *)
(* makes no difference, although pinned items are said to be kept.          *)
SecretLifetime ==
  proc = "running" /\ cres = "ok" =>
    \A i \in Ids : history[i].expires_at > 0 =>
      \E t \in {history[i].expires_at, issued[i].written, upSince} :
        now <= t + CleanPeriod + 2 * Lag

(* "Consecutive duplicates are rejected at the storage layer": a row is     *)
(* never written after a newest row with the same text.                     *)
NoConsecutiveDuplicate ==
  [][seq' # seq =>
       \A i \in Ids : (\A j \in Ids : j <= i) =>
          history[i].content # history'[seq'].content]_vars

-----------------------------------------------------------------------------
(* Liveness                                                                *)

Recorded(c) == \E k \in DOMAIN issued : copies[issued[k].copy] = c

(* A text that was never recorded, once on the clipboard, is recorded,      *)
(* unless it leaves the clipboard again or the daemon stops.                *)
NewTextRecorded ==
  \A c \in Contents :
    (proc = "running" /\ Clipboard = c /\ ~ Recorded(c))
      ~> (Recorded(c) \/ Clipboard # c \/ proc # "running")
=============================================================================
