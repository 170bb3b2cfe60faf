# ClipForge in TLA+

ClipForge is a clipboard manager: a daemon that polls the clipboard and keeps
what it sees in a SQLite database, and a program `clip` whose commands and
interactive browser talk to that daemon over a Unix socket. This directory
holds TLA+ modules of the parts that keep state, the TLC configurations that
check them, and theorems about them that the TLA+ proof system checks. Line
numbers refer to the files of `src/`; `PROJECT.json` has the full list of
which definition stands for which lines, of the hazards and of the findings.

To check a run: `tlc -config <name>.cfg <module>.tla`; to check the proofs:
`tlapm ClipStoreProofs.tla`, and the same for `EvictionProofs`, `DaemonProofs`,
`LifecycleProofs`, `TuiProofs`, `IpcProofs`, `CodecProofs` and `CliProofs`.

## 1. Inventory

| Component | State | Operations | Talks to |
|---|---|---|---|
| `Storage` (storage.cpp) | tables `history`, `snippets`, SQLite's id counter | save, delete, clear, pin, expire, evict; list, search, get; snippets; statistics | called by every thread of the daemon on one connection |
| Daemon threads (daemon.cpp) | `running_`, the watcher's `last_content`, the cleaner's sleep | poll the clipboard every 2 s; delete expired rows every 5 s; wait for `running_` to fall every 500 ms | `Storage`, `xclip`, `IPCServer` |
| Command handlers (`handle_message`) | none | PING LIST GET SEARCH DELETE CLEAR PIN SAVE SNIPS STOP STATS, one thread per connection | `Storage`, `running_` |
| Lifecycle (main.cpp, daemonize, pid file) | pid file, socket file, processes | start, stop, status, SIGTERM, crash | files by name; `kill` |
| IPC (ipc.cpp) | listening socket, a connection and a thread per client | accept, read one `Message`, answer one `Response` of fixed size; JSON of the answers | client and handler |
| Browser (tui.cpp) | loaded items, selection, scroll offset, panel height, query | one per key | daemon: LIST SEARCH GET DELETE PIN |
| Command line (cli.cpp) | none between commands | list search get delete clear pin save snippets stats: one request each, its JSON reader, `wl-copy` and `wl-paste` | daemon, clipboard |
| `detect_type` (utils.cpp) | none | classify a text | called by `save_item` |
| Configuration, logger | values read once; a log file | read; append | all |
| Installer, service file | none | | systemd runs start and stop |

What makes each of them correct:

* **Storage**: numbers are never reused; a row keeps its text; eviction takes
  the oldest unpinned rows, as few as needed; what expires is a secret.
* **Daemon**: whatever the interleaving, the history is the clipboard's
  history; an answer misses nothing that was there all along; secrets go in
  time; new texts are recorded; consecutive duplicates are refused.
* **Lifecycle**: one daemon, reachable through both files; a clean exit leaves
  neither; stop and start bring a daemon that serves; a crash heals; the
  commands know whether a daemon runs.
* **Browser**: no index leaves the list; the item that is acted on is the one
  the user sees.
* **IPC**: a command is carried out at most once, and is answered only if it
  was; clients do not wait for one another; a client that hangs up early does
  not end the daemon; no thread stays behind.
* **Classification, JSON and payload formats**: what is written is what is
  read, and nothing that looks like a secret is kept as something else.

What is hard to test here: `save_item` is two SQL statements between which
other threads run; LIST and SEARCH read the table row by row while it changes;
times are compared at one-second grain by a thread that sleeps; a crash loses
the watcher's memory but not the table; start and stop communicate through two
files that several processes unlink by name; the browser works on an old copy;
and most errors, of a statement, of the pid file, of a `read`, are not looked at.
The list under `hazards` in `PROJECT.json` has each at its line.

## 2. Modules

    HistoryLog            what readers of the history rely on (abstract)
      ^ refined by
    ClipStore             class Storage, alone        -> run store
      ^ EXTENDS                                       -> ClipStoreProofs, EvictionProofs
    Daemon                all threads on one Storage  -> runs daemon_*, finding_*
                                                      -> DaemonProofs
    Lifecycle             processes and files         -> runs lifecycle, finding_*
                                                      -> LifecycleProofs
    Tui                   browser over HistoryLog     -> run tui
                                                      -> TuiProofs
    RemoteCall            one command and its answer (abstract)
      ^ refined by
    Ipc                   sockets, accept loop, threads -> runs ipc, finding_*
                                                      -> IpcProofs
    Codec, ContentType    JSON and buffers; detect_type
      ^ EXTENDS                                       -> CodecProofs
    Cli                   texts on their way          -> run client (MCCli)
                                                      -> CliProofs

**HistoryLog** is an append-only log: the next number is given to each new
row, a row keeps its number and text, and a number is never given twice. It is
what makes `clip delete <id>` meaningful for an id that was printed a while
ago. ClipStore and Daemon implement it (`ImplementsLog`, a refinement mapping
that keeps ids and texts and forgets the rest), and Tui is built on it instead
of on Daemon: whatever holds in Tui for any log holds for this daemon.

**ClipStore** has the tables as functions (`history`: id to row, `snippets`:
name to text), SQLite's AUTOINCREMENT counter `seq` and the clock `now`. Each
writing method of `Storage` is an operator, and `StoreNext` calls them one at
a time. `save_item` is `SaveItem`; its parts `IsDuplicate`, `ExpiryOf` and
`InsertItem` are what Daemon interleaves. The times that `save_item` and
`delete_expired` bind to their statements are parameters, because they are read
before the statement runs. `EvictOldItems` has the SQL's
selection as a set, `EvictionVictims`; a LIMIT that is not exceeded selects
nothing. A text is a model value, its type is the constant `TypeOf`. The
columns `app` and `created` and the snippet's own id are written and never
used, and are left out.

**Daemon** extends it with the threads. A poll of the watcher is `WatcherTest`
(the loop's test of `running_`), `WatcherPoll` (read, strip, compare,
`last_content`) or `WatcherReadFails`, and then `save_item` in three steps:
`WatcherCheck` (`is_duplicate` and the expiry), `WatcherBind` (the second
reading of the clock, for the timestamp) and `WatcherInsert`. The cleaner's
round is `CleanerWake`, which tests `running_` and reads the clock, and
`CleanerDelete`. Between any two of these steps a stop may come, other threads
run and time passes. A handler that is one statement is one action. LIST and
SEARCH are `ListBegin`, one `ListRow` for each row, and `ListEnd`, or
`ListFails` when a statement failed. One client is followed, and what it was
told (`seen`) is kept after the answer for as long as it does not ask again; how
its answer ended is in `lpc`, but the client sees status 0 either way.
`StorageFaults` lets every statement of every thread fail, as a busy or full
database does; only `save_item` looks at the result, and nobody at its.
`ProcessGone` forgets what lived in memory; the tables stay. `issued` is a
history variable that says for each row which start of the daemon and which
change of the clipboard it is from, and when it was written. `cres` is how the cleaner's
last DELETE ended.

The clock of Daemon: `sleep_for(5s)` is a minimum, so the cleaner wakes at
`wakeAt` or later. `Lag` is the one assumption about it: from `wakeAt` to the
end of its DELETE a round takes at most `Lag` seconds. The period drifts with
these delays, as in the code.

**Lifecycle** has processes with a program counter, the pid file as a name for
a file with a text (so that a process that still has an unlinked file open
writes where the program would), the socket file as the process that bound it,
and the user's `stop && start` in `cmd`. `is_running` and `stop` read the pid
file one after the other. From an empty file no pid is extracted and the
variable is indeterminate, so `IsRunning` may answer either way. With
`DiskFaults` the file cannot be opened (`OpenPidfileFails`) or the number does
not get into it (`WritePidfileFails`), and the daemon goes on as the code does.
Commands come at any moment, from a user who does not wait or from two users;
the history variable `hasty` says that a start was given while a process was on
its way up or down (`Quiet` is what systemd waits for), and `nameless` that a
daemon went on without its pid in the file. Properties that hold only while
neither happened say so (`Orderly`).

**Tui** has one action per key that changes a variable of `run_tui`. The list
it works on was loaded some keys ago; in the meantime rows are written,
removed and pinned at will. `Load` may return any prefix of the answer,
because a `Response` is cut at 64 KiB and of the rest only complete objects
are taken, and nothing at all when the request fails. `d` and `p` have a
second action each for an answer that does not arrive. The first load, before
the first key, finds the empty history of the initial state; `r` at once is
the first load of a history that is not empty.

**RemoteCall** is what a client may expect of one command: carried out at most
once; an answer means that it was, unless its statement failed, which nobody
is told, or the daemon has given up its storage; no answer means nothing.

**Ipc** implements it with the program's threads: `Connect`, `Send`, `Receive`
are the three calls of `send_cmd` and `tui_send`; `AcceptTest` and `Accept` the
loop, whose test of `server_fd_` and call of `accept` are two steps because
`stop` may come between; `Read`, `Handle` and `Write` the thread of a
connection; `CloseServer`, `RemoveSocket`, `DestroyStorage` and `Exit` the end
of `run`. What Linux makes of these calls is part of the module, and its head
comment lists it: a `Response` of 65,544 bytes is written as more than one
segment and `read` returns what is there; writing to a peer that is gone raises
SIGPIPE; `close` does not wake a thread in `accept`, and the socket lives until
that call returns; a resize of the browser's terminal ends its waiting `read`
or `connect` with an error, because ncurses' handler of SIGWINCH does not
restart system calls (`Interrupt`). `HandleFails` is a command whose statement
failed: the handler answers as if it had not. A handler that runs while the
main thread has destroyed the `Storage` is undefined behaviour in C++:
`HandleDestroyed` may carry out the command, answer without having done so, or
end the process. A command is a client here, `Malformed` ones make `std::stoi`
throw, and what a command does to the tables is the business of Daemon.

**Codec** has the two writers of ipc.cpp, the reader that cli.cpp and tui.cpp
each have a copy of, and the buffers that cut requests and answers. A text is
a sequence of characters, and the characters are a constant, `Chars`; a key, a
number and a type name count as one character each, so a module of 150 lines
is enough. The loops of the readers are recursive functions of the position:
`Scanned` goes through an array step by step with `Scan`, `ReadFrom` through a
string with `Read`. `Numeral` is how an id is written, and all that is assumed
of it is that two ids are written differently and without syntax.
**ContentType** is `detect_type`, with character classes and lengths as
constants, and the watcher's stripping of trailing white space.

**Cli** follows texts between the clipboard and the tables with both: `Capture`
is a poll that finds something new, `Save` splits `name:text` at the first
colon after the buffer has cut it, `Shown` is what LIST brings to a client,
`Lookup` is `clip get <name>` looking through the answer to SNIPS, `Yank` and
`GetItem` are y, Enter and `clip get <id>`, which put texts back where the
watcher finds them. Commands run one at a time; threads and lost answers are in
the other modules.

## 3. What the runs check

| Run | Question | Instance |
|---|---|---|
| `store` | methods of `Storage`, one caller | a text and a secret, 4 rows, limits -1 to 2, 4 seconds |
| `daemon_threads` | all threads, a client's scan, faults, crash, restart | a text, a secret and the empty clipboard, 3 copies, 2 starts, LIST with and without limit, one search |
| `daemon_secrets` | how long a secret stays | a secret, lifetime 1, period 2, delay 1, 7 seconds, 2 copies, 2 starts, failing statements |
| `daemon_recording` | whether a new text is recorded while the database works, and its expiry | a text, a secret and the empty clipboard, lifetime, period and delay 1, 3 seconds, 2 copies, 2 starts, snippets |
| `lifecycle` | commands at any moment, crashes, pid file faults | 3 processes, 2 stops |
| `tui` | keys, resizes, bad answers, a changing history | 3 rows, panels of 0, 1 and 2 lines |
| `ipc` | connections, threads, broken pipes, stop | 3 clients: a browser, one that may stall, a malformed one; backlog 1, a Response of 2 pieces, hangups, a kill, a failing accept, failing statements |
| `client` | texts through capture, save, listing, get | 3 texts (a padded secret with white space, one of everything that JSON escapes or counts, a path like base64), 4 names, 2 items, 3 writes; a request of 10 and an answer of 34 characters |

The bounds are named in the modules (`MaxNow`, `MaxIds`, `MaxCopies`,
`MaxStarts`, `MaxStops`, `MaxRows`, `MaxWrites`). They are large enough for the
cases that decide the properties: three copies of two texts give A, B, A again and a
repetition, two copies in the runs with a clock give a secret and another
text, or the secret twice; two starts give one restart; three processes give a
daemon, its successor and one that was started too early; seven seconds are a
secret's lifetime, a period of the cleaner with its two delays and what passes
before; three rows in two
lines scroll, and a list shrinks below the selection; three clients are one that
is followed, one in its way and one that ends the daemon, and two pieces are the
least that can be read short; `Backlog = 1` lets two connections wait and the
third block. In `client` a request cuts the longest text, and an answer holds
one item or two short ones, so that the cut comes at every place of a second
one, inside an escape too. `MaxNow = 1` in
`daemon_threads` stops the clock, and with it the cleaner: nothing that run
checks depends on time, and a row that the cleaner could delete is deleted
there by DELETE.
Deadlock is not checked: all bounded behaviours end, and a daemon that was
stopped is not an error.

Properties worth reading first:

* `HistoryFollowsClipboard`: rows hold what was copied, are in the order of
  the copies, and there is one at most for each copy and start. This is all
  the deduplication that survives concurrency (see the first finding).
* `ListComplete`: the scan of LIST is not a snapshot, and still misses nothing
  that was there from its beginning to its end, except what its LIMIT or a
  failed statement cut off, and that is only rows older than all of the answer.
* `SecretLifetime`: the bound a user can rely on. It is not 30 seconds but 30
  and one cleaner period and the delays of two rounds, the one that just missed
  the row and the one that removes it. It counts from the expiry, or from the
  start of the daemon for rows that expired while none ran, or from the INSERT
  for a row that was born expired because `save_item` was held up. A pin does
  not change it. A DELETE of the cleaner that fails suspends the bound until the
  next one that does not; other failing statements do not matter.
* `OneDaemon`, `DaemonReachable`, `CleanExit`: for users who wait, and while the
  pid file can be written; what becomes of them otherwise is below, after the
  findings. `RestartServes` is for users who wait, and holds with pid file
  faults too; `SocketAnswers` and `StopIsObeyed` hold for all users.
* `ImplementsCall`: no interleaving of `stop`, hangups, interrupts and short reads
  carries a command out twice or answers one that was not carried out; the
  exceptions are a statement that failed and a handler that runs after `run`
  destroyed the `Storage`.
* `CallEnds`: a client that nobody suspends gets an answer or an error, whatever
  others do, except when the accept loop ended on an error (`AcceptorLost`):
  then the daemon goes on and its clients wait.
* `DaemonSurvives`: SIGPIPE ends the daemon only if a client was killed, or a
  browser's terminal was resized, while it waited. A client that gives up after
  a short read does not end it: Linux has taken a piece of the answer by then,
  and the rest of the `write` fails quietly.
* `ListingTruthful`: any cut of an answer shows whole items or none, and no text
  can be written so that it is read as another field or item.
* `SnippetsComeBack`, `TextsSurvive`: for names that are not numbers and have no
  colon, quote or backslash; a text is cut at the end at worst.
* `SecretsRecognised`: a text of the form of a secret, with white space copied
  behind it, is typed secret, but one that begins with a slash is a path.
* `SelectionVisible`: the selected item is on the screen, until the terminal
  is resized: the code adjusts nothing then, and the selection may stay
  outside the panel until g, G, a search or Escape.

Every property has a mutant in `PROJECT.json`: a plausible slip in the code
(an operator marked `Mutant` in the module) under which the run fails.

### Fairness

* `DaemonFairSpec`: weak fairness of the watcher's steps. The watcher is a thread
  with a loop and a 2 s sleep, SQLite calls return, and `popen` of `xclip` is
  assumed to. For `WatcherPoll` fairness is strong, because `WatcherReadFails`
  may take its place: the clipboard can be read again and again, if not always.
  Nothing is assumed of clients, of the cleaner or of
  the statements succeeding: with `StorageFaults` the property fails, which is
  the second finding.
* `FairSpec` of Lifecycle: every live process takes its next step, and the stop
  command that passed its check sends its signal. Users are under no
  obligation.
* `IpcFairSpec`: the accept loop, each connection's thread and the main thread
  take their next step when it is not blocked, and so does every client that is
  not `Stalled`. Nothing is assumed of a stop, of the stalled clients, or of
  the order in which waiting connections are accepted: each client connects
  once.

### Findings

Four runs check a statement of the README or of a comment and find it
violated by the code, and one shows in passing that another is not true.

* `finding_duplicate` - "Consecutive duplicates are rejected at the storage
  layer" (README.md:143): a DELETE between the two statements of `save_item`
  (storage.cpp:173 and 187) leaves two consecutive rows with one text. One
  transaction, or an INSERT that selects, would close it.
* `finding_lost_copy` - "never lose a copied item again" (README.md:5):
  `last_content` is set before `save_item` is called (daemon.cpp:152) and its
  -1 is ignored, so a text whose INSERT failed once is not tried again.
* `finding_restart` - "Restart the daemon after editing: `clip daemon stop &&
  clip daemon start`" (README.md:167): stop returns after the signal, the
  daemon needs up to 500 ms to notice it, and start is refused meanwhile.
* `finding_short_read` - "block until daemon writes back exactly
  sizeof(Response) bytes" (src/ipc.cpp:213): the code reads once, and may get
  the first piece of the answer. The command was carried out and is reported
  as failed; a loop around `read` and `write`, or MSG_WAITALL, would close it.
* `daemon_secrets` - "pinned items are never evicted - user explicitly
  protected them" (storage.cpp:289, and README.md:24 and 114): the cleaner's
  DELETE (storage.cpp:217) has no test of `pinned`, so `SecretLifetime` holds of
  pinned secrets too. One of the two promises, this one or "secrets auto-delete"
  (README.md:23), has to give way, and the code does not say so.

Met on the way, in the modules but without a run of their own:

* Status "0 = success, 1 = error" (ipc.h:21): a statement of LIST or SEARCH that
  fails ends the loop like the last row does (storage.cpp:324, 394), and the
  rows read until then are the answer (`ListFails`); DELETE, CLEAR, PIN and SAVE
  are answered as a success when their statement failed (storage.cpp:265, 273,
  283, 427; `HandleFails`). `ListComplete` and `ImplementsCall` say what is left.
* `is_running` "returns true if a daemon is already running" (daemon.h:24): two
  starts at once both pass the test of main.cpp:23; the second to bind removes
  the socket of the first and both serve, or it finds the path bound and dies,
  and the pid that stays in the file may be its own. A daemon that could not
  write its pid file (daemon.cpp:259) serves, and every command takes it for
  stopped; the next start makes a second one. A daemon that ends late removes
  the files of its successor. `hasty` and `nameless` mark these behaviours.
* "content matching hex or base64 patterns is classified as `secret`"
  (README.md:147): base64 that begins with a slash is typed `path`
  (utils.cpp:17) and never expires; `SecretsRecognised` names the case.
* "every CLI->daemon request fits in this struct" (ipc.h:12): a text that does
  not is cut (ipc.cpp:85), and `clip save` reports it as saved;
  `SnippetsComeBack` and `TextsSurvive` say what is left of it.

Met while reading:

* "LRU eviction deletes oldest unpinned rows when count exceeds `max_history`"
  (README.md:149): nothing calls `evict_old_items`, nothing reads
  `max_history`, and the table grows. The method itself is right
  (`EvictionIsOldestFirst`). `sensitive_timeout_seconds` is never used either
  (storage.cpp:183 has the 30).
* The comment "matches JWT tokens" (utils.cpp:32) is not so: they contain dots.
* `clip save a:b` saves under the name `a`, and a name of digits cannot be got
  by `clip get`, which takes it for an id (cli.cpp:296). A quote in a name
  breaks the JSON that all snippets are found in (ipc.cpp:66).
* `popen("wl-copy")` starts a shell and is not NULL when the program is missing,
  so the fallback to `xclip` (cli.cpp:144) is never taken.
* `clip get` with a number too large for `int` makes the handler's `std::stoi`
  throw, and the daemon ends (daemon.cpp:183): a `Malformed` client of Ipc.

## 4. What is proved

For every value of the constants (any set of texts, any limits, periods and
bounds), from the named assumptions `StoreAssumption`, `DaemonAssumption`,
`LifecycleAssumption`, `TuiAssumption`, `IpcAssumption`, `CodecAssumption`,
`ContentAssumption` and `CliAssumption` only, which TLC evaluates in the runs:

| Theorem | Says |
|---|---|
| `StoreTypesCorrect`, `DaemonTypesCorrect` | the type invariants |
| `StoreRefinesLog`, `DaemonRefinesLog` | both implement HistoryLog |
| `EvictionTakesOldest` | `EvictionIsOldestFirst` |
| `SeenIdsAreStable` | `SeenIdsStable` |
| `ListIsComplete` | `ListComplete` |
| `SecretsDoCarryExpiry`, `SecretsAreShortLived` | `SecretsCarryExpiry`, `SecretLifetime` |
| `HistoryDoesFollowClipboard` | `HistoryFollowsClipboard` |
| `IndicesStayValid` | `IndicesValid` of the browser |
| `SelectionStaysVisible` | `SelectionVisible` of the browser |
| `TuiTypesCorrect`, `ItemsAreTruthful` | its types, `ItemsTruthful` |
| `LifecycleTypesCorrect`, `SocketDoesAnswer` | the types of Lifecycle, `SocketAnswers` |
| `OnlyOneDaemon`, `DaemonIsReachable`, `ExitsAreClean` | `OneDaemon`, `DaemonReachable`, `CleanExit`, for users who wait and while the pid file can be written |
| `IpcTypesCorrect`, `DaemonDoesSurvive` | the types of Ipc, `DaemonSurvives` |
| `IpcImplementsCall` | Ipc implements RemoteCall |
| `UnescapeEscape`, `ArrayRead` | what is escaped is read back; of an array that was cut, the first objects |
| `ItemRead`, `SnippetRead` | every field of an item and of a snippet is read as it was written |
| `CliTypesCorrect` | the types of Cli |
| `ListingsAreTruthful`, `SnippetsDoComeBack` | `ListingTruthful`, `SnippetsComeBack` |
| `TextsDoSurvive`, `SecretsAreRecognised` | `TextsSurvive`, `SecretsRecognised` |

The arguments. The types come first and everything else uses them, above all
that ids are within `1 .. seq`. `StepEffect` then says once what a step of the
daemon can do to the history: keep every row (but for pins), remove some, or
be `WatcherInsert` and write one under the next number; the other proofs go by
these three cases. The inductive invariants are

* `SeenInv` = `SeenIdsStable` and what the client knows is within `1 .. seq`:
  without it a new row could take a number the client knows.
* `ListInv` = `ListComplete` and the cursor is below every row returned and not
  above the row the scan began with: a new row is then outside the scan.
* `ExpiryInv` = `SecretsCarryExpiry` and the same of the expiry that waits for
  its INSERT.
* `LifeInv`: now is at most `Lag` past the end of the cleaner's sleep
  (`RoundInTime`), and unless its last DELETE failed the sleep ends at most one period and one `Lag` after the
  time from which each expiring row counts (`InTime`): the row was there when
  the last round read the clock and not expired, or was written or found at the
  start since. The two together are `SecretLifetime`. That a round may come late
  is the whole difficulty: with `Lag = 0` the second `Lag` would not be needed.
* `CopyInv` = `HistoryFollowsClipboard` and where the watcher is: no row is
  from a later copy than the one it saw, and while it is about to write none
  of this start is from that copy.
* `PositionInv` = `IndicesValid`, and of an empty list that the selection is 0
  or, after G, -1; `ViewInv` = `SelectionVisible`, and of an empty list that
  the panel starts at its top: a later load of a longer list is then in order.
  Both only need of a load that some finite list comes back (`LoadGivesList`,
  from the finiteness of the history), so they hold however an answer is cut.

* `TruthInv` = the types, `ItemsTruthful`, and that no listed item has a number
  yet to be given: a new row could otherwise take the number of an item on the
  screen. The steps go by what they can do to the history (`HistoryEffect`) and
  to the list (`ItemsEffect`).
* `SocketAnswers` is inductive as it stands. `Alone` says, while `Orderly`, that
  at most one process lives and how far it has come with the two files
  (`Files`): the pid file names it from the moment it is written, and the
  socket is its own from bind to unlink. `StartIsAlone` is the heart of it: when
  all is quiet a live process serves, so the pid file names it and `is_running`
  cannot answer no. A daemon that failed to write its pid breaks exactly this
  step, and no other.
* `EvictionTakesOldest` counts without induction: the ranks of a finite set of
  numbers are all different (`RankGrows`), so by the pigeonhole theorems they
  are all of 0 to the size less one (`RankOnto`), and exactly k rows have a rank
  below k if there are as many.
* `IpcInv` = the types, `DaemonSurvives` and, of each connection, how the
  client's state, the daemon's and what was done go together: a connection
  that was not handled has carried nothing out and sent nothing, one that wrote
  has carried it out, lost it to a failed statement or works without a storage,
  and a client that stopped waiting by itself has received something, lost the
  daemon or was interrupted. That last part is why a broken pipe needs a client
  that was killed or interrupted. The refinement then goes action by action:
  `Handle` is `Carry`, `HandleFails` is `Lose`, `Receive` is `Answered` or
  `Unanswered`, `Interrupt` is `Unanswered`, `DestroyStorage` and every end of
  the process are `TakeDown`.

* Texts (`CodecProofs`). Writers and readers are loops over texts of any length,
  so these are proofs by induction. The library's induction theorems take an
  operator as a parameter, which the provers cannot instantiate; that the
  numbers are well-founded (`WFMin`) needs none. From it follow
  `NatSetInduction`, for a set of numbers that has 0 and the successor of
  each element, and `SeqSetInduction`, for a set of texts closed under `Append`;
  a recursive function is unfolded through its CHOOSE, by showing first that
  such a function exists (`FlatsEquation` and its like).
  `ArrayRead` then goes by `Leads`: a text takes the scanner from one mode to
  another, leaves the depth as it was, and no object is found on the way,
  whatever stands before and behind it. An escaped text leads
  from a string back to it, an object from the outside to the outside, so
  only the last brace of an object brings the depth to zero, and a cut before
  that brace loses the object as a whole. `UnescapeEscape` follows the reader
  over what one character was escaped to. That the content is an item's last
  field is what makes `ItemRead` true of texts that contain keys: the first
  occurrence is the writer's own.
* Commands (`CliProofs`). `TypeInv` is `CliTypeOK` and that there are finitely
  many snippets, of which SNIPS makes a list. Its step needs most of what
  comes before: Yank and get put on the clipboard what a reader returned, which
  has to be a text of the same alphabet. `ListingTruthful` follows from the
  types alone: the rows are finite, so `NewestFirst` exists and descends
  (`NewestIs`), and `ItemRead` and `ArrayRead` do the rest. `SnippetsComeBack`
  rests on `SavedInv`: as long as all names were plain, the table has nothing
  under a name that was not saved, and under a name whose text fits exactly that
  text; `PayloadIs` is the reason, the first colon of the payload being the
  one `clip save` put there, if it is not cut off. `TextsSurvive` is not
  inductive, because get brings texts back from the snippets: `TextsInv` says
  the same of these, for the clipboard, the rows and the snippets together.
  `SecretsRecognised` is about one step: what `Strip` leaves of such a text has
  no white space behind it (`StripsTo`), and of the tests that come before only
  that for a path can take it, if it begins with a slash (`SecretDetected`).
  Before they were proved, TLC checked `TypeInv`, `SavedInv` and `TextsInv` on all
  216,771 states of the instance of `client`.

Only model-checked: liveness (`NewTextRecorded`, `RestartServes`,
`StopIsObeyed`, `CallEnds`, `HandlersEnd`), for which the proof system has no
means. Every other property of a passing run is a theorem.

## 5. What is not modelled

* The C++ memory a thread touches after `run` has destroyed it (daemon.cpp:95,
  107, 118): Ipc has the outcomes of a handler there; Daemon and Lifecycle end
  every thread at the moment `run` returns.
* A `Message` that arrives in pieces: it has 4,132 bytes, one segment on Linux.
* Texts with NUL bytes or invalid UTF-8, and case folding in SEARCH.
* The display of the command line and of the browser, the help text, `clip
  daemon status`, and `clip stats`.
* STATS, which changes nothing; it is several statements and not a snapshot.
  GET, SNIPS and PING are not in Daemon; the first two are in Cli.
* Reuse of a pid by another program; a clock that is set back.
* Configuration, logger, build and installation: see `components`.

## 6. Plan

Done in this order: HistoryLog, ClipStore, Daemon, their proofs, Lifecycle,
Tui and its proofs; RemoteCall, Ipc and its proofs; Codec, ContentType and Cli;
LifecycleProofs and EvictionProofs; CodecProofs and CliProofs. What could still
be added:

1. STATS, whose numbers come from several statements: which sums a client can
   rely on while rows come and go between them.
2. A second client of Daemon whose answers are followed, to see what two users
   can tell each other about the list.
