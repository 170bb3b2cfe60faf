-------------------------------- MODULE Cli --------------------------------
(***************************************************************************)
(* What becomes of a text between the clipboard and the database, and on   *)
(* its way back: the watcher that captures it, `clip save` that makes it a *)
(* snippet, the listings that show it, and get and the browser's y and     *)
(* Enter that put it on the clipboard again, where the watcher finds it.   *)
(*                                                                         *)
(* One command at a time, each answered: the threads behind are in Daemon, *)
(* lost and cut answers in Ipc and Tui.  External is the clipboard, which  *)
(* wl-copy sets and wl-paste and xclip read.                               *)
(***************************************************************************)
EXTENDS Codec, ContentType, FiniteSets

CONSTANTS
  Texts,         (* what the user copies                                    *)
  Names,         (* what the user calls snippets                            *)
  PayloadLen,    (* CF_PAYLOAD_LEN: 4096                                    *)
  DataLen,       (* CF_DATA_LEN: 65536                                      *)
  MaxRows,       (* bound: items captured                                   *)
  MaxWrites      (* bound: items captured and runs of `clip save`           *)

ASSUME CliAssumption ==
  /\ Texts \subseteq Text /\ Names \subseteq Text
  /\ PayloadLen \in Nat \ {0} /\ DataLen \in Nat \ {0}
  /\ MaxRows \in Nat /\ Numeral \in [1 .. MaxRows -> Digits] /\ MaxWrites \in Nat

VARIABLES
  clipboard,     (* the text on the clipboard                               *)
  last_content,  (* the watcher's last text                                 *)
  rows,          (* id -> item, the table history                           *)
  seq,           (* the largest id so far                                   *)
  snippets,      (* name -> text, the table snippets                        *)
  saved,         (* name -> what the user last saved under it (history
                    variable)                                               *)
  saves          (* runs of `clip save` so far                              *)

vars == <<clipboard, last_content, rows, seq, snippets, saved, saves>>

CliInit ==
  /\ clipboard = <<>>
  /\ last_content = <<>>
  /\ rows = <<>> /\ seq = 0
  /\ snippets = <<>>
  /\ saved = <<>> /\ saves = 0

Put(f, x, y) == [z \in DOMAIN f \cup {x} |-> IF z = x THEN y ELSE f[z]]

(* ORDER BY id DESC. *)
NewestFirst ==
  CHOOSE ids \in [1 .. Cardinality(DOMAIN rows) -> DOMAIN rows] :
    \A j, k \in DOMAIN ids : j < k => ids[j] > ids[k]

-----------------------------------------------------------------------------
(* The watcher                                                             *)

(* A poll that finds a new text: watch_clipboard and save_item.             *)
Capture ==
  LET text == Strip(clipboard) IN
  /\ text # <<>> /\ text # last_content
  /\ last_content' = text
  /\ IF rows # <<>> /\ rows[Head(NewestFirst)].content = text
     THEN UNCHANGED <<rows, seq>>
     ELSE /\ seq < MaxRows
          /\ seq' = seq + 1
          /\ rows' = Put(rows, seq', [id |-> seq', content |-> text,
                                      type |-> DetectType(text), pinned |-> FALSE])
  /\ UNCHANGED <<clipboard, snippets, saved, saves>>

-----------------------------------------------------------------------------
(* Listings: cmd_list, cmd_search and load_items; cmd_snippets             *)

(* The items a client shows, from as many rows as it asked for.             *)
Shown(limit) ==
  LET ids     == SubSeq(NewestFirst, 1, IF Len(NewestFirst) < limit THEN Len(NewestFirst) ELSE limit)
      objects == ParseArray(Cut(SerializeItems([k \in DOMAIN ids |-> rows[ids[k]]]), DataLen))
  IN  [k \in DOMAIN objects |-> [id      |-> JsonGet(objects[k], IdKey),
                                 type    |-> JsonGet(objects[k], TypeKey),
                                 pinned  |-> JsonGet(objects[k], PinnedKey),
                                 content |-> JsonGet(objects[k], ContentKey)]]

(* The daemon sorts them by name; here they have some order.                *)
SnippetsJson ==
  LET order == SetToSeq(DOMAIN snippets)
  IN  SerializeSnippets([k \in DOMAIN order |->
                           [name |-> order[k], content |-> snippets[order[k]]]])

(* cmd_get's search in the answer to SNIPS; <<>> when it finds nothing.     *)
Lookup(name) ==
  LET objects == ParseArray(Cut(SnippetsJson, DataLen))
      found   == SelectInSeq(objects, LAMBDA o : JsonGet(o, NameKey) = name)
  IN  IF found = 0 THEN <<>> ELSE JsonGet(objects[found], ContentKey)

-----------------------------------------------------------------------------
(* Commands                                                                *)

Copy(text) ==
  /\ clipboard' = text
  /\ UNCHANGED <<last_content, rows, seq, snippets, saved, saves>>

IsNumber(arg) == arg # <<>> /\ ToSet(arg) \subseteq Digits

(* `clip get <id>`, and Enter in the browser: the text itself is the answer.*)
GetItem(arg) ==
  /\ IsNumber(arg)
  /\ \E i \in DOMAIN rows :
       /\ arg = <<Numeral[i]>>
       /\ clipboard' = Cut(rows[i].content, DataLen)
  /\ UNCHANGED <<last_content, rows, seq, snippets, saved, saves>>

GetSnippet(arg) ==
  /\ ~ IsNumber(arg)
  /\ clipboard' = Lookup(arg)
  /\ clipboard' # <<>>
  /\ UNCHANGED <<last_content, rows, seq, snippets, saved, saves>>

(* y in the browser copies what the listing says.                           *)
Yank ==
  /\ \E item \in ToSet(Shown(MaxRows)) : clipboard' = item.content
  /\ UNCHANGED <<last_content, rows, seq, snippets, saved, saves>>

(* Mutant: the name ends at the last colon. *)
SaveAtLastColon(name) ==
  /\ clipboard # <<>> /\ seq + saves < MaxWrites
  /\ LET payload == Cut(name \o <<":">> \o clipboard, PayloadLen)
         colon   == SelectLastInSeq(payload, LAMBDA c : c = ":")
     IN  snippets' = IF colon = 0 THEN snippets
                     ELSE Put(snippets, SubSeq(payload, 1, colon - 1),
                                        SubSeq(payload, colon + 1, Len(payload)))
  /\ saved' = Put(saved, name, clipboard)
  /\ saves' = saves + 1
  /\ UNCHANGED <<clipboard, last_content, rows, seq>>

(* `clip save <name>` sends name:text, and the handler of SAVE splits it at *)
(* the first colon.                                                         *)
Save(name) ==
  /\ clipboard # <<>> /\ seq + saves < MaxWrites
  /\ LET payload == Cut(name \o <<":">> \o clipboard, PayloadLen)
         colon   == Find(payload, ":")
     IN  snippets' = IF colon = 0 THEN snippets
                     ELSE Put(snippets, SubSeq(payload, 1, colon - 1),
                                        SubSeq(payload, colon + 1, Len(payload)))
  /\ saved' = Put(saved, name, clipboard)
  /\ saves' = saves + 1
  /\ UNCHANGED <<clipboard, last_content, rows, seq>>

(* Mutant: ids are positions in the list. *)
DeleteRenumbering(i) ==
  /\ rows' = [k \in 1 .. Cardinality(DOMAIN rows) - 1 |-> rows[IF k < i THEN k ELSE k + 1]]
  /\ UNCHANGED <<clipboard, last_content, seq, snippets, saved, saves>>

Delete(i) ==
  /\ rows' = Restrict(rows, DOMAIN rows \ {i})
  /\ UNCHANGED <<clipboard, last_content, seq, snippets, saved, saves>>

(* cmd_clear asks first.                                                    *)
Clear(answer) ==
  /\ answer \in {"y", "Y"}
  /\ rows' = Restrict(rows, {i \in DOMAIN rows : rows[i].pinned})
  /\ UNCHANGED <<clipboard, last_content, seq, snippets, saved, saves>>

(* The payload is id:1 or id:0.                                             *)
Pin(i, pin) ==
  /\ rows' = [rows EXCEPT ![i].pinned = pin]
  /\ UNCHANGED <<clipboard, last_content, seq, snippets, saved, saves>>

CliNext ==
  \/ \E text \in Texts : Copy(text)
  \/ Capture
  \/ \E arg \in Names : GetItem(arg) \/ GetSnippet(arg) \/ Save(arg)
  \/ Yank
  \/ \E i \in DOMAIN rows : Delete(i) \/ (\E pin \in BOOLEAN : Pin(i, pin))
  \/ \E answer \in {"y", "Y", "n"} : Clear(answer)

CliSpec == CliInit /\ [][CliNext]_vars

-----------------------------------------------------------------------------
(* The tables hold items of the five types.                                 *)
CliTypeOK ==
  /\ clipboard \in Text /\ last_content \in Text
  /\ seq \in 0 .. MaxRows /\ DOMAIN rows \subseteq 1 .. seq
  /\ rows \in [DOMAIN rows -> [id: 1 .. seq, content: Text, type: Types,
                              pinned: BOOLEAN]]
  /\ \A i \in DOMAIN rows : rows[i].id = i
  /\ DOMAIN snippets \subseteq Text /\ snippets \in [DOMAIN snippets -> Text]
  /\ DOMAIN saved \subseteq Names /\ saved \in [DOMAIN saved -> Text]
  /\ saves \in Nat

(* A listing shows the newest rows, in order and as they are, whatever      *)
(* quotes, backslashes and braces they contain, and wherever the answer was *)
(* cut; if nothing was cut it shows all that were asked for.                *)
Faithful(item, row) ==
  item = [id |-> <<Numeral[row.id]>>, type |-> <<row.type>>,
          pinned |-> <<Flag(row.pinned)>>, content |-> row.content]

ListingTruthful ==
  \A limit \in 0 .. MaxRows : LET shown == Shown(limit) IN
    /\ Len(shown) <= Len(NewestFirst)
    /\ \A k \in DOMAIN shown : Faithful(shown[k], rows[NewestFirst[k]])
    /\ Len(SerializeItems([k \in DOMAIN NewestFirst |-> rows[NewestFirst[k]]])) < DataLen
         => Len(shown) = IF Len(NewestFirst) < limit THEN Len(NewestFirst) ELSE limit

(* The names a snippet can be got by: no number, which get takes for an id, *)
(* no colon, at which the daemon ends the name, no quote or backslash,      *)
(* which are not escaped in JSON, and so no key, which has quotes.          *)
Plain(name) ==
  /\ name # <<>> /\ ~ IsNumber(name)
  /\ ToSet(name) \cap ({":", Quote, Backslash} \cup Keys) = {}

Fits(name, text) == Len(name) + 1 + Len(text) < PayloadLen

(* As long as only plain names and texts that fit a request were saved,     *)
(* `clip get <name>` finds what was last saved under that name, or nothing  *)
(* if the answer was cut, and never another text or a part of it.           *)
SnippetsComeBack ==
  (\A n \in DOMAIN saved : Plain(n) /\ Fits(n, saved[n])) =>
     \A n \in DOMAIN saved : LET found == Lookup(n) IN
       \/ found = saved[n]
       \/ found = <<>> /\ Len(SnippetsJson) >= DataLen

(* A text stays what the user copied, but for what is cut off at its end,   *)
(* through any sequence of captures, saves, listings, gets and yanks.       *)
TextsSurvive ==
  (\A n \in DOMAIN saved : Plain(n)) =>
     \A t \in {clipboard} \cup {rows[i].content : i \in DOMAIN rows} :
       \E text \in Texts \cup {<<>>} : IsPrefix(t, text)

(* The forms of the two regular expressions, with white space behind them.  *)
LooksSecret(text) ==
  \E n \in B64Lengths \cup HexLengths :
    /\ n <= Len(text)
    /\ \A k \in 1 .. n : text[k] \in B64Chars
    /\ n \in B64Lengths \/ \A k \in 1 .. n : text[k] \in HexChars
    /\ \E m \in 0 .. 2 :
         /\ m > 0 => n \in B64Lengths
         /\ n + m <= Len(text)
         /\ \A k \in n + 1 .. n + m : text[k] = "="
         /\ \A k \in n + m + 1 .. Len(text) : text[k] \in White

(* A text of such a form, captured, is typed secret, and so expires: no     *)
(* other test hides it, neither its padding nor what was copied behind it   *)
(* do, except for a first character "/", which makes it a path.             *)
SecretsRecognised ==
  [][LooksSecret(clipboard) /\ seq' # seq =>
       rows'[seq'].type = IF clipboard[1] = "/" THEN "path" ELSE "secret"]_vars
=============================================================================
