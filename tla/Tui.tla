-------------------------------- MODULE Tui --------------------------------
(***************************************************************************)
(* The interactive browser, run_tui: one action per key.  It works on a    *)
(* copy of the history that it loaded some keys ago (`items`), while the   *)
(* daemon records, expires and deletes rows; of the daemon it is assumed   *)
(* only that its history is an append-only log (module HistoryLog, which   *)
(* module Daemon implements).                                              *)
(*                                                                         *)
(* Indices into items are the program's, from 0.  Left out: drawing,       *)
(* messages, help, quit, and the keys Enter and y, which change no         *)
(* variable of the browser.                                                *)
(***************************************************************************)
EXTENDS Integers, Sequences, FiniteSets

CONSTANTS
  Texts,         (* what a row may hold                                     *)
  Searches,      (* for each search the user may type, the texts it finds   *)
  ListLimit,     (* rows asked for without a search: 100                    *)
  SearchLimit,   (* rows a search returns: 50                               *)
  Heights,       (* values of list_height: rows of the terminal, less 4     *)
  MaxRows        (* bound: rows ever written                                *)

ASSUME TuiAssumption ==
  /\ Searches \subseteq SUBSET Texts
  /\ ListLimit \in Nat /\ SearchLimit \in Nat
  /\ Heights \subseteq Int /\ Heights # {}
  /\ MaxRows \in Nat

VARIABLES
  issued, live,  (* the daemon's history: see HistoryLog                    *)
  pins,          (* ... and which of its rows are pinned                    *)
  items,         (* the rows as they were when they were loaded             *)
  selected,      (* index of the highlighted item                           *)
  scroll_offset, (* index of the item in the first line of the panel        *)
  list_height,   (* lines of the panel                                      *)
  search_query,  (* the texts the current search finds: all without one     *)
  resized        (* was the terminal resized since the selection was last
                    put at an end of the list? (a history variable)         *)

daemonVars == <<issued, live, pins>>
viewVars == <<selected, scroll_offset>>
vars == <<issued, live, pins, items, selected, scroll_offset, list_height,
          search_query, resized>>

Log == INSTANCE HistoryLog

Item == [id: Nat, content: Texts, pinned: BOOLEAN]

Size == Len(items)

Smaller(m, n) == IF m < n THEN m ELSE n
Larger(m, n) == IF m < n THEN n ELSE m

Init ==
  /\ Log!Init
  /\ pins = {}
  /\ items = <<>>
  /\ selected = 0
  /\ scroll_offset = 0
  /\ list_height \in Heights
  /\ search_query = Texts
  /\ resized = FALSE

-----------------------------------------------------------------------------
(* What goes on in the daemon meanwhile                                    *)

Browser == <<items, viewVars, list_height, search_query, resized>>

RowWritten(t) ==
  /\ issued < MaxRows
  /\ Log!Write(t)
  /\ UNCHANGED <<pins, Browser>>

RowsRemoved(S) ==
  /\ Log!Remove(S)
  /\ pins' = pins \ S
  /\ UNCHANGED Browser

RowPinned(i) ==
  /\ pins' = IF i \in pins THEN pins \ {i} ELSE pins \cup {i}
  /\ UNCHANGED <<issued, live, Browser>>

-----------------------------------------------------------------------------
(* load_items                                                              *)

Found(query, rows) == {i \in DOMAIN rows : rows[i] \in query}

(* ORDER BY id DESC: before a row come all the newer ones and nothing else. *)
NewestFirst(ids, S) ==
  \A k \in DOMAIN ids : {i \in S : i > ids[k]} = {ids[j] : j \in 1 .. k - 1}

Limit(query) == IF query = Texts THEN ListLimit ELSE SearchLimit

(* Mutant: an item is given its place in the answer for an id. *)
LoadByPlace(query, rows, marked) ==
  LET S == Found(query, rows) IN
  \E n \in 0 .. Smaller(Cardinality(S), Limit(query)) : \E ids \in [1 .. n -> S] :
    /\ NewestFirst(ids, S)
    /\ items' = [k \in 1 .. n |-> [id      |-> k,
                                   content |-> rows[ids[k]],
                                   pinned  |-> ids[k] \in marked]]

(* LIST or SEARCH returns the newest rows, up to its limit.  An answer too  *)
(* long for a Response is cut, and of what is left the complete objects are *)
(* taken; no answer, or a failed one, is no items.                          *)
Load(query, rows, marked) ==
  LET S == Found(query, rows) IN
  \E n \in 0 .. Smaller(Cardinality(S), Limit(query)) : \E ids \in [1 .. n -> S] :
    /\ NewestFirst(ids, S)
    /\ items' = [k \in 1 .. n |-> [id      |-> ids[k],
                                   content |-> rows[ids[k]],
                                   pinned  |-> ids[k] \in marked]]

-----------------------------------------------------------------------------
(* Moving                                                                  *)

(* Mutant: the list scrolls one line late. *)
KeyDownLate ==
  /\ selected < Size - 1
  /\ selected' = selected + 1
  /\ scroll_offset' = IF selected' > scroll_offset + list_height
                      THEN scroll_offset + 1 ELSE scroll_offset
  /\ UNCHANGED <<daemonVars, items, list_height, search_query, resized>>

KeyDown ==
  /\ selected < Size - 1
  /\ selected' = selected + 1
  /\ scroll_offset' = IF selected' >= scroll_offset + list_height
                      THEN scroll_offset + 1 ELSE scroll_offset
  /\ UNCHANGED <<daemonVars, items, list_height, search_query, resized>>

KeyUp ==
  /\ selected > 0
  /\ selected' = selected - 1
  /\ scroll_offset' = IF selected' < scroll_offset
                      THEN scroll_offset - 1 ELSE scroll_offset
  /\ UNCHANGED <<daemonVars, items, list_height, search_query, resized>>

KeyTop ==
  /\ selected' = 0
  /\ scroll_offset' = 0
  /\ resized' = FALSE
  /\ UNCHANGED <<daemonVars, items, list_height, search_query>>

(* On an empty list the selection becomes -1.                               *)
KeyBottom ==
  /\ selected' = Size - 1
  /\ scroll_offset' = Larger(0, Size - list_height)
  /\ resized' = FALSE
  /\ UNCHANGED <<daemonVars, items, list_height, search_query>>

(* Nothing but the sizes is adjusted.                                       *)
Resize(height) ==
  /\ height # list_height
  /\ list_height' = height
  /\ resized' = TRUE
  /\ UNCHANGED <<daemonVars, items, viewVars, search_query>>

-----------------------------------------------------------------------------
(* Loading                                                                 *)

(* After any load the view is brought back to the new length of the list.   *)
ClampScroll ==
  scroll_offset' = Smaller(scroll_offset, Larger(0, Len(items') - list_height))

(* Mutant: the selection is left where it was. *)
KeyReloadKeeping ==
  /\ Load(search_query, live, pins)
  /\ selected' = selected
  /\ ClampScroll
  /\ UNCHANGED <<daemonVars, list_height, search_query, resized>>

KeyReload ==
  /\ Load(search_query, live, pins)
  /\ selected' = Larger(0, Smaller(selected, Len(items') - 1))
  /\ ClampScroll
  /\ UNCHANGED <<daemonVars, list_height, search_query, resized>>

(* An empty query is a LIST.                                                *)
KeySearch(query) ==
  /\ search_query' = query
  /\ Load(query, live, pins)
  /\ selected' = 0
  /\ scroll_offset' = 0
  /\ resized' = FALSE
  /\ UNCHANGED <<daemonVars, list_height>>

KeyEscape == KeySearch(Texts)

-----------------------------------------------------------------------------
(* Acting on the selected item                                             *)

Selected == items[selected + 1]

(* DELETE, then a new load.  Deleting a row that is gone is a success too.  *)
KeyDelete ==
  /\ items # <<>>
  /\ Log!Remove({Selected.id})
  /\ pins' = pins \ {Selected.id}
  /\ Load(search_query, live', pins')
  /\ selected' = IF selected >= Len(items') THEN Larger(0, Len(items') - 1)
                                            ELSE selected
  /\ ClampScroll
  /\ UNCHANGED <<list_height, search_query, resized>>

(* The answer does not arrive; the row may be deleted all the same.         *)
KeyDeleteUnanswered ==
  /\ items # <<>>
  /\ Log!Remove({Selected.id})
  /\ pins' = pins \ {Selected.id}
  /\ UNCHANGED Browser

(* Mutant: a pin is kept for a row that is gone. *)
PinSelectedUnchecked ==
  pins' = IF Selected.pinned THEN pins \ {Selected.id}
          ELSE pins \cup {Selected.id}

(* The wish is the opposite of what was loaded, whatever the row is now.    *)
PinSelected ==
  pins' = IF Selected.pinned THEN pins \ {Selected.id}
          ELSE pins \cup ({Selected.id} \cap DOMAIN live)

KeyPin ==
  /\ items # <<>>
  /\ PinSelected
  /\ items' = [items EXCEPT ![selected + 1].pinned = ~ @]
  /\ UNCHANGED <<issued, live, viewVars, list_height, search_query, resized>>

KeyPinUnanswered ==
  /\ items # <<>>
  /\ PinSelected
  /\ UNCHANGED <<issued, live, Browser>>

-----------------------------------------------------------------------------
Next ==
  \/ \E t \in Texts : RowWritten(t)
  \/ \E S \in SUBSET DOMAIN live : RowsRemoved(S)
  \/ \E i \in DOMAIN live : RowPinned(i)
  \/ KeyDown \/ KeyUp \/ KeyTop \/ KeyBottom
  \/ \E height \in Heights : Resize(height)
  \/ KeyReload
  \/ \E query \in Searches : KeySearch(query)
  \/ KeyEscape
  \/ KeyDelete \/ KeyDeleteUnanswered
  \/ KeyPin \/ KeyPinUnanswered

Spec == Init /\ [][Next]_vars

-----------------------------------------------------------------------------
TypeOK ==
  /\ issued \in Nat
  /\ DOMAIN live \subseteq 1 .. issued /\ live \in [DOMAIN live -> Texts]
  /\ pins \subseteq DOMAIN live
  /\ items \in Seq(Item)
  /\ selected \in Int
  /\ scroll_offset \in Int
  /\ list_height \in Heights
  /\ search_query \in SUBSET Texts
  /\ resized \in BOOLEAN

(* Enter, d, p and y read items[selected], and the panel draws the lines    *)
(* from items[scroll_offset] up to the end of the list: no index is before  *)
(* the vector, and the selection is not past its end, after any sequence of *)
(* moves, resizes and loads of shorter lists.                               *)
IndicesValid ==
  items # <<>> => selected \in 0 .. Size - 1 /\ scroll_offset >= 0

(* The item that Enter, d, p and y act on is on the screen, and the panel   *)
(* is not scrolled past the end of the list, as long as it has a line and   *)
(* the terminal was not resized since g, G, a search or Escape.             *)
SelectionVisible ==
  list_height >= 1 /\ ~ resized /\ items # <<>> =>
    /\ scroll_offset <= selected
    /\ selected < scroll_offset + list_height
    /\ scroll_offset <= Larger(0, Size - list_height)

(* However old the copy is: a row that still exists has the text the        *)
(* browser shows for it, so d and p act on what the user sees.              *)
ItemsTruthful ==
  \A k \in 1 .. Size :
    items[k].id \in DOMAIN live => live[items[k].id] = items[k].content
=============================================================================
