----------------------------- MODULE TuiProofs -----------------------------
(***************************************************************************)
(* Proofs about Tui.  The invariants of the selection and the panel are    *)
(* about lengths and positions, and of a load it is enough for them that   *)
(* it ends with a list of some length.  TruthInv is about what is in the   *)
(* list: items were in the history, where a number keeps its text.         *)
(***************************************************************************)
EXTENDS Tui, FiniteSetTheorems, SequenceTheorems, TLAPS

-----------------------------------------------------------------------------
(* Loads                                                                   *)

LEMMA SmallerType ==
  ASSUME NEW m \in Int, NEW n \in Int
  PROVE  Smaller(m, n) \in Int /\ Smaller(m, n) <= m /\ Smaller(m, n) <= n
                               /\ Smaller(m, n) \in {m, n}
BY DEF Smaller

LEMMA LargerType ==
  ASSUME NEW m \in Int, NEW n \in Int
  PROVE  Larger(m, n) \in Int /\ Larger(m, n) >= m /\ Larger(m, n) >= n
                              /\ Larger(m, n) \in {m, n}
BY DEF Larger

(* The history is finite, so that an answer has a length.                   *)
HistoryFinite == issued \in Nat /\ IsFiniteSet(DOMAIN live)

LEMMA FiniteInit == Init => HistoryFinite
<1> SUFFICES ASSUME Init PROVE HistoryFinite
  OBVIOUS
<1>1. issued = 0 /\ DOMAIN live = {}
  BY DEF Init, Log!Init
<1> QED BY <1>1, FS_EmptySet DEF HistoryFinite

LEMMA WriteFinite ==
  ASSUME HistoryFinite, NEW t, Log!Write(t) PROVE HistoryFinite'
<1>1. issued' \in Nat /\ DOMAIN live' = DOMAIN live \cup {issued + 1}
  BY DEF HistoryFinite, Log!Write
<1>2. IsFiniteSet(DOMAIN live \cup {issued + 1})
  BY FS_AddElement DEF HistoryFinite
<1> QED BY <1>1, <1>2 DEF HistoryFinite

LEMMA RemoveFinite ==
  ASSUME HistoryFinite, NEW S, Log!Remove(S) PROVE HistoryFinite'
<1>1. issued' = issued /\ DOMAIN live' = DOMAIN live \ S
  BY DEF Log!Remove
<1>2. IsFiniteSet(DOMAIN live \ S)
  BY FS_Subset DEF HistoryFinite
<1> QED BY <1>1, <1>2 DEF HistoryFinite

LEMMA FiniteStep == HistoryFinite /\ [Next]_vars => HistoryFinite'
<1> SUFFICES ASSUME HistoryFinite, [Next]_vars PROVE HistoryFinite'
  OBVIOUS
<1>1. ASSUME NEW t \in Texts, RowWritten(t) PROVE HistoryFinite'
  BY <1>1, WriteFinite DEF RowWritten
<1>2. ASSUME NEW S \in SUBSET DOMAIN live, RowsRemoved(S) PROVE HistoryFinite'
  BY <1>2, RemoveFinite DEF RowsRemoved
<1>3. CASE KeyDelete \/ KeyDeleteUnanswered
  BY <1>3, RemoveFinite DEF KeyDelete, KeyDeleteUnanswered
<1>4. CASE UNCHANGED <<issued, live>>
  BY <1>4 DEF HistoryFinite
<1> QED
  BY <1>1, <1>2, <1>3, <1>4
     DEF Next, vars, daemonVars, RowPinned, KeyDown, KeyUp, KeyTop, KeyBottom,
         Resize, KeyReload, KeySearch, KeyEscape, KeyPin, KeyPinUnanswered

IsList(s) == Len(s) \in Nat /\ s \in Seq({s[k] : k \in 1 .. Len(s)})

LEMMA ListEmpty == ASSUME NEW s, IsList(s) PROVE s = <<>> <=> Len(s) = 0
BY DEF IsList

LEMMA FoundFinite ==
  ASSUME NEW query, NEW rows, IsFiniteSet(DOMAIN rows)
  PROVE  Smaller(Cardinality(Found(query, rows)), Limit(query)) \in Nat
<1>1. IsFiniteSet(Found(query, rows))
  BY FS_Subset DEF Found
<1>2. Cardinality(Found(query, rows)) \in Nat
  BY <1>1, FS_CardinalityType
<1> QED BY <1>2, TuiAssumption DEF Smaller, Limit

(* Whatever is asked and however the answer is cut: a list comes back, of   *)
(* items that are in the history.                                           *)
LEMMA LoadGivesItems ==
  ASSUME NEW query, NEW rows, NEW marked, IsFiniteSet(DOMAIN rows),
         Load(query, rows, marked)
  PROVE  /\ Len(items') \in Nat
         /\ items' = [k \in 1 .. Len(items') |-> items'[k]]
         /\ \A k \in 1 .. Len(items') : \E i \in DOMAIN rows :
              items'[k] = [id |-> i, content |-> rows[i], pinned |-> i \in marked]
<1> DEFINE S == Found(query, rows)
<1> DEFINE Loaded(n, ids) ==
             items' = [k \in 1 .. n |-> [id |-> ids[k], content |-> rows[ids[k]],
                                        pinned |-> ids[k] \in marked]]
<1>0. PICK n \in 0 .. Smaller(Cardinality(S), Limit(query)) :
        \E ids \in [1 .. n -> S] : Loaded(n, ids)
  BY DEF Load
<1>1. PICK ids \in [1 .. n -> S] : Loaded(n, ids)
  BY <1>0
<1>2. n \in Nat
  BY FoundFinite
<1>3. Len(items') = n
  BY <1>1, <1>2
<1>4. \A k \in 1 .. n : ids[k] \in DOMAIN rows
  BY DEF Found
<1> QED BY <1>1, <1>2, <1>3, <1>4

LEMMA LoadGivesList ==
  ASSUME NEW query, NEW rows, NEW marked, IsFiniteSet(DOMAIN rows),
         Load(query, rows, marked)
  PROVE  IsList(items')
<1> DEFINE n == Len(items')
           U == {items'[k] : k \in 1 .. n}
<1>1. n \in Nat /\ items' = [k \in 1 .. n |-> items'[k]]
  BY LoadGivesItems
<1> HIDE DEF n
<1>2. \A k \in 1 .. n : items'[k] \in U
  OBVIOUS
<1> HIDE DEF U
<1>3. items' \in [1 .. n -> U]
  BY <1>1, <1>2
<1>4. items' \in Seq(U)
  BY <1>1, <1>3
<1> QED BY <1>1, <1>4 DEF IsList, U, n

(* A pin changes one item of the list. *)
LEMMA PinGivesList ==
  ASSUME NEW s, IsList(s), NEW x, NEW i
  PROVE  /\ IsList([s EXCEPT ![i] = x])
         /\ Len([s EXCEPT ![i] = x]) = Len(s)
<1> DEFINE r == [s EXCEPT ![i] = x]
           n == Len(s)
           T == {s[k] : k \in 1 .. n} \cup {x}
<1>1. n \in Nat /\ DOMAIN s = 1 .. n
  BY DEF IsList
<1>2. r = [k \in 1 .. n |-> IF k = i THEN x ELSE s[k]]
  BY <1>1
<1> HIDE DEF n, r
<1>3. r \in Seq({r[k] : k \in 1 .. n}) /\ Len(r) = n
  BY <1>1, <1>2
<1> QED BY <1>1, <1>3 DEF IsList, r, n

-----------------------------------------------------------------------------
(* Where the selection and the first line of the panel are                 *)

(* IndicesValid, and of an empty list what makes the next load of a longer  *)
(* one valid: G may have left -1, everything else leaves 0.                 *)
PositionInv ==
  /\ HistoryFinite
  /\ IsList(items)
  /\ list_height \in Int
  /\ selected \in Int /\ scroll_offset \in Int
  /\ scroll_offset >= 0
  /\ IF items = <<>> THEN selected \in {-1, 0} ELSE selected \in 0 .. Size - 1

(* SelectionVisible, and of an empty list that its panel starts at the top. *)
ViewInv ==
  list_height >= 1 /\ ~ resized =>
    IF items = <<>> THEN scroll_offset = 0
    ELSE /\ scroll_offset <= selected
         /\ selected < scroll_offset + list_height
         /\ scroll_offset <= Larger(0, Size - list_height)

LEMMA PositionInit == Init => PositionInv
<1> SUFFICES ASSUME Init PROVE PositionInv
  OBVIOUS
<1>1. HistoryFinite
  BY FiniteInit
<1>2. IsList(<<>>)
  BY DEF IsList
<1> QED BY <1>1, <1>2, TuiAssumption DEF Init, PositionInv

(* After a load: the height is as before and the offset is clamped.         *)
LEMMA ClampedType ==
  ASSUME Len(items') \in Nat, list_height \in Int,
         scroll_offset \in Int, scroll_offset >= 0, ClampScroll
  PROVE  /\ scroll_offset' \in Int
         /\ 0 <= scroll_offset' /\ scroll_offset' <= scroll_offset
         /\ scroll_offset' <= Larger(0, Len(items') - list_height)
         /\ \/ scroll_offset' = scroll_offset
            \/ scroll_offset' = Larger(0, Len(items') - list_height)
BY DEF ClampScroll, Smaller, Larger

LEMMA PositionStep == PositionInv /\ [Next]_vars => PositionInv'
<1> SUFFICES ASSUME PositionInv, [Next]_vars PROVE PositionInv'
  OBVIOUS
<1> USE DEF Browser, viewVars, daemonVars
<1>0. /\ HistoryFinite /\ HistoryFinite' /\ IsList(items) /\ Size \in Nat
      /\ items = <<>> <=> Size = 0
  BY FiniteStep, ListEmpty DEF PositionInv, IsList, Size
<1>1. CASE UNCHANGED <<items, selected, scroll_offset, list_height>>
  BY <1>0, <1>1 DEF PositionInv, Size
<1>2. CASE KeyDown \/ KeyUp \/ KeyTop \/ KeyBottom
  BY <1>0, <1>2
     DEF PositionInv, Size, KeyDown, KeyUp, KeyTop, KeyBottom, Larger
<1>3. ASSUME NEW height \in Heights, Resize(height) PROVE PositionInv'
  <2>1. height \in Int
    BY TuiAssumption
  <2> QED BY <1>0, <1>3, <2>1 DEF PositionInv, Size, Resize
<1>4. ASSUME IsList(items'), list_height' = list_height, ClampScroll,
             selected' \in Int,
             IF Len(items') = 0 THEN selected' = 0
             ELSE selected' \in 0 .. Len(items') - 1
      PROVE  PositionInv'
  <2>1. Len(items') \in Nat /\ (items' = <<>> <=> Len(items') = 0)
    BY <1>4, ListEmpty DEF IsList
  <2>2. scroll_offset' \in Int /\ scroll_offset' >= 0
    BY <1>4, <2>1, ClampedType DEF PositionInv
  <2> QED BY <1>0, <1>4, <2>1, <2>2 DEF PositionInv, Size
<1>5. CASE KeyReload
  <2>1. IsList(items') /\ Len(items') \in Nat
    BY <1>0, <1>5, LoadGivesList DEF KeyReload, HistoryFinite, IsList
  <2> QED BY <1>4, <1>5, <2>1
          DEF PositionInv, KeyReload, Smaller, Larger
<1>6. ASSUME NEW query, KeySearch(query) PROVE PositionInv'
  <2>1. IsList(items') /\ Len(items') \in Nat
    BY <1>0, <1>6, LoadGivesList DEF KeySearch, HistoryFinite, IsList
  <2>2. items' = <<>> <=> Len(items') = 0
    BY <2>1, ListEmpty
  <2> QED BY <1>0, <1>6, <2>1, <2>2 DEF PositionInv, KeySearch, Size
<1>7. CASE KeyDelete
  <2>1. IsList(items') /\ Len(items') \in Nat
    BY <1>0, <1>7, LoadGivesList DEF KeyDelete, HistoryFinite, IsList
  <2>2. items # <<>> /\ selected \in 0 .. Size - 1
    BY <1>7 DEF KeyDelete, PositionInv
  <2> QED BY <1>0, <1>4, <1>7, <2>1, <2>2
          DEF PositionInv, KeyDelete, Larger, Size
<1>8. CASE KeyPin
  <2>1. items # <<>> /\ UNCHANGED <<selected, scroll_offset, list_height>>
    BY <1>8 DEF KeyPin
  <2>2. PICK x : items' = [items EXCEPT ![selected + 1] = x]
    BY <1>8, Zenon DEF KeyPin
  <2>3. IsList(items') /\ Len(items') = Len(items)
    BY <1>0, <2>2, PinGivesList
  <2> QED BY <1>0, <2>1, <2>3, ListEmpty DEF PositionInv, Size
<1> QED
  BY <1>1, <1>2, <1>3, <1>5, <1>6, <1>7, <1>8
     DEF Next, vars, RowWritten, RowsRemoved, RowPinned, KeyEscape,
         KeyDeleteUnanswered, KeyPinUnanswered

(* Enter, d, p and y never read outside the list, whatever was loaded,      *)
(* however high the terminal is and however long the list.                  *)
THEOREM IndicesStayValid == Spec => []IndicesValid
<1>1. PositionInv => IndicesValid
  BY DEF PositionInv, IndicesValid
<1> QED BY <1>1, PositionInit, PositionStep, PTL DEF Spec

-----------------------------------------------------------------------------
(* The selection and the panel                                             *)

(* A load that leaves at least one item: h is the height, n the length of   *)
(* the list, sel and off are the selection and the offset before, sel2 and  *)
(* off2 after.                                                              *)
LEMMA LoadKeepsView ==
  ASSUME NEW h \in Int, h >= 1, NEW n \in Int, n >= 1,
         NEW sel \in Int, NEW off \in Int, NEW sel2 \in Int, NEW off2 \in Int,
         0 <= off, off <= Larger(0, sel), sel < off + h,
         sel2 >= 0, sel2 <= n - 1, sel2 <= Larger(0, sel),
         sel2 = Larger(0, sel) \/ sel2 = Larger(0, n - 1),
         off2 <= off, off2 = off \/ off2 = Larger(0, n - h),
         off2 <= Larger(0, n - h)
  PROVE  off2 <= sel2 /\ sel2 < off2 + h
BY DEF Larger

LEMMA ViewInit == Init => ViewInv
BY DEF Init, ViewInv

LEMMA ViewStep == PositionInv /\ ViewInv /\ [Next]_vars => ViewInv'
<1> SUFFICES ASSUME PositionInv, ViewInv, [Next]_vars PROVE ViewInv'
  OBVIOUS
<1> USE DEF Browser, viewVars, daemonVars
<1>0. /\ PositionInv' /\ IsList(items) /\ IsList(items')
      /\ Size \in Nat /\ (items = <<>> <=> Size = 0)
      /\ Size' \in Nat /\ (items' = <<>> <=> Size' = 0)
      /\ list_height \in Int
  BY PositionStep, ListEmpty DEF PositionInv, IsList, Size
<1>1. CASE UNCHANGED <<items, selected, scroll_offset, list_height, resized>>
  BY <1>1 DEF ViewInv, Size
<1>2. CASE KeyDown
  BY <1>0, <1>2 DEF PositionInv, ViewInv, Size, KeyDown, Larger
<1>3. CASE KeyUp
  BY <1>0, <1>3 DEF PositionInv, ViewInv, Size, KeyUp, Larger
<1>4. CASE KeyTop \/ KeyBottom
  <2>1. /\ Size' = Size /\ items' = items /\ list_height' = list_height
        /\ \/ scroll_offset' = 0 /\ selected' = 0
           \/ /\ scroll_offset' = Larger(0, Size - list_height)
              /\ selected' = Size - 1
    BY <1>4 DEF KeyTop, KeyBottom, Size
  <2> QED BY <1>0, <2>1 DEF ViewInv, Larger
<1>5. ASSUME NEW height \in Heights, Resize(height) PROVE ViewInv'
  BY <1>5 DEF Resize, ViewInv
<1>6. CASE KeyReload \/ KeyDelete
  <2>0. ClampScroll /\ UNCHANGED <<list_height, resized>>
    BY <1>6 DEF KeyReload, KeyDelete
  <2>1. /\ selected' \in Int
        /\ selected' <= Larger(0, selected)
        /\ selected' = Larger(0, selected) \/ selected' = Larger(0, Size' - 1)
    BY <1>0, <1>6
       DEF PositionInv, KeyReload, KeyDelete, Smaller, Larger, Size
  <2>2. /\ scroll_offset' \in Int
        /\ 0 <= scroll_offset' /\ scroll_offset' <= scroll_offset
        /\ scroll_offset' <= Larger(0, Size' - list_height)
        /\ \/ scroll_offset' = scroll_offset
           \/ scroll_offset' = Larger(0, Size' - list_height)
    BY <1>0, <2>0, ClampedType DEF PositionInv, Size
  <2>3. ASSUME list_height >= 1, ~ resized, items' # <<>>
        PROVE  /\ scroll_offset' <= selected'
               /\ selected' < scroll_offset' + list_height
    <3>1. selected' \in 0 .. Size' - 1 /\ Size' \in Int /\ Size' >= 1
      BY <1>0, <2>3 DEF PositionInv, Size
    <3>2. selected \in Int /\ scroll_offset \in Int /\ 0 <= scroll_offset
      BY DEF PositionInv
    <3>3. /\ scroll_offset <= Larger(0, selected)
          /\ selected < scroll_offset + list_height
      BY <1>0, <2>3, <3>2 DEF ViewInv, PositionInv, Larger
    <3>4. selected' \in Int /\ selected' >= 0 /\ selected' <= Size' - 1
      BY <1>0, <2>3 DEF PositionInv, Size
    <3>5. list_height \in Int /\ list_height >= 1
      BY <1>0, <2>3
    <3> QED BY <2>1, <2>2, <3>1, <3>2, <3>3, <3>4, <3>5, LoadKeepsView
  <2>4. ASSUME list_height >= 1, items' = <<>>
        PROVE  scroll_offset' = 0
    BY <1>0, <2>2, <2>4 DEF Larger
  <2>5. list_height' = list_height /\ resized' = resized
    BY <2>0
  <2> QED BY <1>0, <2>2, <2>3, <2>4, <2>5 DEF ViewInv
<1>7. ASSUME NEW query, KeySearch(query) PROVE ViewInv'
  <2>1. scroll_offset' = 0 /\ selected' = 0 /\ list_height' = list_height
    BY <1>7 DEF KeySearch
  <2>2. ASSUME NEW m \in Int PROVE 0 <= Larger(0, m)
    BY DEF Larger
  <2>3. Size' - list_height \in Int
    BY <1>0
  <2>4. 0 <= Larger(0, Size' - list_height)
    BY <2>2, <2>3
  <2> QED BY <1>0, <2>1, <2>4 DEF ViewInv
<1>8. CASE KeyPin
  <2>1. items # <<>>
        /\ UNCHANGED <<selected, scroll_offset, list_height, resized>>
    BY <1>8 DEF KeyPin
  <2>2. PICK x : items' = [items EXCEPT ![selected + 1] = x]
    BY <1>8, Zenon DEF KeyPin
  <2>3. Size' = Size
    BY <1>0, <2>2, PinGivesList DEF Size
  <2> QED BY <1>0, <2>1, <2>3 DEF ViewInv
<1> QED
  BY <1>1, <1>2, <1>3, <1>4, <1>5, <1>6, <1>7, <1>8
     DEF Next, vars, RowWritten, RowsRemoved, RowPinned, KeyEscape,
         KeyDeleteUnanswered, KeyPinUnanswered

(* The selected item is in the panel until the terminal is resized, in any  *)
(* panel of at least one line.                                              *)
THEOREM SelectionStaysVisible == Spec => []SelectionVisible
<1>1. ViewInv => SelectionVisible
  BY DEF ViewInv, SelectionVisible
<1> QED BY <1>1, PositionInit, PositionStep, ViewInit, ViewStep, PTL DEF Spec

-----------------------------------------------------------------------------
(* What the list holds                                                     *)

(* What a step can do to the daemon's history.                              *)
HistoryTyped ==
  /\ issued \in Nat
  /\ DOMAIN live \subseteq 1 .. issued
  /\ live \in [DOMAIN live -> Texts]

LEMMA HistoryEffect ==
  ASSUME HistoryTyped, [Next]_vars
  PROVE  /\ HistoryTyped'
         /\ \/ UNCHANGED <<issued, live>>
            \/ issued' = issued /\ DOMAIN live' \subseteq DOMAIN live
                /\ \A i \in DOMAIN live' : live'[i] = live[i]
            \/ /\ UNCHANGED items
               /\ issued' = issued + 1 /\ DOMAIN live' = DOMAIN live \cup {issued + 1}
               /\ \A i \in DOMAIN live : live'[i] = live[i]
<1>1. ASSUME NEW t \in Texts, RowWritten(t)
      PROVE  /\ HistoryTyped' /\ UNCHANGED items
             /\ issued' = issued + 1 /\ DOMAIN live' = DOMAIN live \cup {issued + 1}
             /\ \A i \in DOMAIN live : live'[i] = live[i]
  BY <1>1 DEF RowWritten, Log!Write, HistoryTyped, Browser
<1>2. ASSUME NEW S, Log!Remove(S)
      PROVE  /\ HistoryTyped'
             /\ issued' = issued /\ DOMAIN live' \subseteq DOMAIN live
             /\ \A i \in DOMAIN live' : live'[i] = live[i]
  BY <1>2 DEF Log!Remove, HistoryTyped
<1>3. CASE UNCHANGED <<issued, live>>
  BY <1>3 DEF HistoryTyped
<1> QED
  BY <1>1, <1>2, <1>3
     DEF Next, vars, daemonVars, RowsRemoved, RowPinned, KeyDown, KeyUp, KeyTop,
         KeyBottom, Resize, KeyReload, KeySearch, KeyEscape, KeyDelete,
         KeyDeleteUnanswered, KeyPin, KeyPinUnanswered

(* What a step can do to the list: nothing, load it from the history as it  *)
(* then is, or mark one item.                                               *)
ItemsLoaded ==
  /\ Len(items') \in Nat
  /\ items' = [k \in 1 .. Len(items') |-> items'[k]]
  /\ \A k \in 1 .. Len(items') : \E i \in DOMAIN live', b \in BOOLEAN :
       items'[k] = [id |-> i, content |-> live'[i], pinned |-> b]

LEMMA ItemsEffect ==
  ASSUME PositionInv, [Next]_vars
  PROVE  UNCHANGED items \/ ItemsLoaded \/ KeyPin
<1>1. HistoryFinite /\ HistoryFinite'
  BY FiniteStep DEF PositionInv
<1>2. ASSUME NEW query, NEW marked, Load(query, live', marked) PROVE ItemsLoaded
  <2>1. /\ Len(items') \in Nat
        /\ items' = [k \in 1 .. Len(items') |-> items'[k]]
        /\ \A k \in 1 .. Len(items') : \E i \in DOMAIN live' :
             items'[k] = [id |-> i, content |-> live'[i], pinned |-> i \in marked]
    BY <1>1, <1>2, LoadGivesItems DEF HistoryFinite
  <2>2. \A i : (i \in marked) \in BOOLEAN
    OBVIOUS
  <2> QED BY <2>1, <2>2, Zenon DEF ItemsLoaded
<1>3. CASE KeyReload \/ KeyDelete \/ (\E query : KeySearch(query))
  <2>1. \E query, marked : Load(query, live', marked)
    BY <1>3 DEF KeyReload, KeyDelete, KeySearch, daemonVars
  <2> QED BY <1>2, <2>1
<1> QED
  BY <1>3 DEF Next, vars, RowWritten, RowsRemoved, RowPinned, KeyDown, KeyUp,
         KeyTop, KeyBottom, Resize, KeyEscape, KeyDeleteUnanswered,
         KeyPinUnanswered, Browser

(* p marks one item that is there.                                          *)
LEMMA PinEffect ==
  ASSUME PositionInv, items \in Seq(Item), KeyPin
  PROVE  /\ items' \in Seq(Item) /\ Len(items') = Len(items)
         /\ \A k \in 1 .. Len(items) :
              items'[k].id = items[k].id /\ items'[k].content = items[k].content
<1> DEFINE j == selected + 1
           x == [items[j] EXCEPT !.pinned = ~ @]
<1>1. j \in 1 .. Len(items)
  BY DEF KeyPin, PositionInv, Size
<1>2. items[j] \in Item
  BY <1>1
<1>3. x \in Item /\ x.id = items[j].id /\ x.content = items[j].content
  BY <1>2 DEF Item
<1>4. items' = [items EXCEPT ![j] = x]
  BY DEF KeyPin
<1> HIDE DEF j, x
<1> QED BY <1>1, <1>3, <1>4, ExceptSeq

(* ItemsTruthful, and that no item has a number yet to be given.            *)
TruthInv ==
  /\ TypeOK
  /\ \A k \in 1 .. Size : items[k].id \in 1 .. issued
  /\ ItemsTruthful

LEMMA TruthInit == Init => TruthInv
<1> SUFFICES ASSUME Init PROVE TruthInv
  OBVIOUS
<1>1. issued = 0 /\ live = [i \in {} |-> i] /\ items = <<>>
  BY DEF Init, Log!Init
<1>2. Size = 0 /\ items \in Seq(Item)
  BY <1>1 DEF Size
<1>3. DOMAIN live = {} /\ live \in [DOMAIN live -> Texts]
  BY <1>1
<1>4. TypeOK
  <2>1. issued \in Nat /\ DOMAIN live \subseteq 1 .. issued
    BY <1>1, <1>3
  <2>2. /\ pins \subseteq DOMAIN live
        /\ selected \in Int /\ scroll_offset \in Int
        /\ list_height \in Heights
    BY <1>3 DEF Init
  <2>3. search_query \in SUBSET Texts /\ resized \in BOOLEAN
    BY DEF Init
  <2> QED BY <1>2, <1>3, <2>1, <2>2, <2>3 DEF TypeOK
<1> QED BY <1>2, <1>4 DEF TruthInv, ItemsTruthful

(* The pins and what belongs to the view keep their types at every step.    *)
LEMMA ViewTyped ==
  ASSUME PositionInv, PositionInv', TypeOK, [Next]_vars
  PROVE  /\ pins' \subseteq DOMAIN live'
         /\ selected' \in Int /\ scroll_offset' \in Int
         /\ list_height' \in Heights
         /\ search_query' \in SUBSET Texts
         /\ resized' \in BOOLEAN
<1> USE DEF TypeOK, Browser, viewVars, daemonVars
<1>0. selected' \in Int /\ scroll_offset' \in Int
  BY DEF PositionInv
<1>1. ASSUME NEW t \in Texts, RowWritten(t)
      PROVE  pins' \subseteq DOMAIN live' /\ UNCHANGED <<list_height, search_query, resized>>
  BY <1>1 DEF RowWritten, Log!Write
<1>2. ASSUME NEW S, Log!Remove(S), pins' = pins \ S PROVE pins' \subseteq DOMAIN live'
  BY <1>2 DEF Log!Remove
<1>3. ASSUME NEW i \in DOMAIN live, RowPinned(i)
      PROVE  pins' \subseteq DOMAIN live' /\ UNCHANGED <<list_height, search_query, resized>>
  BY <1>3 DEF RowPinned
<1>4. ASSUME PinSelected, UNCHANGED live PROVE pins' \subseteq DOMAIN live'
  BY <1>4 DEF PinSelected
<1>5. ASSUME UNCHANGED <<pins, live>> PROVE pins' \subseteq DOMAIN live'
  BY <1>5
<1>6. pins' \subseteq DOMAIN live'
  BY <1>1, <1>2, <1>3, <1>4, <1>5
     DEF Next, vars, RowsRemoved, KeyDown, KeyUp, KeyTop, KeyBottom, Resize,
         KeyReload, KeySearch, KeyEscape, KeyDelete, KeyDeleteUnanswered,
         KeyPin, KeyPinUnanswered
<1>7. list_height' \in Heights
  BY DEF Next, vars, RowWritten, RowsRemoved, RowPinned, KeyDown, KeyUp, KeyTop,
         KeyBottom, Resize, KeyReload, KeySearch, KeyEscape, KeyDelete,
         KeyDeleteUnanswered, KeyPin, KeyPinUnanswered
<1>8. search_query' \in SUBSET Texts
  BY TuiAssumption
     DEF Next, vars, RowWritten, RowsRemoved, RowPinned, KeyDown, KeyUp, KeyTop,
         KeyBottom, Resize, KeyReload, KeySearch, KeyEscape, KeyDelete,
         KeyDeleteUnanswered, KeyPin, KeyPinUnanswered
<1>9. resized' \in BOOLEAN
  BY DEF Next, vars, RowWritten, RowsRemoved, RowPinned, KeyDown, KeyUp, KeyTop,
         KeyBottom, Resize, KeyReload, KeySearch, KeyEscape, KeyDelete,
         KeyDeleteUnanswered, KeyPin, KeyPinUnanswered
<1> QED BY <1>0, <1>6, <1>7, <1>8, <1>9

LEMMA TruthStep == PositionInv /\ TruthInv /\ [Next]_vars => TruthInv'
<1> SUFFICES ASSUME PositionInv, TruthInv, [Next]_vars PROVE TruthInv'
  OBVIOUS
<1>1. HistoryTyped
  BY DEF TruthInv, TypeOK, HistoryTyped
<1>2. HistoryTyped' /\ issued \in Nat /\ issued' \in Nat
  BY <1>1, HistoryEffect DEF HistoryTyped
<1>3. ASSUME Len(items') = Len(items),
             \A k \in 1 .. Len(items) :
               items'[k].id = items[k].id /\ items'[k].content = items[k].content,
             UNCHANGED items \/ UNCHANGED <<issued, live>>
      PROVE  (\A k \in 1 .. Size : items[k].id \in 1 .. issued)' /\ ItemsTruthful'
  <2>1. ASSUME NEW k \in 1 .. Len(items)
        PROVE  /\ items[k].id \in 1 .. issued'
               /\ items[k].id \in DOMAIN live' => live'[items[k].id] = items[k].content
    <3>1. /\ items[k].id \in 1 .. issued
          /\ items[k].id \in DOMAIN live => live[items[k].id] = items[k].content
      BY DEF TruthInv, ItemsTruthful, Size
    <3> QED BY <1>1, <1>2, <3>1, HistoryEffect
  <2> QED BY <1>3, <2>1 DEF ItemsTruthful, Size
<1>4. ASSUME items' \in Seq(Item) PROVE TypeOK'
  BY <1>2, <1>4, PositionStep, ViewTyped DEF TruthInv, TypeOK, HistoryTyped
<1>5. CASE UNCHANGED items
  <2>1. items' \in Seq(Item)
    BY <1>5 DEF TruthInv, TypeOK
  <2> QED BY <1>3, <1>4, <1>5, <2>1 DEF TruthInv
<1>6. CASE KeyPin
  <2>1. items \in Seq(Item) /\ UNCHANGED <<issued, live>>
    BY <1>6 DEF TruthInv, TypeOK, KeyPin
  <2> QED BY <1>3, <1>4, <1>6, <2>1, PinEffect DEF TruthInv
<1>7. CASE ItemsLoaded
  <2>1. ASSUME NEW k \in 1 .. Len(items')
        PROVE  /\ items'[k] \in Item
               /\ items'[k].id \in 1 .. issued'
               /\ live'[items'[k].id] = items'[k].content
    <3>1. PICK i \in DOMAIN live', b \in BOOLEAN :
            items'[k] = [id |-> i, content |-> live'[i], pinned |-> b]
      BY <1>7 DEF ItemsLoaded
    <3>2. i \in 1 .. issued' /\ live'[i] \in Texts
      BY <1>2 DEF HistoryTyped
    <3> QED BY <1>2, <3>1, <3>2 DEF Item
  <2>2. items' \in Seq(Item)
    <3> DEFINE n == Len(items')
    <3>1. n \in Nat /\ items' = [k \in 1 .. n |-> items'[k]]
      BY <1>7 DEF ItemsLoaded
    <3> HIDE DEF n
    <3>2. items' \in [1 .. n -> Item]
      BY <2>1, <3>1 DEF n
    <3> QED BY <3>1, <3>2
  <2> QED BY <1>4, <2>1, <2>2 DEF TruthInv, ItemsTruthful, Size
<1> QED BY <1>5, <1>6, <1>7, ItemsEffect

(* Every variable of the browser keeps its type, for any texts and sizes.   *)
THEOREM TuiTypesCorrect == Spec => []TypeOK
<1>1. TruthInv => TypeOK
  BY DEF TruthInv
<1> QED BY <1>1, PositionInit, PositionStep, TruthInit, TruthStep, PTL DEF Spec

(* A row that still exists has the text that is shown for it, however old   *)
(* the list is and however the answers that made it were cut.               *)
THEOREM ItemsAreTruthful == Spec => []ItemsTruthful
<1>1. TruthInv => ItemsTruthful
  BY DEF TruthInv
<1> QED BY <1>1, PositionInit, PositionStep, TruthInit, TruthStep, PTL DEF Spec
=============================================================================
