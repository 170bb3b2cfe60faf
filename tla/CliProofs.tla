------------------------------ MODULE CliProofs ------------------------------
(***************************************************************************)
(* The properties of Cli, for every set of texts and names, every size of  *)
(* the buffers and any number of commands.  They follow from what the      *)
(* tables hold (TypeInv), what becomes of a snippet (SavedInv) and of a    *)
(* text (TextsInv), and from what CodecProofs says of JSON.                *)
(***************************************************************************)
EXTENDS Cli, CodecProofs

-----------------------------------------------------------------------------
(* Prefixes                                                                *)

LEMMA PrefixIs ==
  ASSUME NEW s \in Text, NEW t \in Text
  PROVE  IsPrefix(s, t) <=> /\ Len(s) <= Len(t)
                            /\ \A i \in 1 .. Len(s) : s[i] = t[i]
<1>1. Len(s) \in Nat /\ Len(t) \in Nat /\ SubSeq(s, 1, Len(s)) = s
  BY SubSeqFull DEF Text
<1>2. ASSUME Len(s) <= Len(t)
      PROVE  SubSeq(t, 1, Len(s)) = s <=> \A i \in 1 .. Len(s) : s[i] = t[i]
  <2> DEFINE u == SubSeq(t, 1, Len(s))
  <2>1. u \in Text /\ Len(u) = Len(s) /\ \A i \in 1 .. Len(s) : u[i] = t[i]
    BY <1>1, <1>2 DEF Text
  <2> HIDE DEF u
  <2>2. u = s <=> \A i \in 1 .. Len(s) : s[i] = u[i]
    BY <2>1, SeqEqual DEF Text
  <2> QED BY <2>1, <2>2 DEF u
<1> QED BY <1>1, <1>2 DEF IsPrefix

LEMMA FrontOf ==
  ASSUME NEW t \in Text, NEW n \in 0 .. Len(t)
  PROVE  /\ SubSeq(t, 1, n) \in Text /\ Len(SubSeq(t, 1, n)) = n
         /\ \A i \in 1 .. n : SubSeq(t, 1, n)[i] = t[i]
         /\ IsPrefix(SubSeq(t, 1, n), t)
<1> DEFINE u == SubSeq(t, 1, n)
<1>1. Len(t) \in Nat
  BY DEF Text
<1>2. u \in Text /\ Len(u) = n /\ \A i \in 1 .. n : u[i] = t[i]
  BY <1>1 DEF Text
<1> HIDE DEF u
<1>3. IsPrefix(u, t)
  BY <1>2, PrefixIs
<1> QED BY <1>2, <1>3 DEF u

LEMMA PrefixOfPrefix ==
  ASSUME NEW s \in Text, NEW t \in Text, NEW u \in Text, IsPrefix(s, t), IsPrefix(t, u)
  PROVE  IsPrefix(s, u)
<1>1. Len(s) \in Nat /\ Len(t) \in Nat /\ Len(u) \in Nat
  BY DEF Text
<1>2. /\ Len(s) <= Len(t) /\ \A i \in 1 .. Len(s) : s[i] = t[i]
      /\ Len(t) <= Len(u) /\ \A i \in 1 .. Len(t) : t[i] = u[i]
  BY PrefixIs
<1>3. Len(s) <= Len(u) /\ \A i \in 1 .. Len(s) : s[i] = u[i]
  BY <1>1, <1>2
<1> QED BY <1>3, PrefixIs

LEMMA CutIs ==
  ASSUME NEW t \in Text, NEW n \in Nat \ {0}
  PROVE  /\ Cut(t, n) \in Text /\ IsPrefix(Cut(t, n), t)
         /\ Len(t) < n => Cut(t, n) = t
<1> DEFINE l == IF Len(t) < n THEN Len(t) ELSE n - 1
<1>1. Len(t) \in Nat /\ SubSeq(t, 1, Len(t)) = t
  BY SubSeqFull DEF Text
<1>2. l \in 0 .. Len(t) /\ (Len(t) < n => l = Len(t))
  BY <1>1
<1>3. Cut(t, n) = SubSeq(t, 1, l)
  BY DEF Cut
<1> HIDE DEF l
<1> QED BY <1>1, <1>2, <1>3, FrontOf

LEMMA StripIs ==
  ASSUME NEW t \in Text
  PROVE  Strip(t) \in Text /\ IsPrefix(Strip(t), t)
<1> DEFINE I == {i \in 1 .. Len(t) : t[i] \notin White}
           end == IF I # {} THEN Max(I) ELSE 0
<1>1. Strip(t) = SubSeq(t, 1, end)
  BY DEF Strip, SelectLastInSeq
<1>2. end \in 0 .. Len(t)
  <2>1. Len(t) \in Nat
    BY DEF Text
  <2>2. I \in SUBSET (1 .. Len(t))
    OBVIOUS
  <2> HIDE DEF I
  <2>3. I # {} => Max(I) \in I
    BY Zenon, <2>1, <2>2, GreatestElement DEF Max
  <2>4. CASE I = {}
    BY <2>1, <2>4
  <2>5. CASE I # {}
    <3> DEFINE m == Max(I)
    <3>1. m \in 1 .. Len(t) /\ end = m
      BY Zenon, <2>2, <2>3, <2>5
    <3> HIDE DEF m
    <3>2. m \in 0 .. Len(t)
      BY <2>1, <3>1
    <3> QED BY <3>1, <3>2
  <2> QED BY <2>4, <2>5
<1> QED BY <1>1, <1>2, FrontOf

-----------------------------------------------------------------------------
(* Orders                                                                  *)

(* The numbers of a finite set, the largest first.                          *)
Decreasing(S, ids) ==
  /\ ids \in [1 .. Cardinality(S) -> S]
  /\ \A j, k \in DOMAIN ids : j < k => ids[j] > ids[k]

LEMMA DecreasingExists ==
  ASSUME NEW S \in SUBSET Nat, IsFiniteSet(S)
  PROVE  \E ids : Decreasing(S, ids)
<1> DEFINE N == {n \in Nat : \A T \in SUBSET Nat :
                   IsFiniteSet(T) /\ Cardinality(T) = n => \E ids : Decreasing(T, ids)}
<1>1. 0 \in N
  <2> SUFFICES ASSUME NEW T \in SUBSET Nat, IsFiniteSet(T), Cardinality(T) = 0
               PROVE  \E ids : Decreasing(T, ids)
    OBVIOUS
  <2> DEFINE ids == [k \in 1 .. 0 |-> 0]
  <2>1. Decreasing(T, ids)
    BY DEF Decreasing
  <2> QED BY <2>1
<1>2. ASSUME NEW n \in Nat, n \in N PROVE n + 1 \in N
  <2> SUFFICES ASSUME NEW T \in SUBSET Nat, IsFiniteSet(T), Cardinality(T) = n + 1
               PROVE  \E ids : Decreasing(T, ids)
    OBVIOUS
  <2>1. T # {}
    BY FS_EmptySet
  <2>2. PICK m \in T : \A j \in T : m <= j
    BY <2>1, LeastElement
  <2> DEFINE U == T \ {m}
  <2>3. IsFiniteSet(U) /\ Cardinality(U) = n /\ U \in SUBSET Nat
    <3>1. IsFiniteSet(U) /\ Cardinality(U) = Cardinality(T) - 1
      BY Zenon, FS_RemoveElement
    <3> QED BY <3>1
  <2>4. PICK ids : Decreasing(U, ids)
    BY <1>2, <2>3
  <2> DEFINE longer == [k \in 1 .. n + 1 |-> IF k = n + 1 THEN m ELSE ids[k]]
  <2>5. ids \in [1 .. n -> U] /\ \A j, k \in 1 .. n : j < k => ids[j] > ids[k]
    BY Zenon, <2>3, <2>4 DEF Decreasing
  <2>6. \A j \in U : j > m /\ j \in T /\ j \in Nat
    BY <2>2
  <2> HIDE DEF U
  <2>7. \A k \in 1 .. n : k \in 1 .. n + 1 /\ longer[k] = ids[k] /\ ids[k] \in U
    BY <2>5
  <2>8. longer[n + 1] = m /\ DOMAIN longer = 1 .. n + 1
    OBVIOUS
  <2>9. \A k \in 1 .. n + 1 : k \in 1 .. n \/ k = n + 1
    OBVIOUS
  <2>10. longer \in [1 .. n + 1 -> T]
    <3>1. \A k \in 1 .. n + 1 : longer[k] \in T
      <4> HIDE DEF longer
      <4> QED BY <2>6, <2>7, <2>8, <2>9
    <3> QED BY <3>1
  <2> HIDE DEF longer
  <2>11. ASSUME NEW j \in 1 .. n + 1, NEW k \in 1 .. n + 1, j < k
         PROVE  longer[j] > longer[k]
    <3>1. j \in 1 .. n
      BY <2>11
    <3>2. CASE k \in 1 .. n
      BY <2>5, <2>7, <2>11, <3>1, <3>2
    <3>3. CASE k = n + 1
      BY <2>6, <2>7, <2>8, <3>1, <3>3
    <3> QED BY <2>9, <3>2, <3>3
  <2>12. Decreasing(T, longer)
    BY <2>8, <2>10, <2>11 DEF Decreasing
  <2> QED BY <2>12
<1>3. \A n \in Nat : n \in N
  <2> HIDE DEF N
  <2> QED BY <1>1, <1>2, NatSetInduction
<1>4. Cardinality(S) \in N
  <2> HIDE DEF N
  <2> QED BY <1>3, FS_CardinalityType
<1> QED BY <1>4

LEMMA SetToSeqIs ==
  ASSUME NEW S, IsFiniteSet(S)
  PROVE  /\ SetToSeq(S) \in [1 .. Cardinality(S) -> S] /\ Cardinality(S) \in Nat
         /\ \A j, k \in 1 .. Cardinality(S) : SetToSeq(S)[j] = SetToSeq(S)[k] => j = k
         /\ \A x \in S : \E k \in 1 .. Cardinality(S) : SetToSeq(S)[k] = x
<1> DEFINE n == Cardinality(S)
           f == SetToSeq(S)
<1>1. n \in Nat /\ ExistsBijection(1 .. n, S)
  BY FS_CardinalityType
<1>2. PICK g \in Bijection(1 .. n, S) : TRUE
  BY <1>1 DEF ExistsBijection
<1> HIDE DEF n
<1>3. g \in [1 .. n -> S] /\ IsInjective(g)
  BY <1>2 DEF Bijection, Injection, IsInjective
<1>4. f \in [1 .. n -> S] /\ IsInjective(f)
  BY <1>3 DEF SetToSeq, n
<1> HIDE DEF f
<1>5. \A j, k \in 1 .. n : f[j] = f[k] => j = k
  BY <1>4 DEF IsInjective
<1>6. f \in Injection(1 .. n, S)
  BY <1>4, <1>5 DEF Injection, IsInjective
<1>7. IsFiniteSet(1 .. n) /\ Cardinality(1 .. n) = n
  BY <1>1, FS_Interval
<1>8. f \in Surjection(1 .. n, S)
  BY <1>6, <1>7, FS_Injection DEF n
<1>9. \A x \in S : \E k \in 1 .. n : f[k] = x
  BY <1>8 DEF Surjection
<1> QED BY <1>1, <1>4, <1>5, <1>9 DEF n, f

-----------------------------------------------------------------------------
(* Listings                                                                *)

LEMMA RowsAre ==
  ASSUME CliTypeOK
  PROVE  /\ DOMAIN rows \in SUBSET Nat /\ IsFiniteSet(DOMAIN rows)
         /\ \A i \in DOMAIN rows :
              /\ i \in 1 .. MaxRows /\ i \in 1 .. seq
              /\ rows[i].id = i /\ rows[i].content \in Text
              /\ rows[i].type \in Types /\ rows[i].pinned \in BOOLEAN
              /\ Numeral[i] \in Digits
<1>1. /\ seq \in 0 .. MaxRows /\ DOMAIN rows \subseteq 1 .. seq /\ MaxRows \in Nat
      /\ Numeral \in [1 .. MaxRows -> Digits]
  BY CliAssumption DEF CliTypeOK
<1>2. IsFiniteSet(1 .. seq)
  BY <1>1, FS_Interval
<1>3. IsFiniteSet(DOMAIN rows)
  BY <1>1, <1>2, FS_Subset
<1>4. ASSUME NEW i \in DOMAIN rows
      PROVE  /\ rows[i].id = i /\ rows[i].content \in Text
             /\ rows[i].type \in Types /\ rows[i].pinned \in BOOLEAN
  BY DEF CliTypeOK
<1> QED BY <1>1, <1>3, <1>4

LEMMA NewestIs ==
  ASSUME CliTypeOK
  PROVE  /\ NewestFirst \in Seq(DOMAIN rows)
         /\ Len(NewestFirst) = Cardinality(DOMAIN rows)
<1> DEFINE n == Cardinality(DOMAIN rows)
<1>1. n \in Nat
  BY RowsAre, FS_CardinalityType
<1>2. \E ids : Decreasing(DOMAIN rows, ids)
  BY RowsAre, DecreasingExists
<1>3. NewestFirst \in [1 .. n -> DOMAIN rows]
  BY Zenon, <1>2 DEF Decreasing, NewestFirst
<1> HIDE DEF n
<1> QED BY <1>1, <1>3 DEF n

Objects(ids) == [k \in DOMAIN ids |-> ItemObject(rows[ids[k]])]

LEMMA ObjectsAre ==
  ASSUME CliTypeOK, NEW ids \in Seq(DOMAIN rows)
  PROVE  /\ Objects(ids) \in Seq(Text) /\ Len(Objects(ids)) = Len(ids)
         /\ SerializeItems([k \in DOMAIN ids |-> rows[ids[k]]]) = Array(Objects(ids))
         /\ \A k \in 1 .. Len(ids) :
              /\ Objects(ids)[k] = ItemObject(rows[ids[k]]) /\ Object(Objects(ids)[k])
              /\ ids[k] \in DOMAIN rows
              /\ JsonGet(Objects(ids)[k], IdKey) = <<Numeral[ids[k]]>>
              /\ JsonGet(Objects(ids)[k], TypeKey) = <<rows[ids[k]].type>>
              /\ JsonGet(Objects(ids)[k], PinnedKey) = <<Flag(rows[ids[k]].pinned)>>
              /\ JsonGet(Objects(ids)[k], ContentKey) = rows[ids[k]].content
<1> DEFINE item(k) == rows[ids[k]]
           object(k) == ItemObject(rows[ids[k]])
<1>1. DOMAIN ids = 1 .. Len(ids) /\ Len(ids) \in Nat /\ \A k \in 1 .. Len(ids) : ids[k] \in DOMAIN rows
  OBVIOUS
<1>2. ASSUME NEW i \in DOMAIN rows
      PROVE  /\ Object(ItemObject(rows[i])) /\ ItemObject(rows[i]) \in Text
             /\ JsonGet(ItemObject(rows[i]), IdKey) = <<Numeral[i]>>
             /\ JsonGet(ItemObject(rows[i]), TypeKey) = <<rows[i].type>>
             /\ JsonGet(ItemObject(rows[i]), PinnedKey) = <<Flag(rows[i].pinned)>>
             /\ JsonGet(ItemObject(rows[i]), ContentKey) = rows[i].content
  <2> DEFINE r == rows[i]
  <2>1. /\ r.id = i /\ Numeral[r.id] \in Digits /\ r.type \in Types
        /\ r.pinned \in BOOLEAN /\ r.content \in Text
    BY RowsAre
  <2> HIDE DEF r
  <2>2. /\ Object(ItemObject(r)) /\ ItemObject(r) \in Text
        /\ JsonGet(ItemObject(r), IdKey) = <<Numeral[r.id]>>
        /\ JsonGet(ItemObject(r), TypeKey) = <<r.type>>
        /\ JsonGet(ItemObject(r), PinnedKey) = <<Flag(r.pinned)>>
        /\ JsonGet(ItemObject(r), ContentKey) = r.content
    BY <2>1, ItemRead
  <2> QED BY <2>1, <2>2, Zenon DEF r
<1>3. \A k \in 1 .. Len(ids) : object(k) \in Text
  BY <1>1, <1>2
<1>4. Objects(ids) = [k \in 1 .. Len(ids) |-> object(k)]
  BY <1>1 DEF Objects
<1>5. SerializeItems([k \in DOMAIN ids |-> rows[ids[k]]]) = Array(Objects(ids))
  <2> DEFINE items == [k \in DOMAIN ids |-> rows[ids[k]]]
  <2>1. [k \in DOMAIN items |-> ItemObject(items[k])] = Objects(ids)
    BY DEF Objects
  <2> HIDE DEF items
  <2>2. SerializeItems(items) = Array(Objects(ids))
    BY <2>1, Zenon DEF SerializeItems
  <2> QED BY <2>2 DEF items
<1>6. \A k \in 1 .. Len(ids) : Objects(ids)[k] = object(k)
  BY <1>4
<1> HIDE DEF object
<1>7. Objects(ids) \in Seq(Text) /\ Len(Objects(ids)) = Len(ids)
  BY <1>1, <1>3, <1>4
<1>8. ASSUME NEW k \in 1 .. Len(ids)
      PROVE  /\ Objects(ids)[k] = ItemObject(rows[ids[k]]) /\ ids[k] \in DOMAIN rows
  BY <1>1, <1>6 DEF object
<1> QED BY <1>2, <1>5, <1>7, <1>8, Zenon

(* A listing shows the first m of the newest rows.                          *)
LEMMA ShownIs ==
  ASSUME CliTypeOK, NEW limit \in Nat
  PROVE  \E m \in 0 .. Len(NewestFirst) :
           /\ DOMAIN Shown(limit) = 1 .. m /\ Len(Shown(limit)) = m
           /\ \A k \in 1 .. m :
                /\ NewestFirst[k] \in DOMAIN rows
                /\ Faithful(Shown(limit)[k], rows[NewestFirst[k]])
           /\ Len(SerializeItems([k \in DOMAIN NewestFirst |-> rows[NewestFirst[k]]])) < DataLen
                => m = IF Len(NewestFirst) < limit THEN Len(NewestFirst) ELSE limit
<1> DEFINE all == NewestFirst
           l == IF Len(all) < limit THEN Len(all) ELSE limit
           ids == SubSeq(all, 1, l)
           os == Objects(ids)
           found == ParseArray(Cut(Array(os), DataLen))
           shown(k) == [id      |-> JsonGet(found[k], IdKey),
                        type    |-> JsonGet(found[k], TypeKey),
                        pinned  |-> JsonGet(found[k], PinnedKey),
                        content |-> JsonGet(found[k], ContentKey)]
<1>1. all \in Seq(DOMAIN rows) /\ Len(all) \in Nat
  BY NewestIs
<1> HIDE DEF all
<1>2. l \in 0 .. Len(all)
  BY <1>1
<1>3. /\ ids \in Seq(DOMAIN rows) /\ Len(ids) = l
      /\ \A k \in 1 .. l : ids[k] = all[k]
  BY <1>1, <1>2
<1>4. Shown(limit) = [k \in DOMAIN found |-> shown(k)]
  <2>1. SerializeItems([k \in DOMAIN ids |-> rows[ids[k]]]) = Array(os)
    <3> HIDE DEF ids
    <3> QED BY <1>3, ObjectsAre
  <2> QED BY <2>1, Zenon DEF Shown, all
<1> HIDE DEF ids
<1>5. /\ os \in Seq(Text) /\ Len(os) = l
      /\ \A k \in 1 .. l : Object(os[k])
      /\ \A k \in 1 .. l :
           /\ ids[k] \in DOMAIN rows
           /\ JsonGet(os[k], IdKey) = <<Numeral[ids[k]]>>
           /\ JsonGet(os[k], TypeKey) = <<rows[ids[k]].type>>
           /\ JsonGet(os[k], PinnedKey) = <<Flag(rows[ids[k]].pinned)>>
           /\ JsonGet(os[k], ContentKey) = rows[ids[k]].content
  BY ZenonT(60), <1>3, ObjectsAre
<1> HIDE DEF os
<1>6. PICK m \in 0 .. Len(os) :
        /\ found = SubSeq(os, 1, m)
        /\ Len(Array(os)) < DataLen => m = Len(os)
  BY Zenon, <1>5, ArrayRead, CliAssumption
<1> HIDE DEF found
<1>7. m \in Nat /\ m <= l /\ DOMAIN found = 1 .. m /\ \A k \in 1 .. m : found[k] = os[k]
  BY <1>2, <1>5, <1>6
<1>8. DOMAIN Shown(limit) = 1 .. m /\ Len(Shown(limit)) = m
  <2> DEFINE R == {shown(k) : k \in 1 .. m}
  <2>1. \A k \in 1 .. m : shown(k) \in R
    OBVIOUS
  <2> HIDE DEF shown, R
  <2>2. Shown(limit) = [k \in 1 .. m |-> shown(k)]
    BY <1>4, <1>7
  <2>3. Shown(limit) \in Seq(R) /\ Len(Shown(limit)) = m
    BY <1>7, <2>1, <2>2
  <2> QED BY <2>2, <2>3
<1>9. ASSUME NEW k \in 1 .. m
      PROVE  all[k] \in DOMAIN rows /\ Faithful(Shown(limit)[k], rows[all[k]])
  <2> DEFINE row == rows[all[k]]
  <2>1. k \in 1 .. l /\ k \in DOMAIN found /\ found[k] = os[k] /\ ids[k] = all[k]
    BY <1>2, <1>3, <1>7
  <2>2. all[k] \in DOMAIN rows /\ row.id = all[k]
    BY Zenon, <1>5, <2>1, RowsAre
  <2>3. Shown(limit)[k] = shown(k)
    BY <1>4, <2>1
  <2>4. /\ JsonGet(found[k], IdKey) = <<Numeral[row.id]>>
        /\ JsonGet(found[k], TypeKey) = <<row.type>>
        /\ JsonGet(found[k], PinnedKey) = <<Flag(row.pinned)>>
        /\ JsonGet(found[k], ContentKey) = row.content
    <3> HIDE DEF row
    <3>1. /\ JsonGet(os[k], IdKey) = <<Numeral[ids[k]]>>
          /\ JsonGet(os[k], TypeKey) = <<rows[ids[k]].type>>
          /\ JsonGet(os[k], PinnedKey) = <<Flag(rows[ids[k]].pinned)>>
          /\ JsonGet(os[k], ContentKey) = rows[ids[k]].content
      BY <1>5, <2>1
    <3>2. row = rows[ids[k]] /\ row.id = ids[k]
      BY <2>1, <2>2 DEF row
    <3> QED BY <2>1, <3>1, <3>2, Zenon
  <2> HIDE DEF row
  <2>5. Faithful(shown(k), row)
    BY <2>4, Zenon DEF Faithful
  <2> QED BY <2>2, <2>3, <2>5, Zenon DEF row
<1>10. ASSUME Len(SerializeItems([k \in DOMAIN all |-> rows[all[k]]])) < DataLen
       PROVE  m = l
  <2> DEFINE whole == Objects(all)
  <2>1. /\ SerializeItems([k \in DOMAIN all |-> rows[all[k]]]) = Array(whole)
        /\ whole \in Seq(Text) /\ Len(whole) = Len(all)
        /\ \A k \in 1 .. Len(all) : whole[k] = ItemObject(rows[all[k]])
    BY <1>1, ObjectsAre
  <2>2. \A k \in 1 .. l : os[k] = ItemObject(rows[ids[k]])
    BY Zenon, <1>3, ObjectsAre DEF os
  <2> HIDE DEF whole
  <2>3. os = SubSeq(whole, 1, l)
    <3> DEFINE front == SubSeq(whole, 1, l)
    <3>1. front \in Seq(Text) /\ Len(front) = l /\ \A k \in 1 .. l : front[k] = whole[k]
      BY <1>1, <1>2, <2>1
    <3> HIDE DEF front
    <3>2. \A k \in 1 .. l : k \in 1 .. Len(all)
      BY <1>1, <1>2
    <3>3. \A k \in 1 .. l : os[k] = front[k]
      BY ZenonT(60), <1>3, <2>1, <2>2, <3>1, <3>2
    <3>4. os = front
      BY <1>5, <3>1, <3>3, SeqEqual
    <3> QED BY <3>4 DEF front
  <2>4. Len(Array(os)) <= Len(Array(whole))
    <3>1. l \in 0 .. Len(whole)
      BY <1>2, <2>1
    <3> HIDE DEF l
    <3> QED BY <2>1, <2>3, <3>1, ArrayLonger
  <2>5. Len(Array(os)) \in Nat /\ Len(Array(whole)) \in Nat /\ DataLen \in Nat
    BY <1>5, <2>1, ArrayLength, CliAssumption
  <2>6. Len(Array(os)) < DataLen
    BY <1>10, <2>1, <2>4, <2>5
  <2> QED BY <1>5, <1>6, <2>6
<1>11. m \in 0 .. Len(all)
  BY <1>1, <1>2, <1>7
<1> QED BY Zenon, <1>8, <1>9, <1>10, <1>11 DEF all

(* Listings show the newest rows, in order and as they are.                 *)
LEMMA TypeImpliesListing == CliTypeOK => ListingTruthful
<1> SUFFICES ASSUME CliTypeOK, NEW limit \in 0 .. MaxRows
             PROVE  LET shown == Shown(limit) IN
                      /\ Len(shown) <= Len(NewestFirst)
                      /\ \A k \in DOMAIN shown : Faithful(shown[k], rows[NewestFirst[k]])
                      /\ Len(SerializeItems([k \in DOMAIN NewestFirst |-> rows[NewestFirst[k]]]))
                           < DataLen
                           => Len(shown) = IF Len(NewestFirst) < limit
                                           THEN Len(NewestFirst) ELSE limit
  BY DEF ListingTruthful
<1>1. limit \in Nat /\ Len(NewestFirst) \in Nat
  BY CliAssumption, NewestIs
<1>2. PICK m \in 0 .. Len(NewestFirst) :
           /\ DOMAIN Shown(limit) = 1 .. m /\ Len(Shown(limit)) = m
           /\ \A k \in 1 .. m :
                /\ NewestFirst[k] \in DOMAIN rows
                /\ Faithful(Shown(limit)[k], rows[NewestFirst[k]])
           /\ Len(SerializeItems([k \in DOMAIN NewestFirst |-> rows[NewestFirst[k]]])) < DataLen
                => m = IF Len(NewestFirst) < limit THEN Len(NewestFirst) ELSE limit
  BY Zenon, <1>1, ShownIs
<1> QED BY <1>1, <1>2

-----------------------------------------------------------------------------
(* What `clip get` finds                                                   *)

Order == SetToSeq(DOMAIN snippets)

Snippet(n) == [name |-> n, content |-> snippets[n]]

SnippetObjects == [k \in DOMAIN Order |-> SnippetObject(Snippet(Order[k]))]

Answer == ParseArray(Cut(SnippetsJson, DataLen))

TypeInv == CliTypeOK /\ IsFiniteSet(DOMAIN snippets)

LEMMA OrderIs ==
  ASSUME TypeInv
  PROVE  /\ DOMAIN Order = 1 .. Len(Order) /\ Len(Order) \in Nat
         /\ \A k \in 1 .. Len(Order) : Order[k] \in DOMAIN snippets
         /\ \A n \in DOMAIN snippets : \E k \in 1 .. Len(Order) : Order[k] = n
<1> DEFINE S == DOMAIN snippets
           c == Cardinality(S)
<1>1. /\ Order \in [1 .. c -> S] /\ c \in Nat
      /\ \A n \in S : \E k \in 1 .. c : Order[k] = n
  <2> HIDE DEF S
  <2>1. IsFiniteSet(S)
    BY DEF TypeInv, S
  <2> QED BY <2>1, SetToSeqIs DEF Order, S
<1> HIDE DEF S, c
<1>2. Len(Order) = c /\ DOMAIN Order = 1 .. c
  <2>1. Order \in Seq(S)
    BY <1>1
  <2> QED BY <1>1, <2>1
<1> QED BY <1>1, <1>2 DEF S

LEMMA SnippetObjectsAre ==
  ASSUME TypeInv
  PROVE  /\ SnippetObjects \in Seq(Text) /\ Len(SnippetObjects) = Len(Order)
         /\ SnippetsJson = Array(SnippetObjects) /\ SnippetsJson \in Text
         /\ \A k \in 1 .. Len(Order) :
              SnippetObjects[k] = SnippetObject(Snippet(Order[k]))
<1> DEFINE object(k) == SnippetObject(Snippet(Order[k]))
<1>1. ASSUME NEW k \in 1 .. Len(Order) PROVE object(k) \in Text
  <2> DEFINE n == Order[k]
             s == Snippet(n)
  <2>1. n \in DOMAIN snippets
    BY OrderIs
  <2>2. n \in Text /\ snippets[n] \in Text
    BY <2>1 DEF TypeInv, CliTypeOK
  <2> HIDE DEF n
  <2>3. s.name \in Text /\ s.content \in Text
    BY <2>2 DEF Snippet
  <2> HIDE DEF s
  <2>4. SnippetObject(s) \in Text
    BY <2>3, SnippetType
  <2> QED BY <2>4 DEF s, n
<1>2. SnippetObjects = [k \in 1 .. Len(Order) |-> object(k)]
  BY OrderIs DEF SnippetObjects
<1>3. \A k \in 1 .. Len(Order) : SnippetObjects[k] = object(k)
  BY <1>2
<1>4. SnippetsJson = Array(SnippetObjects)
  <2> DEFINE snips == [k \in DOMAIN Order |-> Snippet(Order[k])]
  <2>1. [k \in DOMAIN snips |-> SnippetObject(snips[k])] = SnippetObjects
    BY DEF SnippetObjects
  <2>2. SnippetsJson = SerializeSnippets(snips)
    BY DEF SnippetsJson, Order, Snippet
  <2> HIDE DEF snips
  <2> QED BY <2>1, <2>2, Zenon DEF SerializeSnippets
<1>5. \A k \in 1 .. Len(Order) : object(k) \in Text
  BY <1>1
<1>6. SnippetObjects \in Seq(Text) /\ Len(SnippetObjects) = Len(Order)
  <2> HIDE DEF object
  <2> QED BY <1>2, <1>5, OrderIs
<1>7. SnippetsJson \in Text
  BY <1>4, <1>6, ArrayType
<1> QED BY <1>3, <1>4, <1>6, <1>7

LEMMA LookupIs ==
  ASSUME NEW name, Answer \in Seq(Text)
  PROVE  \/ /\ Lookup(name) = <<>>
            /\ \A k \in 1 .. Len(Answer) : JsonGet(Answer[k], NameKey) # name
         \/ \E k \in 1 .. Len(Answer) :
              /\ JsonGet(Answer[k], NameKey) = name
              /\ Lookup(name) = JsonGet(Answer[k], ContentKey)
<1> DEFINE I == {k \in 1 .. Len(Answer) : JsonGet(Answer[k], NameKey) = name}
           found == IF I # {} THEN Min(I) ELSE 0
<1>1. Lookup(name) = IF found = 0 THEN <<>> ELSE JsonGet(Answer[found], ContentKey)
  BY DEF Lookup, SelectInSeq, Answer
<1>2. I \in SUBSET Nat /\ 0 \notin I
  OBVIOUS
<1>3. CASE I = {}
  BY <1>1, <1>3
<1>4. CASE I # {}
  <2> HIDE DEF I
  <2>1. Min(I) \in I
    BY Zenon, <1>2, <1>4, LeastElement DEF Min
  <2>2. found = Min(I) /\ found # 0 /\ found \in I
    BY <1>2, <1>4, <2>1
  <2> HIDE DEF found
  <2>3. Lookup(name) = JsonGet(Answer[found], ContentKey)
    BY <1>1, <2>2
  <2> QED BY Zenon, <2>2, <2>3 DEF I
<1> QED BY <1>3, <1>4

LEMMA LookupType ==
  ASSUME TypeInv, NEW name
  PROVE  Lookup(name) \in Text
<1>1. Answer \in Seq(Text)
  BY SnippetObjectsAre, CutIs, ParseArrayType, CliAssumption DEF Answer
<1>2. \A k \in 1 .. Len(Answer) : JsonGet(Answer[k], ContentKey) \in Text
  <2> TAKE k \in 1 .. Len(Answer)
  <2> DEFINE o == Answer[k]
  <2>1. o \in Text
    BY <1>1
  <2> HIDE DEF o
  <2>2. JsonGet(o, ContentKey) \in Text
    BY <2>1, JsonGetType
  <2> QED BY <2>2 DEF o
<1>3. <<>> \in Text
  BY DEF Text
<1> QED BY <1>1, <1>2, <1>3, LookupIs

LEMMA PlainIs ==
  ASSUME NEW n \in Text, Plain(n)
  PROVE  n \in Seq(Harmless({}) \ Keys) /\ \A i \in 1 .. Len(n) : n[i] # ":"
<1>1. \A i \in 1 .. Len(n) : n[i] \in Chars /\ n[i] \notin {":", Quote, Backslash} \cup Keys
  BY DEF Plain, ToSet, Text
<1>2. \A i \in 1 .. Len(n) : n[i] \in Harmless({}) \ Keys
  BY <1>1 DEF Harmless
<1>3. n \in Seq(Harmless({}) \ Keys)
  <2> DEFINE A == Harmless({}) \ Keys
  <2> HIDE DEF A
  <2>1. \A i \in 1 .. Len(n) : n[i] \in A
    BY <1>2 DEF A
  <2> QED BY <2>1 DEF Text, A
<1> QED BY <1>1, <1>3

LEMMA SnippetFound ==
  ASSUME TypeInv, \A n \in DOMAIN snippets : Plain(n), NEW name
  PROVE  \/ name \in DOMAIN snippets /\ Lookup(name) = snippets[name]
         \/ Lookup(name) = <<>> /\ (name \in DOMAIN snippets => ~ (Len(SnippetsJson) < DataLen))
<1> DEFINE os == SnippetObjects
           l == Len(Order)
<1>1. /\ os \in Seq(Text) /\ Len(os) = l /\ l \in Nat
      /\ SnippetsJson = Array(os)
      /\ \A k \in 1 .. l : os[k] = SnippetObject(Snippet(Order[k]))
  BY SnippetObjectsAre, OrderIs
<1> HIDE DEF os
<1>2. ASSUME NEW k \in 1 .. l
      PROVE  /\ Object(os[k]) /\ Order[k] \in DOMAIN snippets
             /\ JsonGet(os[k], NameKey) = Order[k]
             /\ JsonGet(os[k], ContentKey) = snippets[Order[k]]
  <2> DEFINE n == Order[k]
             s == Snippet(n)
  <2>1. n \in DOMAIN snippets
    BY OrderIs
  <2>2. n \in Text /\ Plain(n) /\ snippets[n] \in Text
    BY <2>1 DEF TypeInv, CliTypeOK
  <2>3. os[k] = SnippetObject(s)
    BY <1>1
  <2> HIDE DEF n
  <2>4. s.name = n /\ s.content = snippets[n]
    BY DEF Snippet
  <2> HIDE DEF s
  <2>5. /\ Object(SnippetObject(s))
        /\ JsonGet(SnippetObject(s), NameKey) = s.name
        /\ JsonGet(SnippetObject(s), ContentKey) = s.content
    BY <2>2, <2>4, PlainIs, SnippetRead
  <2> QED BY <2>1, <2>3, <2>4, <2>5, Zenon DEF n
<1>3. PICK m \in 0 .. Len(os) :
        /\ Answer = SubSeq(os, 1, m)
        /\ Len(Array(os)) < DataLen => m = Len(os)
  <2>1. \A k \in 1 .. Len(os) : Object(os[k])
    BY <1>1, <1>2
  <2> QED BY Zenon, <1>1, <2>1, ArrayRead, CliAssumption DEF Answer
<1>4. /\ Answer \in Seq(Text) /\ Len(Answer) = m /\ m <= l /\ m \in Nat
      /\ \A k \in 1 .. m : Answer[k] = os[k]
  BY <1>1, <1>3
<1>5. CASE \E k \in 1 .. Len(Answer) :
              /\ JsonGet(Answer[k], NameKey) = name
              /\ Lookup(name) = JsonGet(Answer[k], ContentKey)
  <2>1. PICK k \in 1 .. m : /\ JsonGet(os[k], NameKey) = name
                            /\ Lookup(name) = JsonGet(os[k], ContentKey)
    BY <1>4, <1>5
  <2>2. k \in 1 .. l
    BY <1>4
  <2> QED BY <1>2, <2>1, <2>2
<1>6. CASE /\ Lookup(name) = <<>>
           /\ \A k \in 1 .. Len(Answer) : JsonGet(Answer[k], NameKey) # name
  <2> SUFFICES ASSUME name \in DOMAIN snippets, Len(SnippetsJson) < DataLen PROVE FALSE
    BY <1>6
  <2>1. m = l
    BY <1>1, <1>3
  <2>2. PICK k \in 1 .. l : Order[k] = name
    BY OrderIs
  <2>3. k \in 1 .. Len(Answer) /\ Answer[k] = os[k]
    BY <1>4, <2>1
  <2>4. JsonGet(Answer[k], NameKey) = name
    BY <1>2, <2>2, <2>3
  <2> QED BY <1>6, <2>3, <2>4
<1> QED BY <1>4, <1>5, <1>6, LookupIs

-----------------------------------------------------------------------------
(* What `clip save` writes                                                 *)

Payload(name, text) == Cut(name \o <<":">> \o text, PayloadLen)

Colon(name, text) == Find(Payload(name, text), ":")

Key(name, text) == SubSeq(Payload(name, text), 1, Colon(name, text) - 1)

Value(name, text) ==
  SubSeq(Payload(name, text), Colon(name, text) + 1, Len(Payload(name, text)))

LEMMA RestOf ==
  ASSUME NEW t \in Text, NEW n \in 0 .. Len(t)
  PROVE  /\ SubSeq(t, n + 1, Len(t)) \in Text
         /\ Len(SubSeq(t, n + 1, Len(t))) = Len(t) - n
         /\ \A i \in 1 .. Len(t) - n : SubSeq(t, n + 1, Len(t))[i] = t[n + i]
<1> DEFINE u == SubSeq(t, n + 1, Len(t))
<1>1. Len(t) \in Nat /\ n \in Nat /\ n <= Len(t)
  BY DEF Text
<1>2. \A i \in n + 1 .. Len(t) : t[i] \in Chars
  BY <1>1 DEF Text
<1>3. /\ u \in Seq(Chars) /\ Len(u) = IF n + 1 <= Len(t) THEN Len(t) - (n + 1) + 1 ELSE 0
      /\ \A i \in 1 .. Len(t) - (n + 1) + 1 : u[i] = t[(n + 1) + i - 1]
  BY <1>1, <1>2, SubSeqProperties
<1> HIDE DEF u
<1>4. Len(u) = Len(t) - n
  BY <1>1, <1>3
<1>5. ASSUME NEW i \in 1 .. Len(t) - n PROVE u[i] = t[n + i]
  <2>1. i \in 1 .. Len(t) - (n + 1) + 1 /\ (n + 1) + i - 1 = n + i
    BY <1>1
  <2> QED BY <1>3, <2>1
<1> QED BY <1>3, <1>4, <1>5 DEF u, Text

(* The request before it is cut.                                            *)
Full(name, text) == (name \o <<":">>) \o text

LEMMA FullIs ==
  ASSUME NEW name \in Text, NEW text \in Text
  PROVE  /\ Full(name, text) \in Text
         /\ Len(Full(name, text)) = Len(name) + 1 + Len(text)
         /\ InText(Full(name, text), 0, name)
         /\ Full(name, text)[Len(name) + 1] = ":"
         /\ InText(Full(name, text), Len(name) + 1, text)
<1> DEFINE w == <<":">>
           nw == name \o w
           full == nw \o text
<1>1. w \in Text /\ Len(w) = 1 /\ w[1] = ":"
  BY CodecAssumption DEF Text
<1>2. Len(name) \in Nat /\ Len(text) \in Nat
  BY DEF Text
<1> HIDE DEF w
<1>3. nw \in Text /\ Len(nw) = Len(name) + Len(w)
  BY Zenon, <1>1, TextLengths
<1> HIDE DEF nw
<1>4. full \in Text /\ Len(full) = Len(nw) + Len(text)
  BY <1>3, TextLengths
<1>5. InText(full, 0, nw) /\ InText(full, 0 + Len(nw), text)
  <2>1. InText(full, 0, nw \o text)
    BY <1>4, InTextWhole
  <2> HIDE DEF full
  <2> QED BY Zenon, <1>3, <1>4, <2>1, InTextConcat
<1> HIDE DEF full
<1>6. InText(full, 0, name) /\ InText(full, 0 + Len(name), w)
  <2>1. InText(full, 0, name \o w)
    BY <1>5 DEF nw
  <2> QED BY <1>1, <1>4, <2>1, InTextConcat
<1>7. full[Len(name) + 1] = ":"
  <2>1. 1 \in 1 .. Len(w) /\ (0 + Len(name)) + 1 = Len(name) + 1
    BY <1>1, <1>2
  <2>2. full[(0 + Len(name)) + 1] = w[1]
    BY <1>6, <2>1 DEF InText
  <2> QED BY <1>1, <2>1, <2>2
<1>8. Len(full) = Len(name) + 1 + Len(text) /\ 0 + Len(nw) = Len(name) + 1
  BY <1>1, <1>2, <1>3, <1>4
<1>9. full = Full(name, text)
  BY DEF full, nw, w, Full
<1> QED BY <1>4, <1>5, <1>6, <1>7, <1>8, <1>9

LEMMA PayloadIs ==
  ASSUME NEW name \in Text, NEW text \in Text
  PROVE  /\ Payload(name, text) \in Text
         /\ Len(Payload(name, text)) <= Len(name) + 1 + Len(text)
         /\ \A i \in 1 .. Len(Payload(name, text)) :
              Payload(name, text)[i] = Full(name, text)[i]
         /\ Fits(name, text) => Payload(name, text) = Full(name, text)
<1> DEFINE p == Payload(name, text)
           full == Full(name, text)
<1>1. p = Cut(full, PayloadLen)
  BY DEF Payload, Full
<1> HIDE DEF p, full
<1>2. full \in Text /\ Len(full) = Len(name) + 1 + Len(text)
  BY FullIs DEF full
<1>3. p \in Text /\ IsPrefix(p, full) /\ (Len(full) < PayloadLen => p = full)
  BY <1>1, <1>2, CutIs, CliAssumption
<1>4. Len(p) <= Len(full) /\ \A i \in 1 .. Len(p) : p[i] = full[i]
  BY <1>2, <1>3, PrefixIs
<1>5. Fits(name, text) => Len(full) < PayloadLen
  BY <1>2 DEF Fits
<1> QED BY <1>2, <1>3, <1>4, <1>5 DEF p, full

LEMMA SavedType ==
  ASSUME NEW name \in Text, NEW text \in Text, Colon(name, text) # 0
  PROVE  Key(name, text) \in Text /\ Value(name, text) \in Text
<1> DEFINE p == Payload(name, text)
           c == Colon(name, text)
<1>1. p \in Text /\ c \in 0 .. Len(p) /\ c # 0
  BY PayloadIs, FindType DEF Colon
<1> HIDE DEF p, c
<1>2. c - 1 \in 0 .. Len(p)
  BY <1>1 DEF Text
<1>3. SubSeq(p, 1, c - 1) \in Text /\ SubSeq(p, c + 1, Len(p)) \in Text
  BY <1>1, <1>2, FrontOf, RestOf
<1> QED BY <1>3 DEF p, c, Key, Value

(* A name without a colon is the snippet's name, or too long for a request. *)
LEMMA SavedPlain ==
  ASSUME NEW name \in Text, NEW text \in Text, Plain(name), Colon(name, text) # 0
  PROVE  /\ Key(name, text) = name
         /\ IsPrefix(Value(name, text), text)
         /\ Fits(name, text) => Value(name, text) = text
<1> DEFINE full == Full(name, text)
           p == Payload(name, text)
           n == Len(name)
           key == Key(name, text)
           value == Value(name, text)
           c == Colon(name, text)
<1>1. n \in Nat /\ Len(text) \in Nat
  BY DEF Text
<1>2. /\ \A i \in 1 .. n : full[i] = name[i]
      /\ full[n + 1] = ":" /\ Len(full) = n + 1 + Len(text)
      /\ \A i \in 1 .. Len(text) : full[(n + 1) + i] = text[i]
  <2>1. \A i \in 1 .. n : full[0 + i] = name[i] /\ 0 + i = i
    BY FullIs DEF InText
  <2>2. \A i \in 1 .. Len(text) : full[(n + 1) + i] = text[i]
    BY FullIs DEF InText
  <2> QED BY <2>1, <2>2, FullIs
<1>3. /\ p \in Text /\ Len(p) \in Nat /\ Len(p) <= n + 1 + Len(text)
      /\ \A i \in 1 .. Len(p) : p[i] = full[i]
      /\ Fits(name, text) => p = full
  BY PayloadIs, LenProperties DEF Text
<1>4. c \in 1 .. Len(p) /\ p[c] = ":" /\ c = Find(p, ":")
  <2>1. /\ Find(p, ":") \in 0 .. Len(p)
        /\ Find(p, ":") # 0 => p[Find(p, ":")] = ":"
    BY <1>3, FindType
  <2> HIDE DEF p
  <2> QED BY <1>3, <2>1 DEF Colon, p
<1> HIDE DEF full, p, n, c
<1>5. c = n + 1
  <2>1. \A i \in 1 .. n : full[i] # ":"
    BY <1>2, PlainIs DEF n
  <2>2. n < c
    <3>1. ~ (c \in 1 .. n)
      BY <1>3, <1>4, <2>1
    <3> QED BY <1>1, <1>3, <1>4, <3>1
  <2>3. n + 1 \in 1 .. Len(p) /\ n + 1 \in Nat /\ (n + 1) - 1 = n
    BY <1>1, <1>3, <1>4, <2>2
  <2>4. p[n + 1] = ":"
    BY <1>2, <1>3, <2>3
  <2>5. \A j \in 1 .. n : j \in 1 .. Len(p) /\ p[j] # ":"
    <3>1. \A j \in 1 .. n : j \in 1 .. Len(p)
      BY <1>1, <1>3, <2>3
    <3> QED BY <1>3, <2>1, <3>1
  <2>6. FirstAt(p, ":", n + 1)
    BY <2>3, <2>4, <2>5 DEF FirstAt
  <2> QED BY <1>3, <1>4, <2>3, <2>6, FindFirst
<1>6. key = SubSeq(p, 1, n) /\ value = SubSeq(p, (n + 1) + 1, Len(p))
  <2>1. (n + 1) - 1 = n
    BY <1>1
  <2> QED BY Zenon, <1>5, <2>1 DEF Key, Value, p, c
<1>7. n \in 0 .. Len(p) /\ n + 1 \in 0 .. Len(p)
  BY <1>1, <1>3, <1>4, <1>5
<1> HIDE DEF key, value
<1>8. key = name
  <2>1. key \in Text /\ Len(key) = n /\ \A i \in 1 .. n : key[i] = p[i]
    BY <1>3, <1>6, <1>7, FrontOf
  <2>2. \A i \in 1 .. n : i \in 1 .. Len(p)
    BY <1>3, <1>7
  <2>3. \A i \in 1 .. n : key[i] = name[i]
    BY <1>2, <1>3, <2>1, <2>2
  <2> QED BY <2>1, <2>3, SeqEqual DEF Text, n
<1>9. /\ value \in Text /\ Len(value) = Len(p) - (n + 1)
      /\ \A i \in 1 .. Len(p) - (n + 1) : value[i] = p[(n + 1) + i]
  BY <1>3, <1>6, <1>7, RestOf
<1>10. /\ Len(value) <= Len(text)
       /\ \A i \in 1 .. Len(value) : value[i] = text[i]
  <2>1. Len(value) <= Len(text) /\ Len(value) \in Nat
    BY <1>1, <1>3, <1>7, <1>9
  <2>2. ASSUME NEW i \in 1 .. Len(value) PROVE value[i] = text[i]
    <3>1. /\ i \in 1 .. Len(p) - (n + 1) /\ (n + 1) + i \in 1 .. Len(p)
          /\ i \in 1 .. Len(text)
      BY <1>1, <1>3, <1>7, <1>9, <2>1
    <3> QED BY <1>2, <1>3, <1>9, <3>1
  <2> QED BY <2>1, <2>2
<1>11. ASSUME Fits(name, text) PROVE value = text
  <2>1. Len(value) = Len(text)
    BY <1>1, <1>2, <1>3, <1>9, <1>11
  <2> QED BY <1>9, <1>10, <2>1, SeqEqual DEF Text
<1> QED BY <1>8, <1>9, <1>10, <1>11, PrefixIs DEF key, value

(* A request that is not cut has its colon. *)
LEMMA SavedFits ==
  ASSUME NEW name \in Text, NEW text \in Text, Fits(name, text)
  PROVE  Colon(name, text) # 0
<1> DEFINE full == Full(name, text)
           k == Len(name) + 1
<1>1. k \in 1 .. Len(full) /\ full[k] = ":" /\ full \in Text
  <2>1. Len(name) \in Nat /\ Len(text) \in Nat
    BY DEF Text
  <2>2. full \in Text /\ Len(full) = Len(name) + 1 + Len(text) /\ full[Len(name) + 1] = ":"
    BY FullIs
  <2> HIDE DEF full
  <2>3. k \in 1 .. Len(full)
    BY <2>1, <2>2
  <2> QED BY <2>2, <2>3
<1>2. Payload(name, text) = full
  BY PayloadIs
<1> HIDE DEF full, k
<1>3. Find(full, ":") = 0 => \A i \in 1 .. Len(full) : full[i] # ":"
  BY <1>1, FindType
<1> QED BY <1>1, <1>2, <1>3 DEF Colon

-----------------------------------------------------------------------------
(* Types                                                                   *)

Rows(n) == [id: 1 .. n, content: Text, type: Types, pinned: BOOLEAN]

RowsOK ==
  /\ seq \in 0 .. MaxRows /\ DOMAIN rows \subseteq 1 .. seq
  /\ rows \in [DOMAIN rows -> Rows(seq)]
  /\ \A i \in DOMAIN rows : rows[i].id = i

SnippetsOK ==
  /\ DOMAIN snippets \subseteq Text /\ snippets \in [DOMAIN snippets -> Text]
  /\ IsFiniteSet(DOMAIN snippets)

SavedOK ==
  /\ DOMAIN saved \subseteq Names /\ saved \in [DOMAIN saved -> Text]
  /\ saves \in Nat

LEMMA TypeParts ==
  TypeInv <=> /\ clipboard \in Text /\ last_content \in Text
              /\ RowsOK /\ SnippetsOK /\ SavedOK
BY DEF TypeInv, CliTypeOK, RowsOK, Rows, SnippetsOK, SavedOK

LEMMA TypeStarts == CliInit => TypeInv
<1> SUFFICES ASSUME CliInit PROVE TypeInv
  OBVIOUS
<1>1. <<>> \in Text /\ DOMAIN <<>> = {} /\ IsFiniteSet({}) /\ MaxRows \in Nat
  BY FS_EmptySet, CliAssumption DEF Text
<1>2. \A S : <<>> \in [{} -> S]
  OBVIOUS
<1>3. RowsOK
  BY <1>1, <1>2 DEF CliInit, RowsOK
<1>4. SnippetsOK /\ SavedOK
  BY <1>1, <1>2 DEF CliInit, SnippetsOK, SavedOK
<1> QED BY <1>1, <1>3, <1>4, TypeParts DEF CliInit

LEMMA PutIs ==
  ASSUME NEW f, NEW x, NEW y
  PROVE  /\ DOMAIN Put(f, x, y) = DOMAIN f \cup {x} /\ Put(f, x, y)[x] = y
         /\ \A z \in DOMAIN f : z # x => Put(f, x, y)[z] = f[z]
         /\ IsFiniteSet(DOMAIN f) => IsFiniteSet(DOMAIN Put(f, x, y))
<1>1. DOMAIN Put(f, x, y) = DOMAIN f \cup {x}
  BY DEF Put
<1>2. IsFiniteSet(DOMAIN f) => IsFiniteSet(DOMAIN f \cup {x})
  BY FS_AddElement
<1> QED BY <1>1, <1>2 DEF Put

LEMMA PutType ==
  ASSUME NEW S, NEW f, f \in [DOMAIN f -> S], NEW x, NEW y \in S
  PROVE  Put(f, x, y) \in [DOMAIN Put(f, x, y) -> S]
BY DEF Put

LEMMA DetectTypeIs == \A text : DetectType(text) \in Types
BY Zenon DEF DetectType, Types

(* The rows a command keeps, and their contents, are those there were.      *)
LEMMA RowsKept ==
  ASSUME RowsOK, seq' = seq, NEW S \in SUBSET DOMAIN rows, rows' = Restrict(rows, S)
  PROVE  RowsOK' /\ DOMAIN rows' \subseteq DOMAIN rows
         /\ \A i \in DOMAIN rows' : rows'[i].content = rows[i].content
<1>1. DOMAIN rows' = S /\ \A i \in S : rows'[i] = rows[i] /\ rows[i] \in Rows(seq)
  BY DEF Restrict, RowsOK
<1>2. rows' \in [S -> Rows(seq)]
  BY <1>1 DEF Restrict
<1> QED BY <1>1, <1>2 DEF RowsOK, Rows

LEMMA RowsPinned ==
  ASSUME RowsOK, seq' = seq, NEW i \in DOMAIN rows, NEW pin \in BOOLEAN,
         rows' = [rows EXCEPT ![i].pinned = pin]
  PROVE  RowsOK' /\ DOMAIN rows' \subseteq DOMAIN rows
         /\ \A j \in DOMAIN rows' : rows'[j].content = rows[j].content
<1> DEFINE r == [rows[i] EXCEPT !.pinned = pin]
<1>1. rows[i] \in Rows(seq) /\ rows[i].id = i
  BY DEF RowsOK
<1>2. r \in Rows(seq) /\ r.id = i /\ r.content = rows[i].content
  BY <1>1 DEF Rows
<1>3. rows' = [rows EXCEPT ![i] = r]
  OBVIOUS
<1> HIDE DEF r
<1>4. /\ DOMAIN rows' = DOMAIN rows /\ rows'[i] = r
      /\ \A j \in DOMAIN rows : j # i => rows'[j] = rows[j]
  BY <1>3 DEF RowsOK
<1>5. rows' \in [DOMAIN rows -> Rows(seq)]
  BY <1>2, <1>3 DEF RowsOK
<1>6. \A j \in DOMAIN rows : rows'[j].id = j /\ rows'[j].content = rows[j].content
  BY <1>2, <1>4 DEF RowsOK
<1> QED BY <1>4, <1>5, <1>6 DEF RowsOK, Rows

(* A capture adds one row at most, and this has the text that was stripped. *)
LEMMA RowCaptured ==
  ASSUME TypeInv, Capture
  PROVE  /\ RowsOK' /\ last_content' \in Text
         /\ \A i \in DOMAIN rows' :
              \/ i \in DOMAIN rows /\ rows'[i].content = rows[i].content
              \/ rows'[i].content = Strip(clipboard)
         /\ seq' # seq => rows'[seq'].type = DetectType(Strip(clipboard))
<1> DEFINE text == Strip(clipboard)
           row == [id |-> seq', content |-> text, type |-> DetectType(text), pinned |-> FALSE]
<1>1. RowsOK /\ clipboard \in Text
  BY TypeParts
<1>2. text \in Text /\ DetectType(text) \in Types
  BY <1>1, StripIs, DetectTypeIs
<1>3. last_content' = text
  BY DEF Capture
<1>4. CASE UNCHANGED <<rows, seq>>
  BY <1>1, <1>2, <1>3, <1>4 DEF RowsOK, Rows
<1>5. CASE seq < MaxRows /\ seq' = seq + 1 /\ rows' = Put(rows, seq', row)
  <2>1. /\ seq \in Nat /\ seq' \in 0 .. MaxRows /\ seq' \in 1 .. seq'
        /\ DOMAIN rows \subseteq 1 .. seq /\ 1 .. seq \subseteq 1 .. seq' /\ seq' # seq
    BY <1>1, <1>5, CliAssumption DEF RowsOK
  <2>2. Rows(seq) \subseteq Rows(seq')
    BY <2>1 DEF Rows
  <2>3. row \in Rows(seq') /\ row.id = seq' /\ row.content = text
        /\ row.type = DetectType(text)
    BY <1>2, <2>1 DEF Rows
  <2> HIDE DEF row
  <2>4. rows \in [DOMAIN rows -> Rows(seq')]
    BY <1>1, <2>2 DEF RowsOK
  <2>5. /\ DOMAIN rows' = DOMAIN rows \cup {seq'} /\ rows'[seq'] = row
        /\ \A z \in DOMAIN rows : z # seq' => rows'[z] = rows[z]
        /\ rows' \in [DOMAIN rows' -> Rows(seq')]
    <3>1. /\ DOMAIN Put(rows, seq', row) = DOMAIN rows \cup {seq'}
          /\ Put(rows, seq', row)[seq'] = row
          /\ \A z \in DOMAIN rows : z # seq' => Put(rows, seq', row)[z] = rows[z]
      BY DEF Put
    <3>2. Put(rows, seq', row) \in [DOMAIN Put(rows, seq', row) -> Rows(seq')]
      BY <2>3, <2>4, PutType
    <3> QED BY <1>5, <3>1, <3>2
  <2>6. \A i \in DOMAIN rows' : rows'[i].id = i
    BY <1>1, <2>3, <2>5 DEF RowsOK
  <2>7. RowsOK'
    BY <2>1, <2>5, <2>6 DEF RowsOK, Rows
  <2> QED BY <1>2, <1>3, <2>3, <2>5, <2>7
<1> QED BY <1>4, <1>5 DEF Capture

LEMMA SnippetsSaved ==
  ASSUME TypeInv, NEW name \in Text, Save(name)
  PROVE  /\ SnippetsOK' /\ clipboard' = clipboard
         /\ saved' = Put(saved, name, clipboard)
         /\ Colon(name, clipboard) = 0 => snippets' = snippets
         /\ Colon(name, clipboard) # 0 =>
              snippets' = Put(snippets, Key(name, clipboard), Value(name, clipboard))
<1> DEFINE c == Colon(name, clipboard)
           k == Key(name, clipboard)
           v == Value(name, clipboard)
<1>1. clipboard \in Text /\ SnippetsOK
  BY TypeParts
<1>2. snippets' = IF c = 0 THEN snippets ELSE Put(snippets, k, v)
  BY DEF Save, Colon, Payload, Key, Value
<1>3. saved' = Put(saved, name, clipboard) /\ clipboard' = clipboard
  BY DEF Save
<1>4. c # 0 => k \in Text /\ v \in Text
  BY <1>1, SavedType
<1> HIDE DEF c, k, v
<1>5. CASE c = 0
  BY <1>1, <1>2, <1>3, <1>5 DEF SnippetsOK, c
<1>6. CASE c # 0
  <2>1. k \in Text /\ v \in Text /\ snippets' = Put(snippets, k, v)
    BY <1>2, <1>4, <1>6
  <2>2. /\ DOMAIN snippets' = DOMAIN snippets \cup {k}
        /\ snippets' \in [DOMAIN snippets' -> Text]
        /\ IsFiniteSet(DOMAIN snippets')
    BY Zenon, <1>1, <2>1, PutIs, PutType DEF SnippetsOK
  <2>3. SnippetsOK'
    BY <1>1, <2>1, <2>2 DEF SnippetsOK
  <2> QED BY <1>3, <1>6, <2>1, <2>3 DEF c, k, v
<1> QED BY <1>5, <1>6

(* What y copies is the content of a row.                                   *)
LEMMA YankIs ==
  ASSUME CliTypeOK, Yank
  PROVE  \E i \in DOMAIN rows : clipboard' = rows[i].content
<1>1. MaxRows \in Nat
  BY CliAssumption
<1>2. PICK m \in 0 .. Len(NewestFirst) :
        /\ DOMAIN Shown(MaxRows) = 1 .. m
        /\ \A k \in 1 .. m :
             /\ NewestFirst[k] \in DOMAIN rows
             /\ Faithful(Shown(MaxRows)[k], rows[NewestFirst[k]])
  BY Zenon, <1>1, ShownIs
<1>3. PICK item \in ToSet(Shown(MaxRows)) : clipboard' = item.content
  BY DEF Yank
<1>4. PICK k \in 1 .. m : item = Shown(MaxRows)[k]
  BY <1>2, <1>3 DEF ToSet
<1>5. item.content = rows[NewestFirst[k]].content
  BY <1>2, <1>4 DEF Faithful
<1> QED BY <1>2, <1>3, <1>5

(* The tables hold items of the five types and texts.                       *)
LEMMA TypeStep == TypeInv /\ [CliNext]_vars => TypeInv'
<1> SUFFICES ASSUME TypeInv, [CliNext]_vars PROVE TypeInv'
  OBVIOUS
<1>0. /\ clipboard \in Text /\ last_content \in Text
      /\ RowsOK /\ SnippetsOK /\ SavedOK /\ Texts \subseteq Text /\ Names \subseteq Text
  BY TypeParts, CliAssumption
<1>a. UNCHANGED <<rows, seq>> => RowsOK'
  BY <1>0 DEF RowsOK, Rows
<1>b. UNCHANGED snippets => SnippetsOK'
  BY <1>0 DEF SnippetsOK
<1>c. UNCHANGED <<saved, saves>> => SavedOK'
  BY <1>0 DEF SavedOK
<1>d. TypeInv' <=> /\ clipboard' \in Text /\ last_content' \in Text
                   /\ RowsOK' /\ SnippetsOK' /\ SavedOK'
  BY DEF TypeInv, CliTypeOK, RowsOK, Rows, SnippetsOK, SavedOK
<1>1. ASSUME NEW text \in Texts, Copy(text) PROVE TypeInv'
  BY <1>0, <1>1, <1>a, <1>b, <1>c, <1>d DEF Copy
<1>2. CASE Capture
  BY <1>0, <1>2, <1>b, <1>c, <1>d, RowCaptured DEF Capture
<1>3. ASSUME NEW arg \in Names, GetItem(arg) PROVE TypeInv'
  <2>1. PICK i \in DOMAIN rows : clipboard' = Cut(rows[i].content, DataLen)
    BY <1>3 DEF GetItem
  <2>2. clipboard' \in Text
    BY <2>1, RowsAre, CutIs, CliAssumption DEF TypeInv
  <2> QED BY <1>0, <1>3, <1>a, <1>b, <1>c, <1>d, <2>2 DEF GetItem
<1>4. ASSUME NEW arg \in Names, GetSnippet(arg) PROVE TypeInv'
  <2>1. clipboard' \in Text
    BY <1>4, LookupType DEF GetSnippet
  <2> QED BY <1>0, <1>4, <1>a, <1>b, <1>c, <1>d, <2>1 DEF GetSnippet
<1>5. ASSUME NEW arg \in Names, Save(arg) PROVE TypeInv'
  <2>1. SnippetsOK' /\ saved' = Put(saved, arg, clipboard) /\ clipboard' = clipboard
    BY <1>0, <1>5, SnippetsSaved
  <2>2. SavedOK'
    <3>1. saves' \in Nat
      BY <1>0, <1>5 DEF Save, SavedOK
    <3>2. /\ DOMAIN saved' = DOMAIN saved \cup {arg}
          /\ saved' \in [DOMAIN saved' -> Text]
      BY Zenon, <1>0, <2>1, PutIs, PutType DEF SavedOK
    <3> QED BY <1>0, <3>1, <3>2 DEF SavedOK
  <2>3. last_content' = last_content /\ UNCHANGED <<rows, seq>>
    BY <1>5 DEF Save
  <2> QED BY <1>0, <1>a, <1>d, <2>1, <2>2, <2>3
<1>6. CASE Yank
  <2>1. clipboard' \in Text
    BY <1>6, YankIs, RowsAre DEF TypeInv
  <2> QED BY <1>0, <1>6, <1>a, <1>b, <1>c, <1>d, <2>1 DEF Yank
<1>7. ASSUME NEW i \in DOMAIN rows, Delete(i) PROVE TypeInv'
  <2>1. RowsOK'
    BY <1>0, <1>7, RowsKept DEF Delete
  <2> QED BY <1>0, <1>7, <1>b, <1>c, <1>d, <2>1 DEF Delete
<1>8. ASSUME NEW i \in DOMAIN rows, NEW pin \in BOOLEAN, Pin(i, pin) PROVE TypeInv'
  <2>1. RowsOK'
    BY Zenon, <1>0, <1>8, RowsPinned DEF Pin
  <2> QED BY <1>0, <1>8, <1>b, <1>c, <1>d, <2>1 DEF Pin
<1>9. ASSUME NEW answer \in {"y", "Y", "n"}, Clear(answer) PROVE TypeInv'
  <2> DEFINE S == {i \in DOMAIN rows : rows[i].pinned}
  <2>1. S \in SUBSET DOMAIN rows /\ rows' = Restrict(rows, S) /\ seq' = seq
    BY <1>9 DEF Clear
  <2> HIDE DEF S
  <2>2. RowsOK'
    BY <1>0, <2>1, RowsKept
  <2> QED BY <1>0, <1>9, <1>b, <1>c, <1>d, <2>2 DEF Clear
<1>10. CASE UNCHANGED vars
  BY <1>0, <1>10, <1>a, <1>b, <1>c, <1>d DEF vars
<1> QED BY <1>1, <1>2, <1>3, <1>4, <1>5, <1>6, <1>7, <1>8, <1>9, <1>10 DEF CliNext

LEMMA TypeInvariant == CliSpec => []TypeInv
<1> QED BY TypeStarts, TypeStep, PTL DEF CliSpec

(* The tables hold items of the five types under their own numbers, and the *)
(* clipboard, the watcher and the snippets hold texts.                      *)
THEOREM CliTypesCorrect == CliSpec => []CliTypeOK
<1>1. TypeInv => CliTypeOK
  BY DEF TypeInv
<1> QED BY <1>1, TypeInvariant, PTL

(* list, search and the browser show the newest rows as they are: whole     *)
(* items or none, wherever the Response was cut.                            *)
THEOREM ListingsAreTruthful == CliSpec => []ListingTruthful
<1>1. TypeInv => ListingTruthful
  BY TypeImpliesListing DEF TypeInv
<1> QED BY <1>1, TypeInvariant, PTL

-----------------------------------------------------------------------------
(* Snippets                                                                *)

AllPlain == \A n \in DOMAIN saved : Plain(n)

(* While all names were plain the snippets are some of those saved, and     *)
(* those whose text fits a request have it.                                 *)
SavedInv ==
  AllPlain =>
    /\ DOMAIN snippets \subseteq DOMAIN saved
    /\ \A n \in DOMAIN saved : Fits(n, saved[n]) =>
         n \in DOMAIN snippets /\ snippets[n] = saved[n]

LEMMA SavedStarts == CliInit => SavedInv
BY DEF CliInit, SavedInv

LEMMA SavedStep == TypeInv /\ SavedInv /\ [CliNext]_vars => SavedInv'
<1> SUFFICES ASSUME TypeInv, SavedInv, [CliNext]_vars PROVE SavedInv'
  OBVIOUS
<1>1. ASSUME UNCHANGED <<snippets, saved>> PROVE SavedInv'
  BY <1>1 DEF SavedInv, AllPlain
<1>2. ASSUME NEW arg \in Names, Save(arg) PROVE SavedInv'
  <2> DEFINE c == Colon(arg, clipboard)
             v == Value(arg, clipboard)
  <2>1. arg \in Text /\ clipboard \in Text
    BY TypeParts, CliAssumption
  <2>2. /\ saved' = Put(saved, arg, clipboard)
        /\ c = 0 => snippets' = snippets
        /\ c # 0 => snippets' = Put(snippets, Key(arg, clipboard), v)
    BY <1>2, <2>1, SnippetsSaved
  <2>3. /\ DOMAIN saved' = DOMAIN saved \cup {arg} /\ saved'[arg] = clipboard
        /\ \A n \in DOMAIN saved : n # arg => saved'[n] = saved[n]
    BY <2>2 DEF Put
  <2> SUFFICES ASSUME AllPlain'
               PROVE  /\ DOMAIN snippets' \subseteq DOMAIN saved'
                      /\ \A n \in DOMAIN saved' : Fits(n, saved'[n]) =>
                           n \in DOMAIN snippets' /\ snippets'[n] = saved'[n]
    BY DEF SavedInv
  <2>4. AllPlain /\ Plain(arg)
    BY <2>3 DEF AllPlain
  <2>5. /\ DOMAIN snippets \subseteq DOMAIN saved
        /\ \A n \in DOMAIN saved : Fits(n, saved[n]) =>
             n \in DOMAIN snippets /\ snippets[n] = saved[n]
    BY <2>4 DEF SavedInv
  <2>6. Fits(arg, clipboard) => c # 0
    BY <2>1, SavedFits
  <2>7. c # 0 => Key(arg, clipboard) = arg /\ (Fits(arg, clipboard) => v = clipboard)
    BY <2>1, <2>4, SavedPlain
  <2> HIDE DEF c, v
  <2>8. CASE c = 0
    <3>1. snippets' = snippets /\ ~ Fits(arg, clipboard)
      BY <2>2, <2>6, <2>8
    <3> QED BY <2>3, <2>5, <3>1
  <2>9. CASE c # 0
    <3>1. snippets' = Put(snippets, arg, v)
      BY <2>2, <2>7, <2>9
    <3>2. /\ DOMAIN snippets' = DOMAIN snippets \cup {arg} /\ snippets'[arg] = v
          /\ \A n \in DOMAIN snippets : n # arg => snippets'[n] = snippets[n]
      BY <3>1 DEF Put
    <3> QED BY <2>3, <2>5, <2>7, <2>9, <3>2
  <2> QED BY <2>8, <2>9
<1>3. ASSUME NEW text \in Texts, Copy(text) PROVE SavedInv'
  BY <1>1, <1>3 DEF Copy
<1>4. CASE Capture
  BY <1>1, <1>4 DEF Capture
<1>5. ASSUME NEW arg \in Names, GetItem(arg) \/ GetSnippet(arg) PROVE SavedInv'
  BY <1>1, <1>5 DEF GetItem, GetSnippet
<1>6. CASE Yank
  BY <1>1, <1>6 DEF Yank
<1>7. ASSUME NEW i \in DOMAIN rows, NEW pin \in BOOLEAN, Delete(i) \/ Pin(i, pin)
      PROVE  SavedInv'
  BY <1>1, <1>7 DEF Delete, Pin
<1>8. ASSUME NEW answer \in {"y", "Y", "n"}, Clear(answer) PROVE SavedInv'
  BY <1>1, <1>8 DEF Clear
<1>9. CASE UNCHANGED vars
  BY <1>1, <1>9 DEF vars
<1> QED BY Zenon, <1>2, <1>3, <1>4, <1>5, <1>6, <1>7, <1>8, <1>9 DEF CliNext

LEMMA SavedInvariant == CliSpec => [](TypeInv /\ SavedInv)
<1>1. CliInit => TypeInv /\ SavedInv
  BY TypeStarts, SavedStarts
<1>2. TypeInv /\ SavedInv /\ [CliNext]_vars => (TypeInv /\ SavedInv)'
  BY TypeStep, SavedStep
<1> QED BY <1>1, <1>2, PTL DEF CliSpec

LEMMA SnippetsAnswered == TypeInv /\ SavedInv => SnippetsComeBack
<1> SUFFICES ASSUME TypeInv, SavedInv,
                    \A n \in DOMAIN saved : Plain(n) /\ Fits(n, saved[n]),
                    NEW n \in DOMAIN saved
             PROVE  \/ Lookup(n) = saved[n]
                    \/ Lookup(n) = <<>> /\ Len(SnippetsJson) >= DataLen
  BY DEF SnippetsComeBack
<1>1. AllPlain
  BY DEF AllPlain
<1>2. DOMAIN snippets \subseteq DOMAIN saved /\ n \in DOMAIN snippets /\ snippets[n] = saved[n]
  BY <1>1 DEF SavedInv
<1>3. \A s \in DOMAIN snippets : Plain(s)
  BY <1>2
<1>4. \/ Lookup(n) = snippets[n]
      \/ Lookup(n) = <<>> /\ ~ (Len(SnippetsJson) < DataLen)
  BY <1>2, <1>3, SnippetFound
<1>5. Len(SnippetsJson) \in Nat /\ DataLen \in Nat
  BY SnippetObjectsAre, CliAssumption DEF Text
<1> QED BY <1>2, <1>4, <1>5

(* What was saved under a name is what get finds under it, or nothing.      *)
THEOREM SnippetsDoComeBack == CliSpec => []SnippetsComeBack
<1> QED BY SavedInvariant, SnippetsAnswered, PTL

-----------------------------------------------------------------------------
(* Texts                                                                   *)

(* What the user copied, but for what is cut off at its end.                *)
Original(t) == \E text \in Texts \cup {<<>>} : IsPrefix(t, text)

TextsInv ==
  AllPlain => /\ Original(clipboard)
              /\ \A i \in DOMAIN rows : Original(rows[i].content)
              /\ \A n \in DOMAIN snippets : Original(snippets[n])

LEMMA CopiedText == Texts \cup {<<>>} \subseteq Text
<1>1. <<>> \in Text
  BY DEF Text
<1> QED BY <1>1, CliAssumption

LEMMA OriginalPrefix ==
  ASSUME NEW s \in Text, NEW t \in Text, IsPrefix(s, t), Original(t)
  PROVE  Original(s)
<1>1. PICK text \in Texts \cup {<<>>} : IsPrefix(t, text)
  BY DEF Original
<1>2. text \in Text
  BY CopiedText
<1>3. IsPrefix(s, text)
  BY <1>1, <1>2, PrefixOfPrefix
<1> QED BY <1>3 DEF Original

LEMMA OriginalText == \A text \in Texts \cup {<<>>} : Original(text)
<1> SUFFICES ASSUME NEW text \in Texts \cup {<<>>} PROVE IsPrefix(text, text)
  BY DEF Original
<1>1. text \in Text /\ Len(text) \in Nat
  BY CopiedText, LenProperties DEF Text
<1> QED BY <1>1, PrefixIs

LEMMA TextsStart == CliInit => TextsInv
BY OriginalText DEF CliInit, TextsInv

LEMMA TextsStep == TypeInv /\ SavedInv /\ TextsInv /\ [CliNext]_vars => TextsInv'
<1> SUFFICES ASSUME TypeInv, SavedInv, TextsInv, [CliNext]_vars, AllPlain'
             PROVE  /\ Original(clipboard')
                    /\ \A i \in DOMAIN rows' : Original(rows'[i].content)
                    /\ \A n \in DOMAIN snippets' : Original(snippets'[n])
  BY DEF TextsInv, Original
<1>0. /\ clipboard \in Text /\ Texts \subseteq Text /\ Names \subseteq Text
      /\ RowsOK /\ SnippetsOK
  BY TypeParts, CliAssumption
<1>1. AllPlain
  <2>1. DOMAIN saved \subseteq DOMAIN saved'
    <3>1. \A name \in Names : Save(name) => DOMAIN saved \subseteq DOMAIN saved'
      BY DEF Save, Put
    <3>2. ~ (\E name \in Names : Save(name)) => saved' = saved
      BY Zenon DEF CliNext, Copy, Capture, GetItem, GetSnippet, Yank, Delete, Pin, Clear, vars
    <3> QED BY <3>1, <3>2
  <2> QED BY <2>1 DEF AllPlain
<1>2. /\ Original(clipboard)
      /\ \A i \in DOMAIN rows : Original(rows[i].content)
      /\ \A n \in DOMAIN snippets : Original(snippets[n])
  BY <1>1 DEF TextsInv
<1>3. ASSUME NEW text \in Texts, Copy(text) PROVE Original(clipboard') /\ UNCHANGED <<rows, snippets>>
  BY <1>3, OriginalText DEF Copy
<1>4. ASSUME Capture
      PROVE  UNCHANGED <<clipboard, snippets>>
             /\ \A i \in DOMAIN rows' : Original(rows'[i].content)
  <2>1. Original(Strip(clipboard))
    BY <1>0, <1>2, StripIs, OriginalPrefix
  <2>2. \A i \in DOMAIN rows' :
              \/ i \in DOMAIN rows /\ rows'[i].content = rows[i].content
              \/ rows'[i].content = Strip(clipboard)
    BY <1>4, RowCaptured
  <2>3. UNCHANGED <<clipboard, snippets>>
    BY <1>4 DEF Capture
  <2> QED BY <1>2, <2>1, <2>2, <2>3
<1>5. ASSUME NEW arg \in Names, GetItem(arg) PROVE Original(clipboard') /\ UNCHANGED <<rows, snippets>>
  <2>1. PICK i \in DOMAIN rows : clipboard' = Cut(rows[i].content, DataLen)
    BY <1>5 DEF GetItem
  <2> DEFINE t == rows[i].content
  <2>2. t \in Text /\ Original(t)
    BY <1>2, RowsAre DEF TypeInv
  <2> HIDE DEF t
  <2>3. Cut(t, DataLen) \in Text /\ IsPrefix(Cut(t, DataLen), t)
    BY <2>2, CutIs, CliAssumption
  <2>4. Original(Cut(t, DataLen))
    BY <2>2, <2>3, OriginalPrefix
  <2> QED BY <1>5, <2>1, <2>4 DEF GetItem, t
<1>6. ASSUME NEW arg \in Names, GetSnippet(arg)
      PROVE  Original(clipboard') /\ UNCHANGED <<rows, snippets>>
  <2>1. \A n \in DOMAIN snippets : Plain(n)
    BY <1>1 DEF SavedInv, AllPlain
  <2>2. clipboard' = Lookup(arg) /\ clipboard' # <<>>
    BY <1>6 DEF GetSnippet
  <2>3. arg \in DOMAIN snippets /\ clipboard' = snippets[arg]
    BY <2>1, <2>2, SnippetFound
  <2> QED BY <1>2, <1>6, <2>3 DEF GetSnippet
<1>7. ASSUME NEW arg \in Names, Save(arg)
      PROVE  UNCHANGED <<clipboard, rows>> /\ \A n \in DOMAIN snippets' : Original(snippets'[n])
  <2> DEFINE c == Colon(arg, clipboard)
             v == Value(arg, clipboard)
             k == Key(arg, clipboard)
  <2>1. arg \in Text
    BY <1>0
  <2>2. /\ saved' = Put(saved, arg, clipboard)
        /\ c = 0 => snippets' = snippets
        /\ c # 0 => snippets' = Put(snippets, k, v)
    BY <1>7, <2>1, SnippetsSaved
  <2>3. Plain(arg)
    BY <2>2 DEF AllPlain, Put
  <2>4. c # 0 => v \in Text /\ IsPrefix(v, clipboard)
    BY <1>0, <2>1, <2>3, SavedType, SavedPlain
  <2> HIDE DEF c, v, k
  <2>5. c # 0 => Original(v)
    BY <1>0, <1>2, <2>4, OriginalPrefix
  <2>6. CASE c = 0
    BY <1>2, <1>7, <2>2, <2>6 DEF Save
  <2>7. CASE c # 0
    <3>1. \A n \in DOMAIN snippets' :
            \/ n = k /\ snippets'[n] = v
            \/ n \in DOMAIN snippets /\ snippets'[n] = snippets[n]
      BY <2>2, <2>7 DEF Put
    <3> QED BY <1>2, <1>7, <2>5, <2>7, <3>1 DEF Save
  <2> QED BY <2>6, <2>7
<1>8. ASSUME Yank PROVE Original(clipboard') /\ UNCHANGED <<rows, snippets>>
  <2>1. \E i \in DOMAIN rows : clipboard' = rows[i].content
    BY <1>8, YankIs DEF TypeInv
  <2> QED BY <1>2, <1>8, <2>1 DEF Yank
<1>9. ASSUME DOMAIN rows' \subseteq DOMAIN rows,
             \A i \in DOMAIN rows' : rows'[i].content = rows[i].content
      PROVE  \A i \in DOMAIN rows' : Original(rows'[i].content)
  BY <1>2, <1>9
<1>10. ASSUME NEW i \in DOMAIN rows, Delete(i)
       PROVE  UNCHANGED <<clipboard, snippets>>
              /\ \A j \in DOMAIN rows' : Original(rows'[j].content)
  BY Zenon, <1>0, <1>9, <1>10, RowsKept DEF Delete
<1>11. ASSUME NEW i \in DOMAIN rows, NEW pin \in BOOLEAN, Pin(i, pin)
       PROVE  UNCHANGED <<clipboard, snippets>>
              /\ \A j \in DOMAIN rows' : Original(rows'[j].content)
  BY <1>0, <1>9, <1>11, RowsPinned DEF Pin
<1>12. ASSUME NEW answer \in {"y", "Y", "n"}, Clear(answer)
       PROVE  UNCHANGED <<clipboard, snippets>>
              /\ \A j \in DOMAIN rows' : Original(rows'[j].content)
  <2> DEFINE S == {i \in DOMAIN rows : rows[i].pinned}
  <2>1. S \in SUBSET DOMAIN rows /\ rows' = Restrict(rows, S) /\ seq' = seq
    BY <1>12 DEF Clear
  <2> HIDE DEF S
  <2>2. /\ DOMAIN rows' \subseteq DOMAIN rows
        /\ \A i \in DOMAIN rows' : rows'[i].content = rows[i].content
    BY <1>0, <2>1, RowsKept
  <2> QED BY <1>9, <1>12, <2>2 DEF Clear
<1>13. CASE UNCHANGED vars
  BY <1>2, <1>13 DEF vars
<1> QED BY <1>2, <1>3, <1>4, <1>5, <1>6, <1>7, <1>8, <1>10, <1>11, <1>12, <1>13 DEF CliNext

LEMMA TextsInvariant == CliSpec => [](TypeInv /\ SavedInv /\ TextsInv)
<1>1. CliInit => TypeInv /\ SavedInv /\ TextsInv
  BY TypeStarts, SavedStarts, TextsStart
<1>2. TypeInv /\ SavedInv /\ TextsInv /\ [CliNext]_vars => (TypeInv /\ SavedInv /\ TextsInv)'
  BY TypeStep, SavedStep, TextsStep
<1> QED BY <1>1, <1>2, PTL DEF CliSpec

(* What reaches the clipboard or the history is what the user copied, but   *)
(* for what is cut off at its end.                                          *)
THEOREM TextsDoSurvive == CliSpec => []TextsSurvive
<1>1. TextsInv => TextsSurvive
  BY DEF TextsInv, TextsSurvive, AllPlain, Original
<1> QED BY <1>1, TextsInvariant, PTL

-----------------------------------------------------------------------------
(* Secrets                                                                 *)

LEMMA SuffixIs ==
  ASSUME NEW s \in Text, NEW t \in Text, Len(s) <= Len(t),
         \A i \in 1 .. Len(s) : s[(Len(s) - i) + 1] = t[(Len(t) - i) + 1]
  PROVE  IsSuffix(s, t)
<1>1. ASSUME NEW u \in Text
      PROVE  /\ Reverse(u) \in Text /\ Len(Reverse(u)) = Len(u)
             /\ \A i \in 1 .. Len(u) : Reverse(u)[i] = u[(Len(u) - i) + 1]
  <2>1. Len(u) \in Nat /\ \A i \in 1 .. Len(u) : (Len(u) - i) + 1 \in 1 .. Len(u)
    BY DEF Text
  <2>2. \A i \in 1 .. Len(u) : u[(Len(u) - i) + 1] \in Chars
    BY <2>1 DEF Text
  <2> DEFINE back(i) == u[(Len(u) - i) + 1]
  <2>3. Reverse(u) = [i \in 1 .. Len(u) |-> back(i)]
    BY DEF Reverse
  <2>4. \A i \in 1 .. Len(u) : Reverse(u)[i] = back(i)
    BY <2>3
  <2>5. \A i \in 1 .. Len(u) : back(i) \in Chars
    BY <2>2
  <2> HIDE DEF back
  <2>6. Reverse(u) \in Seq(Chars) /\ Len(Reverse(u)) = Len(u)
    BY <2>1, <2>3, <2>5
  <2> QED BY <2>4, <2>6 DEF back, Text
<1>2. Len(s) \in Nat /\ Len(t) \in Nat
  BY DEF Text
<1> DEFINE rs == Reverse(s)
           rt == Reverse(t)
<1>3. /\ rs \in Text /\ rt \in Text /\ Len(rs) = Len(s) /\ Len(rt) = Len(t)
      /\ \A i \in 1 .. Len(s) : rs[i] = s[(Len(s) - i) + 1]
      /\ \A i \in 1 .. Len(t) : rt[i] = t[(Len(t) - i) + 1]
  BY <1>1
<1> HIDE DEF rs, rt
<1>4. \A i \in 1 .. Len(s) : i \in 1 .. Len(t)
  BY <1>2
<1>5. IsPrefix(rs, rt)
  <2>1. Len(rs) <= Len(rt) /\ \A i \in 1 .. Len(rs) : rs[i] = rt[i]
    BY <1>3, <1>4
  <2> QED BY <1>3, <2>1, PrefixIs
<1> QED BY <1>5 DEF IsSuffix, rs, rt

(* What is stripped of a text that ends at l but for white space.           *)
LEMMA StripsTo ==
  ASSUME NEW text \in Text, NEW l \in 1 .. Len(text), text[l] \notin White,
         \A k \in l + 1 .. Len(text) : text[k] \in White
  PROVE  Strip(text) = SubSeq(text, 1, l)
<1> DEFINE I == {i \in 1 .. Len(text) : text[i] \notin White}
           end == IF I # {} THEN Max(I) ELSE 0
<1>1. Strip(text) = SubSeq(text, 1, end)
  BY DEF Strip, SelectLastInSeq
<1>2. Len(text) \in Nat
  BY DEF Text
<1>3. l \in I /\ I \in SUBSET (1 .. Len(text))
  OBVIOUS
<1>4. \A j \in I : j <= l /\ j \in Nat
  <2> TAKE j \in I
  <2>1. j \in 1 .. Len(text) /\ ~ (j \in l + 1 .. Len(text))
    OBVIOUS
  <2> QED BY <1>2, <2>1
<1> HIDE DEF I
<1>5. Max(I) = l
  <2>1. l \in I /\ \A j \in I : l >= j
    BY <1>3, <1>4
  <2>2. Max(I) \in I /\ \A j \in I : Max(I) >= j
    BY Zenon, <2>1 DEF Max
  <2> DEFINE m == Max(I)
  <2>3. m \in Nat /\ m <= l /\ m >= l /\ l \in Nat
    BY Zenon, <1>2, <1>3, <1>4, <2>2
  <2> HIDE DEF m
  <2>4. m = l
    BY <2>3
  <2> QED BY <2>4 DEF m
<1> QED BY <1>1, <1>3, <1>5

Padding(m) == [i \in 1 .. m |-> "="]

LEMMA PaddingIs ==
  ASSUME NEW m \in 0 .. 2
  PROVE  /\ Padding(m) \in {<<>>, <<"=">>, <<"=", "=">>} /\ Len(Padding(m)) = m
         /\ \A i \in 1 .. m : Padding(m)[i] = "="
         /\ ("=" \in Chars \/ m = 0) => Padding(m) \in Text
<1>1. \A i \in 1 .. m : Padding(m)[i] = "="
  BY DEF Padding
<1>2. m \in Nat /\ DOMAIN Padding(m) = 1 .. m
  BY DEF Padding
<1>3. Len(Padding(m)) = m
  BY <1>2
<1>4. CASE m = 0
  <2>1. Padding(m) = <<>>
    BY <1>4 DEF Padding
  <2>2. <<>> \in Seq(Chars)
    OBVIOUS
  <2>3. Padding(m) \in {<<>>, <<"=">>, <<"=", "=">>}
    BY Zenon, <2>1
  <2>4. ("=" \in Chars \/ m = 0) => Padding(m) \in Text
    BY Zenon, <1>4, <2>1, <2>2 DEF Text
  <2> QED BY <1>1, <1>3, <2>3, <2>4
<1>5. CASE m = 1
  <2>1. Padding(m) = <<"=">>
    BY <1>5 DEF Padding
  <2>2. "=" \in Chars => <<"=">> \in Seq(Chars)
    OBVIOUS
  <2>3. Padding(m) \in {<<>>, <<"=">>, <<"=", "=">>}
    BY Zenon, <2>1
  <2>4. ("=" \in Chars \/ m = 0) => Padding(m) \in Text
    <3>1. m # 0
      BY <1>5
    <3> QED BY Zenon, <2>1, <2>2, <3>1 DEF Text
  <2> QED BY <1>1, <1>3, <2>3, <2>4
<1>6. CASE m = 2
  <2>1. Padding(m) = <<"=", "=">>
    BY <1>6 DEF Padding
  <2>2. "=" \in Chars => <<"=", "=">> \in Seq(Chars)
    OBVIOUS
  <2>3. Padding(m) \in {<<>>, <<"=">>, <<"=", "=">>}
    BY Zenon, <2>1
  <2>4. ("=" \in Chars \/ m = 0) => Padding(m) \in Text
    <3>1. m # 0
      BY <1>6
    <3> QED BY Zenon, <2>1, <2>2, <3>1 DEF Text
  <2> QED BY <1>1, <1>3, <2>3, <2>4
<1> QED BY <1>4, <1>5, <1>6

LEMMA SecretDetected ==
  ASSUME NEW text \in Text, LooksSecret(text)
  PROVE  DetectType(Strip(text)) = IF text[1] = "/" THEN "path" ELSE "secret"
<1>1. PICK n \in B64Lengths \cup HexLengths :
        /\ n <= Len(text)
        /\ \A k \in 1 .. n : text[k] \in B64Chars
        /\ n \in B64Lengths \/ \A k \in 1 .. n : text[k] \in HexChars
        /\ \E m \in 0 .. 2 :
             /\ m > 0 => n \in B64Lengths
             /\ n + m <= Len(text)
             /\ \A k \in n + 1 .. n + m : text[k] = "="
             /\ \A k \in n + m + 1 .. Len(text) : text[k] \in White
  BY Zenon DEF LooksSecret
<1>2. PICK m \in 0 .. 2 :
        /\ m > 0 => n \in B64Lengths
        /\ n + m <= Len(text)
        /\ \A k \in n + 1 .. n + m : text[k] = "="
        /\ \A k \in n + m + 1 .. Len(text) : text[k] \in White
  BY Zenon, <1>1
<1>3. n \in Nat \ {0} /\ Len(text) \in Nat
  BY ContentAssumption DEF Text
<1> DEFINE l == n + m
           t == SubSeq(text, 1, l)
<1>4. l \in Nat /\ l \in 1 .. Len(text) /\ n <= l /\ l - m = n
  BY <1>2, <1>3
<1>5. \A c \in B64Chars : c \notin UrlPrefixes /\ c \notin White /\ c # "=" /\ c # "~"
  BY ContentAssumption
<1>6. Strip(text) = t
  <2>1. text[l] \notin White
    <3>1. CASE m = 0
      <4>1. l \in 1 .. n
        BY <1>3, <3>1
      <4> QED BY <1>1, <1>5, <4>1
    <3>2. CASE m # 0
      <4>1. l \in n + 1 .. n + m
        BY <1>3, <3>2
      <4>2. "=" \notin White
        BY DEF White
      <4> QED BY <1>2, <4>1, <4>2
    <3> QED BY <3>1, <3>2
  <2>2. \A k \in l + 1 .. Len(text) : text[k] \in White
    BY <1>2
  <2> HIDE DEF l
  <2> QED BY <1>4, <2>1, <2>2, StripsTo
<1>7. /\ t \in Text /\ Len(t) = l /\ \A i \in 1 .. l : t[i] = text[i]
  <2>1. l \in 0 .. Len(text)
    BY <1>4
  <2> HIDE DEF l
  <2> QED BY <2>1, FrontOf
<1> HIDE DEF t
<1>8. /\ \A k \in 1 .. n : t[k] \in B64Chars
      /\ n \in B64Lengths \/ \A k \in 1 .. n : t[k] \in HexChars
      /\ \A k \in n + 1 .. n + m : t[k] = "="
  <2>1. /\ \A k \in 1 .. n : k \in 1 .. l
        /\ \A k \in n + 1 .. n + m : k \in 1 .. l
    BY <1>3, <1>4
  <2> HIDE DEF l
  <2> QED BY <1>1, <1>2, <1>7, <2>1
<1>9. t[1] \in B64Chars /\ t[1] = text[1] /\ t # <<>>
  <2>1. 1 \in 1 .. n /\ 1 \in 1 .. l
    BY <1>3, <1>4
  <2>2. t[1] \in B64Chars /\ t[1] = text[1]
    BY <1>7, <1>8, <2>1
  <2>3. Len(t) # 0
    BY <1>4, <1>7
  <2> QED BY <2>2, <2>3
<1>10. ~ IsUrl(t)
  BY <1>5, <1>9 DEF IsUrl
<1>11. ASSUME t[1] # "/" PROVE ~ IsPath(t)
  <2>1. ASSUME IsPrefix(<<"~", "/">>, t) PROVE FALSE
    <3> DEFINE h == <<"~", "/">>
    <3>1. Len(h) = 2 /\ SubSeq(h, 1, 2)[1] = "~"
      OBVIOUS
    <3> HIDE DEF h
    <3>2. SubSeq(h, 1, 2) = SubSeq(t, 1, 2) /\ 2 <= Len(t)
      BY <2>1, <3>1 DEF IsPrefix, h
    <3>3. SubSeq(t, 1, 2)[1] = t[1]
      BY <1>7, <3>2 DEF Text
    <3>4. t[1] = "~"
      BY <3>1, <3>2, <3>3
    <3> QED BY <1>5, <1>9, <3>4
  <2> QED BY <1>11, <2>1 DEF IsPath
<1>13. ASSUME t[1] = "/" PROVE IsPath(t)
  <2>1. ASSUME NEW k \in 1 .. Len(t) PROVE t[k] # " " /\ t[k] # "\n"
    <3>1. k \in 1 .. n \/ k \in n + 1 .. n + m
      BY <1>3, <1>7, <2>1
    <3>2. " " \in White /\ "\n" \in White /\ "=" # " " /\ "=" # "\n"
      BY DEF White
    <3> QED BY <1>5, <1>8, <3>1, <3>2
  <2>2. ~ Has(t, " ") /\ ~ Has(t, "\n")
    BY <2>1 DEF Has, Contains
  <2> QED BY <1>13, <2>2 DEF IsPath
<1>12. IsSecret(t)
  <2>1. CASE n \in B64Lengths
    <3> DEFINE pad == Padding(m)
               body == SubSeq(t, 1, Len(t) - Len(pad))
    <3>1. /\ pad \in {<<>>, <<"=">>, <<"=", "=">>} /\ Len(pad) = m
          /\ \A i \in 1 .. m : pad[i] = "="
      BY Zenon, PaddingIs
    <3>2. pad \in Text
      <4>1. CASE m = 0
        BY <4>1, PaddingIs
      <4>2. CASE m # 0
        <5>1. n + 1 \in n + 1 .. n + m /\ n + 1 \in 1 .. Len(t)
          BY <1>3, <1>7, <4>2
        <5>2. t[n + 1] \in Chars
          BY <1>7, <5>1 DEF Text
        <5> QED BY <1>8, <5>1, <5>2, PaddingIs
      <4> QED BY <4>1, <4>2
    <3> HIDE DEF pad
    <3>3. IsSuffix(pad, t)
      <4>1. Len(pad) <= Len(t)
        BY <1>3, <1>4, <1>7, <3>1
      <4>2. ASSUME NEW i \in 1 .. Len(pad)
            PROVE  pad[(Len(pad) - i) + 1] = t[(Len(t) - i) + 1]
        <5>1. (m - i) + 1 \in 1 .. m /\ (l - i) + 1 \in n + 1 .. n + m
          BY <1>3, <1>4, <3>1
        <5>2. pad[(m - i) + 1] = "="
          BY <3>1, <5>1
        <5>3. t[(l - i) + 1] = "="
          BY <1>8, <5>1
        <5> QED BY <1>7, <3>1, <5>2, <5>3
      <4> QED BY Zenon, <1>7, <3>2, <4>1, <4>2, SuffixIs
    <3>4. body \in Text /\ Len(body) = n /\ \A i \in 1 .. n : body[i] = t[i]
      <4>1. Len(t) - Len(pad) = n /\ n \in 0 .. Len(t)
        BY <1>3, <1>4, <1>7, <3>1
      <4> HIDE DEF l
      <4> QED BY <1>7, <4>1, FrontOf
    <3> HIDE DEF body
    <3>5. Matches(body, B64Chars, B64Lengths)
      <4>1. ToSet(body) \subseteq B64Chars
        BY <1>8, <3>4 DEF ToSet, Text
      <4> QED BY <2>1, <3>4, <4>1 DEF Matches
    <3> QED BY <3>1, <3>3, <3>5 DEF IsSecret, body
  <2>2. CASE n \notin B64Lengths
    <3>1. m = 0 /\ l = n /\ n \in HexLengths
      BY <1>2, <1>3, <2>2
    <3>2. \A k \in 1 .. Len(t) : t[k] \in HexChars
      BY <1>7, <1>8, <2>2, <3>1
    <3>3. ToSet(t) \subseteq HexChars
      BY <1>7, <3>2 DEF ToSet, Text
    <3> QED BY <1>7, <3>1, <3>3 DEF IsSecret, Matches
  <2> QED BY <2>1, <2>2
<1> QED BY <1>6, <1>9, <1>10, <1>11, <1>12, <1>13 DEF DetectType

(* A text of the form of a secret is recorded as one, also with white space *)
(* behind it, unless it begins with a slash, when it is recorded as a path. *)
THEOREM SecretsAreRecognised == CliSpec => SecretsRecognised
<1>1. ASSUME TypeInv, CliNext, LooksSecret(clipboard), seq' # seq
      PROVE  rows'[seq'].type = IF clipboard[1] = "/" THEN "path" ELSE "secret"
  <2>1. Capture
    BY Zenon, <1>1 DEF CliNext, Copy, GetItem, GetSnippet, Save, Yank, Delete, Pin, Clear
  <2>2. clipboard \in Text
    BY <1>1, TypeParts
  <2> QED BY <1>1, <2>1, <2>2, RowCaptured, SecretDetected
<1>2. TypeInv /\ [CliNext]_vars =>
        [LooksSecret(clipboard) /\ seq' # seq =>
           rows'[seq'].type = IF clipboard[1] = "/" THEN "path" ELSE "secret"]_vars
  BY <1>1
<1> QED BY <1>2, TypeInvariant, PTL DEF CliSpec, SecretsRecognised
=============================================================================
