----------------------------- MODULE CodecProofs -----------------------------
(***************************************************************************)
(* What is written is what is read: escaping and json_get are inverse, and *)
(* parse_json_array finds in the JSON of some objects, cut off anywhere,   *)
(* the first of them and nothing else.                                     *)
(*                                                                         *)
(* These are facts about recursive functions on texts of any length.  They *)
(* are proved by induction, which the prover has here as the principle of  *)
(* the least element: a set of numbers that has 0, and n + 1 with n, has   *)
(* all of them (NatSetInduction), and a set of sequences that has <<>> and *)
(* is closed under Append has all of them (SeqSetInduction).               *)
(***************************************************************************)
EXTENDS Codec, SequenceTheorems, FiniteSetTheorems, TLAPS

(* A set of numbers that contains 0 and the successors of its elements.     *)
LEMMA NatSetInduction ==
  ASSUME NEW S, 0 \in S, \A n \in Nat : n \in S => n + 1 \in S
  PROVE  \A n \in Nat : n \in S
<1> DEFINE R == OpToRel(<, Nat)
           T == Nat \ S
<1>1. IsWellFoundedOn(R, Nat)
  BY NatLessThanWellFounded
<1>2. SUFFICES ASSUME T # {} PROVE FALSE
  OBVIOUS
<1>3. PICK x \in T : \A y \in T : ~ (<<y, x>> \in R)
  <2>1. T \subseteq Nat
    OBVIOUS
  <2> HIDE DEF R, T
  <2> QED BY Zenon, <1>1, <1>2, <2>1, WFMin
<1>4. x # 0 /\ x \in Nat
  OBVIOUS
<1>5. x - 1 \in Nat /\ x - 1 < x
  BY <1>4
<1>6. x - 1 \notin S
  BY <1>4, <1>5
<1>7. <<x - 1, x>> \in R
  BY <1>4, <1>5 DEF OpToRel
<1> QED BY <1>3, <1>5, <1>6, <1>7

LEMMA LeastElement ==
  ASSUME NEW I \in SUBSET Nat, I # {}
  PROVE  \E i \in I : \A j \in I : i <= j
<1> DEFINE S == {n \in Nat : \A j \in I : n <= j}
<1> SUFFICES ASSUME \A i \in I : \E j \in I : ~ (i <= j) PROVE FALSE
  OBVIOUS
<1>1. 0 \in S
  OBVIOUS
<1>2. ASSUME NEW n \in Nat, n \in S PROVE n + 1 \in S
  <2>1. n \notin I
    BY <1>2
  <2>2. \A j \in I : n <= j /\ n # j /\ j \in Nat
    BY <1>2, <2>1
  <2> QED BY <2>2
<1>3. \A n \in Nat : n \in S
  <2> HIDE DEF S
  <2> QED BY <1>1, <1>2, NatSetInduction
<1>4. PICK i \in I : TRUE
  BY Zenon
<1>5. i + 1 \in S /\ i \in Nat
  BY <1>3
<1>6. i + 1 <= i
  BY <1>4, <1>5
<1> QED BY <1>5, <1>6

LEMMA GreatestElement ==
  ASSUME NEW n \in Nat, NEW I \in SUBSET (1 .. n), I # {}
  PROVE  \E i \in I : \A j \in I : i >= j
<1> DEFINE J == {k \in 0 .. n : n - k \in I}
<1>1. \A i \in I : i \in 1 .. n /\ n - i \in J
  OBVIOUS
<1>2. J \in SUBSET Nat /\ J # {}
  <2>1. J \in SUBSET Nat
    OBVIOUS
  <2>2. PICK i \in I : TRUE
    BY Zenon
  <2> HIDE DEF J
  <2> QED BY <1>1, <2>1, <2>2
<1>3. PICK k \in J : \A l \in J : k <= l
  <2> HIDE DEF J
  <2> QED BY <1>2, LeastElement
<1>4. n - k \in I /\ \A j \in I : n - k >= j
  BY <1>1, <1>3
<1> QED BY <1>4

(* A set of sequences over A that contains <<>> and is closed under Append. *)
LEMMA SeqSetInduction ==
  ASSUME NEW A, NEW T, <<>> \in T,
         \A s \in Seq(A), e \in A : s \in T => Append(s, e) \in T
  PROVE  \A s \in Seq(A) : s \in T
<1> DEFINE N == {n \in Nat : \A s \in Seq(A) : Len(s) = n => s \in T}
<1>1. 0 \in N
  OBVIOUS
<1>2. \A n \in Nat : n \in N => n + 1 \in N
  <2> SUFFICES ASSUME NEW n \in Nat, n \in N, NEW s \in Seq(A), Len(s) = n + 1
               PROVE  s \in T
    OBVIOUS
  <2>1. PICK u \in Seq(A), e \in A : s = Append(u, e)
    BY SequenceEmptyOrAppend
  <2>2. Len(u) = n
    BY <2>1
  <2> QED BY <2>1, <2>2
<1>3. \A n \in Nat : n \in N
  <2> HIDE DEF N
  <2> QED BY <1>1, <1>2, NatSetInduction
<1> QED BY <1>3

-----------------------------------------------------------------------------
(* FlattenSeq                                                              *)

(* The function FlattenSeq is defined with satisfies its equation.          *)
Flats(ss) ==
  CHOOSE flatten : flatten = [i \in 1 .. Len(ss) |->
                                IF i = 1 THEN ss[i] ELSE flatten[i - 1] \o ss[i]]

LEMMA FlatsEquation ==
  ASSUME NEW ss, Len(ss) \in Nat
  PROVE  \A i \in 1 .. Len(ss) :
           Flats(ss)[i] = IF i = 1 THEN ss[1] ELSE Flats(ss)[i - 1] \o ss[i]
<1> DEFINE Step(x, i) == x \o ss[i]
           E(f, n) == f = [i \in 1 .. n |-> IF i = 1 THEN ss[i] ELSE Step(f[i - 1], i)]
           S == {n \in Nat : \E f : E(f, n)}
<1> HIDE DEF Step
<1>1. 0 \in S
  <2> DEFINE g == [i \in 1 .. 0 |-> <<>>]
  <2>1. g = [i \in 1 .. 0 |-> IF i = 1 THEN ss[i] ELSE Step(g[i - 1], i)]
    OBVIOUS
  <2> QED BY Zenon, <2>1
<1>2. ASSUME NEW n \in Nat, n \in S PROVE n + 1 \in S
  <2>1. PICK f : E(f, n)
    BY <1>2
  <2> DEFINE g == [i \in 1 .. n + 1 |->
                     IF i = 1 THEN ss[i] ELSE Step(f[i - 1], i)]
  <2>2. \A i \in 1 .. n : g[i] = f[i]
    BY <2>1
  <2>3. \A i \in 1 .. n + 1 : i # 1 => g[i - 1] = f[i - 1]
    <3> HIDE DEF g
    <3>1. \A i \in 1 .. n + 1 : i # 1 => i - 1 \in 1 .. n
      OBVIOUS
    <3> QED BY <2>2, <3>1
  <2>4. g = [i \in 1 .. n + 1 |-> IF i = 1 THEN ss[i] ELSE Step(g[i - 1], i)]
    BY Zenon, <2>3
  <2> HIDE DEF g
  <2> QED BY <2>4
<1>3. \A n \in Nat : n \in S
  <2> HIDE DEF S
  <2> QED BY <1>1, <1>2, NatSetInduction
<1>4. \E f : E(f, Len(ss))
  BY <1>3
<1>5. E(CHOOSE f : E(f, Len(ss)), Len(ss))
  BY Zenon, <1>4
<1>6. Flats(ss) = CHOOSE f : E(f, Len(ss))
  BY DEF Flats, Step
<1>7. E(Flats(ss), Len(ss))
  BY Zenon, <1>5, <1>6
<1> QED BY Zenon, <1>7 DEF Step

LEMMA FlattenIsFlats ==
  ASSUME NEW ss, Len(ss) \in Nat, Len(ss) # 0
  PROVE  FlattenSeq(ss) = Flats(ss)[Len(ss)]
BY DEF FlattenSeq, Flats

LEMMA FlattenEmpty == FlattenSeq(<<>>) = <<>>
BY DEF FlattenSeq

LEMMA FlatsType ==
  ASSUME NEW A, NEW ss \in Seq(Seq(A))
  PROVE  \A i \in 1 .. Len(ss) : Flats(ss)[i] \in Seq(A)
<1> DEFINE S == {n \in Nat : \A i \in 1 .. Len(ss) : i <= n => Flats(ss)[i] \in Seq(A)}
<1>1. \A i \in 1 .. Len(ss) :
        Flats(ss)[i] = IF i = 1 THEN ss[1] ELSE Flats(ss)[i - 1] \o ss[i]
  BY SMTT(30), FlatsEquation
<1>2. 0 \in S
  OBVIOUS
<1>3. ASSUME NEW n \in Nat, n \in S PROVE n + 1 \in S
  <2> SUFFICES ASSUME NEW i \in 1 .. Len(ss), i <= n + 1
               PROVE  Flats(ss)[i] \in Seq(A)
    OBVIOUS
  <2>1. CASE i = 1
    BY <1>1, <2>1
  <2>2. CASE i # 1
    <3>1. i - 1 \in 1 .. Len(ss) /\ i - 1 <= n
      BY <2>2
    <3>2. Flats(ss)[i - 1] \in Seq(A)
      BY <1>3, <3>1
    <3>3. Flats(ss)[i] = Flats(ss)[i - 1] \o ss[i]
      BY Zenon, <1>1, <2>2
    <3>4. ss[i] \in Seq(A)
      OBVIOUS
    <3> QED BY <3>2, <3>3, <3>4
  <2> QED BY <2>1, <2>2
<1>4. \A n \in Nat : n \in S
  <2> HIDE DEF S
  <2> QED BY Zenon, <1>2, <1>3, NatSetInduction
<1>5. Len(ss) \in S
  <2> HIDE DEF S
  <2> QED BY <1>4
<1> QED BY <1>5

LEMMA FlatsAppend ==
  ASSUME NEW A, NEW ss \in Seq(Seq(A)), NEW e \in Seq(A)
  PROVE  \A i \in 1 .. Len(ss) : Flats(Append(ss, e))[i] = Flats(ss)[i]
<1> DEFINE tt == Append(ss, e)
           S == {n \in Nat : \A i \in 1 .. Len(ss) : i <= n => Flats(tt)[i] = Flats(ss)[i]}
<1>0. /\ tt \in Seq(Seq(A)) /\ Len(tt) = Len(ss) + 1
      /\ \A i \in 1 .. Len(ss) : tt[i] = ss[i]
  BY AppendProperties
<1> HIDE DEF tt
<1>1. ASSUME NEW i \in 1 .. Len(ss)
      PROVE  /\ Flats(ss)[i] = IF i = 1 THEN ss[1] ELSE Flats(ss)[i - 1] \o ss[i]
             /\ Flats(tt)[i] = IF i = 1 THEN ss[1] ELSE Flats(tt)[i - 1] \o ss[i]
  <2>1. i \in 1 .. Len(tt) /\ 1 \in 1 .. Len(ss)
    BY <1>0
  <2>2. tt[i] = ss[i] /\ tt[1] = ss[1] /\ Len(tt) \in Nat
    <3>1. tt[i] = ss[i] /\ tt[1] = ss[1]
      BY Zenon, <1>0, <2>1
    <3>2. Len(tt) \in Nat
      BY <1>0
    <3> QED BY <3>1, <3>2
  <2>3. Flats(ss)[i] = IF i = 1 THEN ss[1] ELSE Flats(ss)[i - 1] \o ss[i]
    BY SMTT(30), FlatsEquation
  <2>4. Flats(tt)[i] = IF i = 1 THEN tt[1] ELSE Flats(tt)[i - 1] \o tt[i]
    BY <2>1, <2>2, FlatsEquation
  <2> QED BY <2>2, <2>3, <2>4
<1>2. 0 \in S
  OBVIOUS
<1>3. ASSUME NEW n \in Nat, n \in S PROVE n + 1 \in S
  <2> SUFFICES ASSUME NEW i \in 1 .. Len(ss), i <= n + 1
               PROVE  Flats(tt)[i] = Flats(ss)[i]
    OBVIOUS
  <2>1. CASE i = 1
    BY <1>1, <2>1
  <2>2. CASE i # 1
    <3>1. i - 1 \in 1 .. Len(ss) /\ i - 1 <= n
      BY <2>2
    <3>2. Flats(tt)[i - 1] = Flats(ss)[i - 1]
      BY <1>3, <3>1
    <3> QED BY <1>1, <2>2, <3>2
  <2> QED BY <2>1, <2>2
<1>4. \A n \in Nat : n \in S
  <2> HIDE DEF S
  <2> QED BY Zenon, <1>2, <1>3, NatSetInduction
<1>5. Len(ss) \in S
  <2> HIDE DEF S
  <2> QED BY <1>4
<1> QED BY <1>5 DEF tt

LEMMA FlattenType ==
  ASSUME NEW A, NEW ss \in Seq(Seq(A))
  PROVE  FlattenSeq(ss) \in Seq(A)
<1>1. CASE Len(ss) = 0
  <2>1. ss = <<>>
    BY <1>1
  <2>2. <<>> \in Seq(A)
    OBVIOUS
  <2> QED BY Zenon, <2>1, <2>2, FlattenEmpty
<1>2. CASE Len(ss) # 0
  <2>1. Len(ss) \in 1 .. Len(ss)
    BY <1>2
  <2> QED BY <1>2, <2>1, FlatsType, FlattenIsFlats
<1> QED BY <1>1, <1>2

LEMMA FlattenAppend ==
  ASSUME NEW A, NEW ss \in Seq(Seq(A)), NEW e \in Seq(A)
  PROVE  FlattenSeq(Append(ss, e)) = FlattenSeq(ss) \o e
<1> DEFINE tt == Append(ss, e)
           n == Len(ss)
<1>1. tt \in Seq(Seq(A)) /\ Len(tt) = n + 1 /\ tt[n + 1] = e /\ n \in Nat
  BY AppendProperties
<1>2. FlattenSeq(tt) = Flats(tt)[n + 1]
  <2> HIDE DEF tt
  <2> QED BY <1>1, FlattenIsFlats
<1>3. \A i \in 1 .. Len(tt) :
        Flats(tt)[i] = IF i = 1 THEN tt[1] ELSE Flats(tt)[i - 1] \o tt[i]
  <2>1. Len(tt) \in Nat
    BY <1>1
  <2> HIDE DEF tt, n
  <2> QED BY <2>1, FlatsEquation
<1>4. CASE n = 0
  <2>1. ss = <<>>
    BY <1>4
  <2>2. Flats(tt)[1] = e
    <3> HIDE DEF tt
    <3> QED BY <1>1, <1>3, <1>4
  <2>3. <<>> \o e = e
    OBVIOUS
  <2> QED BY SMTT(30), <1>2, <1>4, <2>1, <2>2, <2>3, FlattenEmpty
<1>5. CASE n # 0
  <2>1. Flats(tt)[n] = Flats(ss)[n]
    BY <1>1, <1>5, FlatsAppend
  <2>2. FlattenSeq(ss) = Flats(ss)[n]
    BY <1>1, <1>5, FlattenIsFlats
  <2>3. Flats(tt)[n + 1] = Flats(tt)[n] \o e
    <3> DEFINE m == n + 1
    <3>1. m \in 1 .. Len(tt) /\ m # 1 /\ m - 1 = n /\ tt[m] = e
      <4> HIDE DEF tt
      <4> QED BY <1>1, <1>5
    <3> HIDE DEF tt, m
    <3>2. Flats(tt)[m] = Flats(tt)[m - 1] \o tt[m]
      BY Zenon, <1>3, <3>1
    <3> QED BY Zenon, <3>1, <3>2 DEF m
  <2> QED BY <1>2, <2>1, <2>2, <2>3
<1> QED BY <1>4, <1>5

-----------------------------------------------------------------------------
(* Escape                                                                  *)

Piece(c, special) == IF c \in special THEN <<Backslash, Letter[c]>> ELSE <<c>>

Pieces(text, special) == [k \in DOMAIN text |-> Piece(text[k], special)]

LEMMA LetterType == \A c \in Special : Letter[c] \in Chars
<1>1. \A c \in Special : Letter[c] \in {"n", "r", "t", Quote, Backslash}
  BY DEF Letter, Special
<1>2. {"n", "r", "t", Quote, Backslash} \subseteq Chars
  BY CodecAssumption DEF Syntax
<1> QED BY <1>1, <1>2

LEMMA PieceType ==
  ASSUME NEW c \in Chars, NEW special \in SUBSET Special
  PROVE  Piece(c, special) \in Text
<1>1. CASE c \in special
  <2>1. Letter[c] \in Chars /\ Backslash \in Chars
    BY <1>1, LetterType, CodecAssumption DEF Syntax
  <2> QED BY <1>1, <2>1 DEF Piece, Text
<1>2. CASE c \notin special
  BY <1>2 DEF Piece, Text
<1> QED BY <1>1, <1>2

LEMMA PiecesType ==
  ASSUME NEW text \in Text, NEW special \in SUBSET Special
  PROVE  Pieces(text, special) \in Seq(Text) /\ Len(Pieces(text, special)) = Len(text)
<1>1. \A k \in 1 .. Len(text) : Piece(text[k], special) \in Text
  BY PieceType DEF Text
<1>2. DOMAIN text = 1 .. Len(text) /\ Len(text) \in Nat
  BY DEF Text
<1> QED BY <1>1, <1>2 DEF Pieces

LEMMA EscapeIsPieces ==
  ASSUME NEW text, NEW special
  PROVE  Escape(text, special) = FlattenSeq(Pieces(text, special))
BY DEF Escape, Pieces, Piece

LEMMA EscapeType ==
  ASSUME NEW text \in Text, NEW special \in SUBSET Special
  PROVE  Escape(text, special) \in Text
BY PiecesType, EscapeIsPieces, FlattenType DEF Text

LEMMA EscapeEmpty ==
  ASSUME NEW special
  PROVE  Escape(<<>>, special) = <<>>
<1>1. Pieces(<<>>, special) = <<>>
  BY DEF Pieces
<1> QED BY <1>1, EscapeIsPieces, FlattenEmpty

LEMMA EscapeAppend ==
  ASSUME NEW text \in Text, NEW c \in Chars, NEW special \in SUBSET Special
  PROVE  Escape(Append(text, c), special) = Escape(text, special) \o Piece(c, special)
<1> DEFINE longer == Append(text, c)
           ps == Pieces(text, special)
           p == Piece(c, special)
<1>1. /\ longer \in Text /\ Len(longer) = Len(text) + 1
      /\ \A k \in 1 .. Len(text) : longer[k] = text[k]
      /\ longer[Len(text) + 1] = c
  BY AppendProperties DEF Text
<1>2. ps \in Seq(Text) /\ Len(ps) = Len(text) /\ p \in Text /\ Len(text) \in Nat
  BY PiecesType, PieceType DEF Text
<1>3. \A k \in 1 .. Len(text) : ps[k] = Piece(text[k], special)
  BY DEF Pieces, Text
<1> HIDE DEF longer, ps, p
<1>4. Pieces(longer, special) = Append(ps, p)
  <2> DEFINE qs == Pieces(longer, special)
             rs == Append(ps, p)
  <2>1. qs \in Seq(Text) /\ Len(qs) = Len(text) + 1
    BY <1>1, PiecesType
  <2>2. /\ rs \in Seq(Text) /\ Len(rs) = Len(text) + 1
        /\ \A k \in 1 .. Len(text) : rs[k] = ps[k]
        /\ rs[Len(text) + 1] = p
    BY <1>2, AppendProperties
  <2>3. \A k \in 1 .. Len(text) + 1 : qs[k] = Piece(longer[k], special)
    BY <1>1 DEF Pieces, Text
  <2> HIDE DEF qs, rs
  <2>4. ASSUME NEW k \in 1 .. Len(text) + 1 PROVE qs[k] = rs[k]
    <3>1. CASE k <= Len(text)
      <4>1. k \in 1 .. Len(text)
        BY <3>1
      <4> QED BY <1>1, <1>3, <2>2, <2>3, <4>1
    <3>2. CASE k = Len(text) + 1
      BY <1>1, <2>2, <2>3, <3>2 DEF p
    <3> QED BY <1>2, <3>1, <3>2
  <2>5. qs = rs
    BY <2>1, <2>2, <2>4, SeqEqual
  <2> QED BY <2>5 DEF qs, rs
<1>5. FlattenSeq(Append(ps, p)) = FlattenSeq(ps) \o p
  BY <1>2, FlattenAppend DEF Text
<1> QED BY Zenon, <1>4, <1>5, EscapeIsPieces DEF longer, ps, p

-----------------------------------------------------------------------------
(* Positions: a word stands in a text behind position p.                    *)

InText(text, p, w) ==
  /\ p + Len(w) <= Len(text)
  /\ \A i \in 1 .. Len(w) : text[p + i] = w[i]

LEMMA InTextConcat ==
  ASSUME NEW text \in Text, NEW p \in Nat, NEW u \in Text, NEW v \in Text,
         InText(text, p, u \o v)
  PROVE  /\ InText(text, p, u)
         /\ InText(text, p + Len(u), v)
         /\ Len(u \o v) = Len(u) + Len(v)
<1>1. /\ Len(u \o v) = Len(u) + Len(v)
      /\ \A i \in 1 .. Len(u) + Len(v) :
           (u \o v)[i] = IF i <= Len(u) THEN u[i] ELSE v[i - Len(u)]
  BY ConcatProperties DEF Text
<1>2. Len(u) \in Nat /\ Len(v) \in Nat /\ Len(text) \in Nat
  BY DEF Text
<1>3. ASSUME NEW i \in 1 .. Len(u) PROVE text[p + i] = u[i]
  <2>1. i \in 1 .. Len(u) + Len(v) /\ i <= Len(u)
    BY <1>2
  <2> QED BY <1>1, <2>1 DEF InText
<1>4. ASSUME NEW i \in 1 .. Len(v) PROVE text[(p + Len(u)) + i] = v[i]
  <2> DEFINE k == Len(u) + i
  <2>1. /\ k \in 1 .. Len(u) + Len(v) /\ ~ (k <= Len(u))
        /\ k - Len(u) = i /\ p + k = (p + Len(u)) + i
    BY <1>2
  <2> HIDE DEF k
  <2>2. text[p + k] = (u \o v)[k]
    BY Zenon, <1>1, <2>1 DEF InText
  <2>3. (u \o v)[k] = v[k - Len(u)]
    BY <1>1, <2>1
  <2> QED BY <2>1, <2>2, <2>3
<1>5. p + Len(u) <= Len(text) /\ (p + Len(u)) + Len(v) <= Len(text)
  BY <1>1, <1>2 DEF InText
<1> QED BY <1>1, <1>3, <1>4, <1>5 DEF InText

LEMMA InTextSubSeq ==
  ASSUME NEW text \in Text, NEW p \in Nat, NEW w \in Text, InText(text, p, w)
  PROVE  SubSeq(text, p + 1, p + Len(w)) = w
<1> DEFINE t == SubSeq(text, p + 1, p + Len(w))
<1>1. Len(w) \in Nat /\ Len(text) \in Nat
  BY DEF Text
<1>2. \A i \in p + 1 .. p + Len(w) : text[i] \in Chars
  <2>1. \A i \in p + 1 .. p + Len(w) : i \in 1 .. Len(text)
    BY <1>1 DEF InText
  <2> QED BY <2>1 DEF Text
<1>3. /\ t \in Text
      /\ Len(t) = Len(w)
      /\ \A i \in 1 .. Len(w) : t[i] = text[(p + 1) + i - 1]
  <2>1. p + 1 \in Int /\ p + Len(w) \in Int
    BY <1>1
  <2>2. /\ t \in Text
        /\ Len(t) = IF p + 1 <= p + Len(w) THEN (p + Len(w)) - (p + 1) + 1 ELSE 0
        /\ \A i \in 1 .. (p + Len(w)) - (p + 1) + 1 : t[i] = text[(p + 1) + i - 1]
    BY SMTT(30), <1>2, <2>1, SubSeqProperties DEF Text
  <2> HIDE DEF t
  <2>3. (p + Len(w)) - (p + 1) + 1 = Len(w)
    BY <1>1
  <2> QED BY <1>1, <2>2, <2>3
<1>4. \A i \in 1 .. Len(w) : t[i] = w[i]
  <2> TAKE i \in 1 .. Len(w)
  <2>1. (p + 1) + i - 1 = p + i
    BY <1>1
  <2>2. text[p + i] = w[i]
    BY DEF InText
  <2> HIDE DEF t
  <2> QED BY <1>3, <2>1, <2>2
<1> HIDE DEF t
<1>5. t = w
  BY <1>3, <1>4, SeqEqual DEF Text
<1> QED BY <1>5 DEF t

-----------------------------------------------------------------------------
(* Scanned                                                                 *)

St(depth, start, mode, objects) ==
  [depth |-> depth, start |-> start, mode |-> mode, objects |-> objects]

LEMMA ScannedEquation ==
  ASSUME NEW json, Len(json) \in Nat
  PROVE  /\ Scanned(json)[0] = St(0, 0, "json", <<>>)
         /\ \A k \in 1 .. Len(json) :
              Scanned(json)[k] = Scan(json, Scanned(json)[k - 1], k)
<1> DEFINE E(f, n) == f = [k \in 0 .. n |-> IF k = 0 THEN St(0, 0, "json", <<>>)
                                           ELSE Scan(json, f[k - 1], k)]
           S == {n \in Nat : \E f : E(f, n)}
<1>1. 0 \in S
  <2> DEFINE g == [k \in 0 .. 0 |-> St(0, 0, "json", <<>>)]
  <2>1. g = [k \in 0 .. 0 |-> IF k = 0 THEN St(0, 0, "json", <<>>)
                              ELSE Scan(json, g[k - 1], k)]
    OBVIOUS
  <2> QED BY Zenon, <2>1
<1>2. ASSUME NEW n \in Nat, n \in S PROVE n + 1 \in S
  <2>1. PICK f : E(f, n)
    BY <1>2
  <2> DEFINE g == [k \in 0 .. n + 1 |-> IF k = 0 THEN St(0, 0, "json", <<>>)
                                         ELSE Scan(json, f[k - 1], k)]
  <2>2. \A k \in 0 .. n : g[k] = f[k]
    BY <2>1
  <2>3. \A k \in 0 .. n + 1 : k # 0 => g[k - 1] = f[k - 1]
    <3> HIDE DEF g
    <3>1. \A k \in 0 .. n + 1 : k # 0 => k - 1 \in 0 .. n
      OBVIOUS
    <3> QED BY <2>2, <3>1
  <2>4. E(g, n + 1)
    BY Zenon, <2>3
  <2> HIDE DEF g, E
  <2> QED BY <2>4
<1>3. \A n \in Nat : n \in S
  <2> HIDE DEF S
  <2> QED BY <1>1, <1>2, NatSetInduction
<1>4. \E f : E(f, Len(json))
  BY <1>3
<1>5. E(CHOOSE f : E(f, Len(json)), Len(json))
  BY Zenon, <1>4
<1>6. Scanned(json) = CHOOSE f : E(f, Len(json))
  BY DEF Scanned, St
<1>7. E(Scanned(json), Len(json))
  BY <1>5, <1>6
<1>8. \A k \in 0 .. Len(json) :
        Scanned(json)[k] = IF k = 0 THEN St(0, 0, "json", <<>>)
                           ELSE Scan(json, Scanned(json)[k - 1], k)
  BY <1>7
<1>9. \A k \in 1 .. Len(json) : k \in 0 .. Len(json) /\ k # 0
  OBVIOUS
<1>10. 0 \in 0 .. Len(json)
  OBVIOUS
<1> QED BY <1>8, <1>9, <1>10

(* One step, outside of strings, inside, and behind a backslash.            *)
LEMMA ScanOutside ==
  ASSUME NEW json, NEW k, NEW d, NEW b, NEW os
  PROVE  /\ json[k] \notin {Quote, LBrace, RBrace} =>
              Scan(json, St(d, b, "json", os), k) = St(d, b, "json", os)
         /\ json[k] = Quote =>
              Scan(json, St(d, b, "json", os), k) = St(d, b, "string", os)
<1> DEFINE s == St(d, b, "json", os)
<1>1. s.mode = "json" /\ s.depth = d /\ s.start = b /\ s.objects = os
  BY DEF St
<1>2. Quote # LBrace /\ Quote # RBrace /\ LBrace # RBrace
  BY Zenon DEF Quote, LBrace, RBrace
<1> HIDE DEF s
<1> QED BY <1>1, <1>2 DEF Scan, St, s

LEMMA ScanBrace ==
  ASSUME NEW json, NEW k, NEW d, NEW b, NEW os
  PROVE  /\ json[k] = LBrace /\ d = 0 =>
              Scan(json, St(d, b, "json", os), k) = St(1, k, "json", os)
         /\ json[k] = LBrace /\ d # 0 =>
              Scan(json, St(d, b, "json", os), k) = St(d + 1, b, "json", os)
         /\ json[k] = RBrace /\ d = 1 =>
              Scan(json, St(d, b, "json", os), k)
                = St(0, b, "json", Append(os, SubSeq(json, b, k)))
         /\ json[k] = RBrace /\ d # 1 =>
              Scan(json, St(d, b, "json", os), k) = St(d - 1, b, "json", os)
<1> DEFINE s == St(d, b, "json", os)
<1>1. s.mode = "json" /\ s.depth = d /\ s.start = b /\ s.objects = os
  BY DEF St
<1>2. Quote # LBrace /\ Quote # RBrace /\ LBrace # RBrace
  BY Zenon DEF Quote, LBrace, RBrace
<1>3. 0 + 1 = 1 /\ 1 - 1 = 0
  OBVIOUS
<1> HIDE DEF s
<1> QED BY Zenon, <1>1, <1>2, <1>3 DEF Scan, St, s

LEMMA ScanInside ==
  ASSUME NEW json, NEW k, NEW d, NEW b, NEW os
  PROVE  /\ json[k] \notin {Quote, Backslash} =>
              Scan(json, St(d, b, "string", os), k) = St(d, b, "string", os)
         /\ json[k] = Quote =>
              Scan(json, St(d, b, "string", os), k) = St(d, b, "json", os)
         /\ json[k] = Backslash =>
              Scan(json, St(d, b, "string", os), k) = St(d, b, "skip", os)
<1> DEFINE s == St(d, b, "string", os)
<1>1. s.mode = "string" /\ s.depth = d /\ s.start = b /\ s.objects = os
  BY DEF St
<1>2. Quote # Backslash
  BY DEF Quote, Backslash
<1> HIDE DEF s
<1> QED BY <1>1, <1>2 DEF Scan, St, s

LEMMA ScanSkipping ==
  ASSUME NEW json, NEW k, NEW d, NEW b, NEW os
  PROVE  Scan(json, St(d, b, "skip", os), k) = St(d, b, "string", os)
BY DEF Scan, St

(* The types of the states, and that an object that is open has begun.      *)
State == [depth: Int, start: Nat, mode: {"json", "string", "skip"}, objects: Seq(Text)]

Sane(s, k) == s \in State /\ (s.depth >= 1 => s.start \in 1 .. k)

LEMMA ScanSane ==
  ASSUME NEW json \in Text, NEW k \in 1 .. Len(json), NEW s, Sane(s, k - 1)
  PROVE  Sane(Scan(json, s, k), k)
<1> DEFINE o == SubSeq(json, s.start, k)
           t == Scan(json, s, k)
<1>1. /\ s.depth \in Int /\ s.start \in Nat /\ s.mode \in {"json", "string", "skip"}
      /\ s.objects \in Seq(Text) /\ k \in Nat /\ Len(json) \in Nat
      /\ s.depth >= 1 => s.start \in 1 .. k - 1
  BY DEF Sane, State, Text
<1>2. ASSUME s.depth = 1 PROVE Append(s.objects, o) \in Seq(Text)
  <2>1. s.start \in Int /\ k \in Int /\ \A j \in s.start .. k : j \in 1 .. Len(json)
    BY <1>1, <1>2
  <2>2. \A j \in s.start .. k : json[j] \in Chars
    BY <2>1 DEF Text
  <2>3. o \in Text
    BY <2>1, <2>2, SubSeqProperties DEF Text
  <2> HIDE DEF o
  <2> QED BY <1>1, <2>3, AppendProperties
<1> HIDE DEF o
<1> DEFINE opens == s.mode = "json" /\ json[k] = LBrace
           closes == s.mode = "json" /\ json[k] = RBrace
           depth == IF opens THEN s.depth + 1 ELSE IF closes THEN s.depth - 1 ELSE s.depth
           start == IF opens /\ s.depth = 0 THEN k ELSE s.start
           objects == IF closes /\ s.depth = 1 THEN Append(s.objects, o) ELSE s.objects
<1>3. \E mode \in {"json", "string", "skip"} : t = St(depth, start, mode, objects)
  <2>1. t = St(depth, start, t.mode, objects)
    BY DEF Scan, St, o
  <2>2. t.mode \in {"json", "string", "skip"}
    BY <1>1 DEF Scan
  <2> HIDE DEF t, depth, start, objects
  <2> QED BY <2>1, <2>2
<1>4. /\ ~ opens => depth \in {s.depth - 1, s.depth} /\ start = s.start
      /\ opens => depth = s.depth + 1 /\ start \in {k, s.start}
      /\ opens /\ s.depth = 0 => start = k
  <2> HIDE DEF opens, closes
  <2>1. closes \/ ~ closes
    OBVIOUS
  <2> QED BY <2>1
<1>5. objects \in Seq(Text)
  BY <1>1, <1>2
<1> HIDE DEF t, depth, start, objects, opens
<1>6. depth \in Int /\ start \in Nat /\ (depth >= 1 => start \in 1 .. k)
  <2>1. CASE ~ opens
    BY <1>1, <1>4, <2>1
  <2>2. CASE opens /\ s.depth = 0
    BY <1>1, <1>4, <2>2
  <2>3. CASE opens /\ s.depth # 0
    <3>1. start = s.start \/ start = k
      BY <1>4, <2>3
    <3>2. start = s.start => (depth >= 1 => start \in 1 .. k)
      BY <1>1, <1>4, <2>3
    <3> QED BY <1>1, <1>4, <2>3, <3>1, <3>2
  <2> QED BY <2>1, <2>2, <2>3
<1>7. \A mode \in {"json", "string", "skip"} : Sane(St(depth, start, mode, objects), k)
  BY <1>5, <1>6 DEF Sane, State, St
<1> QED BY <1>3, <1>7 DEF t

LEMMA ScannedSane ==
  ASSUME NEW json \in Text
  PROVE  \A k \in 0 .. Len(json) : Sane(Scanned(json)[k], k)
<1> DEFINE S == {n \in Nat : n <= Len(json) => Sane(Scanned(json)[n], n)}
<1>1. Len(json) \in Nat
  BY DEF Text
<1>2. 0 \in S
  <2>1. Sane(St(0, 0, "json", <<>>), 0)
    BY DEF Sane, State, St
  <2> QED BY <1>1, <2>1, ScannedEquation
<1>3. ASSUME NEW n \in Nat, n \in S PROVE n + 1 \in S
  <2> SUFFICES ASSUME n + 1 <= Len(json) PROVE Sane(Scanned(json)[n + 1], n + 1)
    OBVIOUS
  <2> DEFINE k == n + 1
  <2>1. k \in 1 .. Len(json) /\ k - 1 = n /\ n <= Len(json)
    BY <1>1
  <2>2. Sane(Scanned(json)[n], n)
    BY <1>3, <2>1
  <2> HIDE DEF k
  <2>3. Scanned(json)[k] = Scan(json, Scanned(json)[k - 1], k)
    BY <1>1, <2>1, ScannedEquation
  <2>4. Sane(Scanned(json)[k], k)
    BY <2>1, <2>2, <2>3, ScanSane
  <2> QED BY <2>4 DEF k
<1>4. \A n \in Nat : n \in S
  <2> HIDE DEF S
  <2> QED BY <1>2, <1>3, NatSetInduction
<1> QED BY <1>1, <1>4

(* What was read of a text does not depend on what follows: a cut answer is *)
(* read as the whole one is, up to the cut.                                 *)
LEMMA ScannedPrefix ==
  ASSUME NEW json \in Text, NEW m \in 0 .. Len(json)
  PROVE  /\ SubSeq(json, 1, m) \in Text /\ Len(SubSeq(json, 1, m)) = m
         /\ \A k \in 0 .. m : Scanned(SubSeq(json, 1, m))[k] = Scanned(json)[k]
<1> DEFINE cut == SubSeq(json, 1, m)
           S == {n \in Nat : n <= m => Scanned(cut)[n] = Scanned(json)[n]}
<1>1. Len(json) \in Nat /\ m \in Nat
  BY DEF Text
<1>2. cut \in Text /\ Len(cut) = m /\ \A k \in 1 .. m : cut[k] = json[k]
  BY <1>1 DEF Text
<1> HIDE DEF cut
<1>3. 0 \in S
  BY <1>1, <1>2, ScannedEquation
<1>4. ASSUME NEW n \in Nat, n \in S PROVE n + 1 \in S
  <2> SUFFICES ASSUME n + 1 <= m PROVE Scanned(cut)[n + 1] = Scanned(json)[n + 1]
    OBVIOUS
  <2> DEFINE k == n + 1
             s == Scanned(json)[n]
  <2>1. /\ k \in 1 .. Len(json) /\ k \in 1 .. Len(cut) /\ k \in 1 .. m /\ k - 1 = n
        /\ n <= m /\ n \in 0 .. Len(json)
    BY <1>1, <1>2
  <2>2. Scanned(cut)[n] = s
    BY <1>4, <2>1
  <2>3. Sane(s, n)
    BY <2>1, ScannedSane
  <2> HIDE DEF k, s
  <2>4. /\ Scanned(json)[k] = Scan(json, s, k)
        /\ Scanned(cut)[k] = Scan(cut, s, k)
    BY <1>1, <1>2, <2>1, <2>2, ScannedEquation DEF s
  <2>5. ASSUME s.depth = 1 PROVE SubSeq(cut, s.start, k) = SubSeq(json, s.start, k)
    <3>1. s.start \in 1 .. n
      BY <2>3, <2>5 DEF Sane
    <3>2. \A j \in s.start .. k : j \in 1 .. m
      BY <1>1, <2>1, <3>1
    <3>3. \A j \in s.start .. k : cut[j] = json[j]
      BY <1>2, <3>2
    <3>4. s.start \in Int /\ k \in Int
      BY <1>1, <2>1, <3>1
    <3> QED BY SMTT(30), <3>3, <3>4
  <2>6. cut[k] = json[k]
    BY <1>2, <2>1
  <2>7. Scan(cut, s, k) = Scan(json, s, k)
    BY Zenon, <2>5, <2>6 DEF Scan
  <2> QED BY <2>4, <2>7 DEF k
<1>5. \A n \in Nat : n \in S
  <2> HIDE DEF S
  <2> QED BY <1>3, <1>4, NatSetInduction
<1> QED BY <1>1, <1>2, <1>5 DEF cut
-----------------------------------------------------------------------------
(* How words move the scanner                                              *)

(* Behind word the scanner is in mode after, if it was in mode before, and  *)
(* on the way nothing was found.                                            *)
Leads(word, before, after) ==
  \A json \in Text, p \in Nat, d \in Nat, b \in Nat, os \in Seq(Text) :
    InText(json, p, word) /\ Scanned(json)[p] = St(d, b, before, os) =>
      /\ Scanned(json)[p + Len(word)] = St(d, b, after, os)
      /\ \A k \in p .. p + Len(word) : Scanned(json)[k].objects = os

LEMMA LeadsConcat ==
  ASSUME NEW u \in Text, NEW v \in Text, NEW m, NEW n, NEW r,
         Leads(u, m, n), Leads(v, n, r)
  PROVE  Leads(u \o v, m, r)
<1> SUFFICES ASSUME NEW json \in Text, NEW p \in Nat, NEW d \in Nat, NEW b \in Nat,
                    NEW os \in Seq(Text), InText(json, p, u \o v),
                    Scanned(json)[p] = St(d, b, m, os)
             PROVE  /\ Scanned(json)[p + Len(u \o v)] = St(d, b, r, os)
                    /\ \A k \in p .. p + Len(u \o v) : Scanned(json)[k].objects = os
  BY DEF Leads
<1>1. /\ InText(json, p, u) /\ InText(json, p + Len(u), v)
      /\ Len(u \o v) = Len(u) + Len(v)
  BY InTextConcat
<1>2. Len(u) \in Nat /\ Len(v) \in Nat /\ p + Len(u) \in Nat
  BY DEF Text
<1>3. /\ Scanned(json)[p + Len(u)] = St(d, b, n, os)
      /\ \A k \in p .. p + Len(u) : Scanned(json)[k].objects = os
  BY <1>1 DEF Leads
<1>4. /\ Scanned(json)[(p + Len(u)) + Len(v)] = St(d, b, r, os)
      /\ \A k \in p + Len(u) .. (p + Len(u)) + Len(v) : Scanned(json)[k].objects = os
  BY SMTT(30), <1>1, <1>2, <1>3 DEF Leads
<1>5. (p + Len(u)) + Len(v) = p + Len(u \o v)
  BY <1>1, <1>2
<1>6. \A k \in p .. p + Len(u \o v) :
        k \in p .. p + Len(u) \/ k \in p + Len(u) .. (p + Len(u)) + Len(v)
  BY <1>1, <1>2
<1> QED BY <1>3, <1>4, <1>5, <1>6

(* One character.                                                           *)
LEMMA LeadsOne ==
  ASSUME NEW c \in Chars, NEW m, NEW n,
         \A json \in Text, k \in Nat, d \in Nat, b \in Nat, os \in Seq(Text) :
           json[k] = c => Scan(json, St(d, b, m, os), k) = St(d, b, n, os)
  PROVE  Leads(<<c>>, m, n)
<1> SUFFICES ASSUME NEW json \in Text, NEW p \in Nat, NEW d \in Nat, NEW b \in Nat,
                    NEW os \in Seq(Text), InText(json, p, <<c>>),
                    Scanned(json)[p] = St(d, b, m, os)
             PROVE  /\ Scanned(json)[p + 1] = St(d, b, n, os)
                    /\ \A k \in p .. p + 1 : Scanned(json)[k].objects = os
  <2>1. Len(<<c>>) = 1
    OBVIOUS
  <2> QED BY <2>1 DEF Leads
<1> DEFINE k == p + 1
<1>1. k \in 1 .. Len(json) /\ k - 1 = p /\ json[k] = c /\ Len(json) \in Nat /\ k \in Nat
  BY DEF InText, Text
<1> HIDE DEF k
<1>2. Scanned(json)[k] = Scan(json, Scanned(json)[k - 1], k)
  BY <1>1, ScannedEquation
<1>3. Scanned(json)[k] = St(d, b, n, os)
  BY <1>1, <1>2
<1>4. St(d, b, m, os).objects = os /\ St(d, b, n, os).objects = os
  BY DEF St
<1>5. \A j \in p .. p + 1 : j = p \/ j = k
  BY DEF k
<1> QED BY <1>3, <1>4, <1>5 DEF k

LEMMA LeadsChars ==
  /\ \A c \in Chars \ {Quote, LBrace, RBrace} : Leads(<<c>>, "json", "json")
  /\ \A c \in Chars \ {Quote, Backslash} : Leads(<<c>>, "string", "string")
  /\ \A c \in Chars : Leads(<<c>>, "skip", "string")
  /\ Leads(<<Quote>>, "json", "string") /\ Leads(<<Quote>>, "string", "json")
  /\ Leads(<<Backslash>>, "string", "skip")
<1>1. Quote \in Chars /\ Backslash \in Chars
  BY CodecAssumption DEF Syntax
<1>2. ASSUME NEW c \in Chars \ {Quote, LBrace, RBrace} PROVE Leads(<<c>>, "json", "json")
  <2>1. \A json \in Text, k \in Nat, d \in Nat, b \in Nat, os \in Seq(Text) :
          json[k] = c => Scan(json, St(d, b, "json", os), k) = St(d, b, "json", os)
    BY ScanOutside
  <2> QED BY <1>1, <2>1, LeadsOne
<1>3. ASSUME NEW c \in Chars \ {Quote, Backslash} PROVE Leads(<<c>>, "string", "string")
  BY ScanInside, LeadsOne
<1>4. ASSUME NEW c \in Chars PROVE Leads(<<c>>, "skip", "string")
  BY ScanSkipping, LeadsOne
<1>5. Leads(<<Quote>>, "json", "string")
  <2>1. \A json \in Text, k \in Nat, d \in Nat, b \in Nat, os \in Seq(Text) :
          json[k] = Quote => Scan(json, St(d, b, "json", os), k) = St(d, b, "string", os)
    BY ScanOutside
  <2> QED BY <1>1, <2>1, LeadsOne
<1>6. Leads(<<Quote>>, "string", "json")
  BY <1>1, ScanInside, LeadsOne
<1>7. Leads(<<Backslash>>, "string", "skip")
  BY <1>1, ScanInside, LeadsOne
<1> QED BY <1>2, <1>3, <1>4, <1>5, <1>6, <1>7

(* The characters that may stand in a string if special is escaped.         *)
Harmless(special) == {c \in Chars : c \in {Quote, Backslash} => c \in special}

LEMMA LeadsPiece ==
  ASSUME NEW special \in SUBSET Special, NEW c \in Harmless(special)
  PROVE  Leads(Piece(c, special), "string", "string")
<1>1. CASE c \in special
  <2>1. Letter[c] \in Chars /\ Backslash \in Chars
    BY <1>1, LetterType, CodecAssumption DEF Syntax
  <2>2. <<Backslash, Letter[c]>> = <<Backslash>> \o <<Letter[c]>>
    OBVIOUS
  <2>3. <<Backslash>> \in Text /\ <<Letter[c]>> \in Text
    BY <2>1 DEF Text
  <2> QED BY Zenon, <1>1, <2>1, <2>2, <2>3, LeadsChars, LeadsConcat DEF Piece
<1>2. CASE c \notin special
  BY <1>2, LeadsChars DEF Harmless, Piece
<1> QED BY <1>1, <1>2

LEMMA LeadsEmpty == \A m : Leads(<<>>, m, m)
<1> TAKE m
<1> DEFINE w == <<>>
<1>1. Len(w) = 0
  OBVIOUS
<1> HIDE DEF w
<1>2. ASSUME NEW json \in Text, NEW p \in Nat, NEW d \in Nat, NEW b \in Nat,
             NEW os \in Seq(Text), Scanned(json)[p] = St(d, b, m, os)
      PROVE  /\ Scanned(json)[p + Len(w)] = St(d, b, m, os)
             /\ \A k \in p .. p + Len(w) : Scanned(json)[k].objects = os
  <2>1. p + Len(w) = p /\ \A k \in p .. p + Len(w) : k = p
    BY <1>1
  <2>2. St(d, b, m, os).objects = os
    BY DEF St
  <2> QED BY <1>2, <2>1, <2>2
<1>3. Leads(w, m, m)
  BY <1>2 DEF Leads
<1> QED BY <1>3 DEF w

(* An escaped text never ends its string.                                   *)
LEMMA LeadsEscape ==
  ASSUME NEW special \in SUBSET Special
  PROVE  \A text \in Seq(Harmless(special)) : Leads(Escape(text, special), "string", "string")
<1> DEFINE T == {text \in Text : Leads(Escape(text, special), "string", "string")}
<1>1. <<>> \in T
  <2>1. <<>> \in Text
    BY DEF Text
  <2> QED BY <2>1, EscapeEmpty, LeadsEmpty
<1>2. ASSUME NEW text \in Seq(Harmless(special)), NEW c \in Harmless(special), text \in T
      PROVE  Append(text, c) \in T
  <2>1. c \in Chars /\ Append(text, c) \in Text
    BY <1>2 DEF Harmless, Text
  <2>2. Escape(Append(text, c), special) = Escape(text, special) \o Piece(c, special)
    BY <1>2, <2>1, EscapeAppend
  <2>3. Escape(text, special) \in Text /\ Piece(c, special) \in Text
    BY <1>2, <2>1, EscapeType, PieceType
  <2>4. Leads(Escape(text, special) \o Piece(c, special), "string", "string")
    BY <1>2, <2>3, LeadsPiece, LeadsConcat
  <2> QED BY Zenon, <2>1, <2>2, <2>4
<1>3. \A text \in Seq(Harmless(special)) : text \in T
  <2> HIDE DEF T
  <2> QED BY <1>1, <1>2, SeqSetInduction
<1> QED BY <1>3

LEMMA EscapeNothing == \A text \in Text : Escape(text, {}) = text
<1> DEFINE T == {text \in Text : Escape(text, {}) = text}
<1>1. <<>> \in T
  BY EscapeEmpty DEF Text
<1>2. ASSUME NEW text \in Seq(Chars), NEW c \in Chars, text \in T
      PROVE  Append(text, c) \in T
  <2>1. Escape(Append(text, c), {}) = Escape(text, {}) \o Piece(c, {})
    BY EscapeAppend DEF Text
  <2>2. Piece(c, {}) = <<c>> /\ Append(text, c) = text \o <<c>>
    BY DEF Piece
  <2>3. Append(text, c) \in Text
    BY DEF Text
  <2>4. Escape(Append(text, c), {}) = Append(text, c)
    BY Zenon, <1>2, <2>1, <2>2
  <2> QED BY <2>3, <2>4
<1>3. \A text \in Seq(Chars) : text \in T
  <2> HIDE DEF T
  <2> QED BY <1>1, <1>2, SeqSetInduction
<1> QED BY <1>3 DEF Text

-----------------------------------------------------------------------------
(* Objects and arrays                                                      *)

LEMMA SyntaxChars ==
  /\ {"[", "]", LBrace, RBrace, Comma, Quote, Backslash} \subseteq Chars
  /\ LBrace \notin {Quote, RBrace} /\ RBrace # Quote
  /\ Comma \in Chars \ {Quote, LBrace, RBrace}
  /\ "[" \in Chars \ {Quote, LBrace, RBrace} /\ "]" \in Chars \ {Quote, LBrace, RBrace}
<1>1. /\ LBrace \notin {Quote, RBrace} /\ RBrace # Quote
      /\ Comma \notin {Quote, LBrace, RBrace}
      /\ "[" \notin {Quote, LBrace, RBrace} /\ "]" \notin {Quote, LBrace, RBrace}
  BY Zenon DEF Quote, LBrace, RBrace, Comma
<1> QED BY <1>1, CodecAssumption DEF Syntax

(* A text in braces that the scanner leaves as it entered it.               *)
Object(o) == \E w \in Text : o = Braced(w) /\ Leads(w, "json", "json")

(* Such a text is found as a whole, and when its last brace is read.        *)
LEMMA ObjectFound ==
  ASSUME NEW json \in Text, NEW p \in Nat, NEW b \in Nat, NEW os \in Seq(Text),
         NEW o, Object(o), InText(json, p, o), Scanned(json)[p] = St(0, b, "json", os)
  PROVE  /\ o \in Text /\ Len(o) \in Nat \ {0}
         /\ Scanned(json)[p + Len(o)] = St(0, p + 1, "json", Append(os, o))
         /\ \A k \in p .. p + Len(o) - 1 : Scanned(json)[k].objects = os
<1>1. PICK w \in Text : o = Braced(w) /\ Leads(w, "json", "json")
  BY DEF Object
<1> DEFINE left == <<LBrace>>
           right == <<RBrace>>
           u == left \o w
           q == p + 1
           r == q + Len(w)
           e == r + 1
<1>2. /\ left \in Text /\ Len(left) = 1 /\ left[1] = LBrace
      /\ right \in Text /\ Len(right) = 1 /\ right[1] = RBrace
  BY SyntaxChars DEF Text
<1>3. o = u \o right
  BY <1>1, <1>2 DEF Braced
<1>4. u \in Text /\ Len(w) \in Nat
  BY <1>1, <1>2 DEF Text
<1> HIDE DEF left, right, u
<1>5. /\ InText(json, p, left) /\ InText(json, q, w)
      /\ InText(json, r, right)
      /\ Len(o) = Len(w) + 2
      /\ o \in Text
  <2>1. /\ InText(json, p, u) /\ InText(json, p + Len(u), right)
        /\ Len(o) = Len(u) + Len(right)
    <3>1. InText(json, p, u \o right) /\ right \in Text
      BY <1>2, <1>3
    <3> QED BY <1>3, <1>4, <3>1, InTextConcat
  <2>2. /\ InText(json, p, left) /\ InText(json, p + Len(left), w)
        /\ Len(u) = Len(left) + Len(w)
    <3>1. InText(json, p, left \o w) /\ left \in Text
      BY <1>2, <2>1 DEF u
    <3> QED BY <1>1, <3>1, InTextConcat DEF u
  <2>3. p + Len(u) = r
    BY <1>2, <1>4, <2>2
  <2>4. o \in Text
    BY <1>2, <1>3, <1>4 DEF Text
  <2> QED BY <1>2, <1>4, <2>1, <2>2, <2>3, <2>4
<1>6. /\ q \in 1 .. Len(json) /\ q - 1 = p /\ json[q] = LBrace
      /\ e \in 1 .. Len(json) /\ e - 1 = r /\ json[e] = RBrace
      /\ Len(json) \in Nat /\ q \in Nat /\ e = p + Len(o) /\ r \in Nat
  <2>1. Len(json) \in Nat /\ 1 \in 1 .. 1
    BY DEF Text
  <2> QED BY <1>2, <1>4, <1>5, <2>1 DEF InText
<1> HIDE DEF q, r, e
<1>7. Scanned(json)[q] = St(1, q, "json", os)
  <2>1. Scanned(json)[q] = Scan(json, Scanned(json)[p], q)
    BY Zenon, <1>6, ScannedEquation
  <2> QED BY <1>6, <2>1, ScanBrace
<1>8. /\ Scanned(json)[r] = St(1, q, "json", os)
      /\ \A k \in q .. r : Scanned(json)[k].objects = os
  BY <1>1, <1>5, <1>6, <1>7 DEF Leads, r
<1>9. Scanned(json)[e] = St(0, q, "json", Append(os, o))
  <2>1. Scanned(json)[e] = Scan(json, Scanned(json)[r], e)
    BY Zenon, <1>6, ScannedEquation
  <2>2. SubSeq(json, q, e) = o
    BY Zenon, <1>5, <1>6, InTextSubSeq DEF q
  <2>3. Scan(json, St(1, q, "json", os), e)
          = St(0, q, "json", Append(os, SubSeq(json, q, e)))
    BY <1>6, ScanBrace
  <2> QED BY <1>8, <2>1, <2>2, <2>3
<1>10. \A k \in p .. p + Len(o) - 1 : Scanned(json)[k].objects = os
  <2>1. \A k \in p .. p + Len(o) - 1 : k = p \/ k \in q .. r
    BY <1>4, <1>5, <1>6 DEF q, r, e
  <2>2. St(0, b, "json", os).objects = os
    BY DEF St
  <2> QED BY <1>8, <2>1, <2>2
<1> QED BY <1>4, <1>5, <1>6, <1>9, <1>10 DEF q

(* A prefix of a concatenation, and one piece more.                         *)
LEMMA FlattenStep ==
  ASSUME NEW ps \in Seq(Text), NEW n \in Nat, n + 1 <= Len(ps)
  PROVE  /\ SubSeq(ps, 1, n) \in Seq(Text) /\ ps[n + 1] \in Text
         /\ FlattenSeq(SubSeq(ps, 1, n)) \in Text
         /\ FlattenSeq(SubSeq(ps, 1, n + 1)) = FlattenSeq(SubSeq(ps, 1, n)) \o ps[n + 1]
<1> DEFINE front == SubSeq(ps, 1, n)
           longer == SubSeq(ps, 1, n + 1)
<1>0. Len(ps) \in Nat /\ \A i \in 1 .. n + 1 : i \in 1 .. Len(ps)
  OBVIOUS
<1>1. /\ front \in Seq(Text) /\ Len(front) = n
      /\ \A i \in 1 .. n : front[i] = ps[i]
  BY <1>0
<1>2. /\ longer \in Seq(Text) /\ Len(longer) = n + 1
      /\ \A i \in 1 .. n + 1 : longer[i] = ps[i]
  BY <1>0
<1>3. ps[n + 1] \in Text
  BY <1>0
<1> HIDE DEF front, longer
<1>4. longer = Append(front, ps[n + 1])
  <2> DEFINE a == Append(front, ps[n + 1])
  <2>1. /\ a \in Seq(Text) /\ Len(a) = n + 1 /\ a[n + 1] = ps[n + 1]
        /\ \A i \in 1 .. n : a[i] = front[i]
    BY <1>1, <1>3, AppendProperties
  <2> HIDE DEF a
  <2>2. \A i \in 1 .. n + 1 : a[i] = longer[i]
    <3> TAKE i \in 1 .. n + 1
    <3>1. i \in 1 .. n \/ i = n + 1
      OBVIOUS
    <3> QED BY <1>1, <1>2, <2>1, <3>1
  <2>3. a = longer
    BY <1>2, <2>1, <2>2, SeqEqual
  <2> QED BY <2>3 DEF a
<1>5. FlattenSeq(longer) = FlattenSeq(front) \o ps[n + 1]
  BY Zenon, <1>1, <1>3, <1>4, FlattenAppend DEF Text
<1>6. FlattenSeq(front) \in Text
  BY <1>1, FlattenType DEF Text
<1> QED BY Zenon, <1>1, <1>3, <1>5, <1>6 DEF front, longer

(* A text with a concatenation has its pieces, one behind the other.        *)
LEMMA FlattenInText ==
  ASSUME NEW json \in Text, NEW p \in Nat, NEW ps \in Seq(Text),
         InText(json, p, FlattenSeq(ps))
  PROVE  \A n \in 0 .. Len(ps) : InText(json, p, FlattenSeq(SubSeq(ps, 1, n)))
<1> DEFINE In(n) == InText(json, p, FlattenSeq(SubSeq(ps, 1, n)))
           S == {m \in Nat : m <= Len(ps) => In(Len(ps) - m)}
<1>0. Len(ps) \in Nat
  OBVIOUS
<1>1. 0 \in S
  <2>1. SubSeq(ps, 1, Len(ps)) = ps /\ Len(ps) - 0 = Len(ps)
    BY <1>0
  <2> QED BY Zenon, <2>1
<1>2. ASSUME NEW m \in Nat, m \in S PROVE m + 1 \in S
  <2> SUFFICES ASSUME m + 1 <= Len(ps) PROVE In(Len(ps) - (m + 1))
    OBVIOUS
  <2> DEFINE n == Len(ps) - (m + 1)
  <2>1. n \in Nat /\ n + 1 = Len(ps) - m /\ n + 1 <= Len(ps) /\ m <= Len(ps)
    BY <1>0
  <2>2. In(n + 1)
    BY <1>2, <2>1
  <2> HIDE DEF n
  <2>3. /\ FlattenSeq(SubSeq(ps, 1, n)) \in Text /\ ps[n + 1] \in Text
        /\ FlattenSeq(SubSeq(ps, 1, n + 1)) = FlattenSeq(SubSeq(ps, 1, n)) \o ps[n + 1]
    BY Zenon, <2>1, FlattenStep
  <2>4. InText(json, p, FlattenSeq(SubSeq(ps, 1, n)) \o ps[n + 1])
    BY Zenon, <2>2, <2>3
  <2>5. In(n)
    BY <2>3, <2>4, InTextConcat
  <2> QED BY <2>5 DEF n
<1> HIDE DEF In
<1>3. \A m \in Nat : m \in S
  <2> HIDE DEF S
  <2> QED BY <1>1, <1>2, NatSetInduction
<1>4. \A n \in 0 .. Len(ps) : In(n)
  <2> TAKE n \in 0 .. Len(ps)
  <2>1. Len(ps) - n \in Nat /\ Len(ps) - n <= Len(ps) /\ Len(ps) - (Len(ps) - n) = n
    BY <1>0
  <2>2. Len(ps) - n \in S
    <3> HIDE DEF S
    <3> QED BY <1>3, <2>1
  <2> QED BY <2>1, <2>2
<1> QED BY <1>4 DEF In

Separators == {<<>>, <<Comma>>}

(* Behind word, a new object: longer instead of os.                         *)
Yields(json, p, word, os, longer) ==
  /\ Scanned(json)[p + Len(word)] = St(0, p + 1, "json", longer)
  /\ \A k \in p .. p + Len(word) : Scanned(json)[k].objects \in {os, longer}

LEMMA PieceFound ==
  ASSUME NEW json \in Text, NEW p \in Nat, NEW b \in Nat, NEW os \in Seq(Text),
         NEW o \in Text, Object(o), NEW sep \in Separators, InText(json, p, o \o sep),
         Scanned(json)[p] = St(0, b, "json", os)
  PROVE  /\ o \o sep \in Text
         /\ Yields(json, p, o \o sep, os, Append(os, o))
<1>2. sep \in Text /\ Leads(sep, "json", "json")
  <2>1. CASE sep = <<>>
    BY <2>1, LeadsEmpty DEF Text
  <2>2. CASE sep = <<Comma>>
    BY <2>2, LeadsChars, SyntaxChars DEF Text
  <2> QED BY <2>1, <2>2 DEF Separators
<1>3. /\ InText(json, p, o) /\ InText(json, p + Len(o), sep)
      /\ Len(o \o sep) = Len(o) + Len(sep)
  BY <1>2, InTextConcat
<1> DEFINE q == p + Len(o)
           longer == Append(os, o)
<1>4. /\ Scanned(json)[q] = St(0, p + 1, "json", longer)
      /\ \A k \in p .. q - 1 : Scanned(json)[k].objects = os
      /\ longer \in Seq(Text)
  <2>1. longer \in Seq(Text)
    BY AppendProperties
  <2> QED BY <1>3, <2>1, ObjectFound
<1>5. Len(o) \in Nat /\ Len(sep) \in Nat /\ q \in Nat /\ p + 1 \in Nat
  BY <1>2 DEF Text
<1> HIDE DEF longer
<1>6. /\ Scanned(json)[q + Len(sep)] = St(0, p + 1, "json", longer)
      /\ \A k \in q .. q + Len(sep) : Scanned(json)[k].objects = longer
  BY <1>2, <1>3, <1>4, <1>5 DEF Leads
<1>7. \A k \in p .. p + Len(o \o sep) : k \in p .. q - 1 \/ k \in q .. q + Len(sep)
  BY <1>3, <1>5
<1>8. p + Len(o \o sep) = q + Len(sep)
  BY <1>3, <1>5
<1>9. o \o sep \in Text
  BY <1>2 DEF Text
<1> HIDE DEF q
<1> QED BY <1>4, <1>6, <1>7, <1>8, <1>9 DEF longer, Yields

(* Objects, each with or without a comma behind it, are found one by one.   *)
Listed(ps, os) ==
  /\ Len(ps) = Len(os)
  /\ \A k \in 1 .. Len(os) :
       Object(os[k]) /\ \E sep \in Separators : ps[k] = os[k] \o sep

LEMMA PiecesFound ==
  ASSUME NEW json \in Text, NEW p \in Nat, NEW os \in Seq(Text), NEW ps \in Seq(Text),
         Listed(ps, os), InText(json, p, FlattenSeq(ps)),
         NEW b \in Nat, Scanned(json)[p] = St(0, b, "json", <<>>)
  PROVE  /\ \E c \in Nat : Scanned(json)[p + Len(FlattenSeq(ps))] = St(0, c, "json", os)
         /\ \A k \in p .. p + Len(FlattenSeq(ps)) :
              \E i \in 0 .. Len(os) : Scanned(json)[k].objects = SubSeq(os, 1, i)
<1> DEFINE F(n) == FlattenSeq(SubSeq(ps, 1, n))
           Found(i) == SubSeq(os, 1, i)
           C(n) == /\ \E c \in Nat : Scanned(json)[p + Len(F(n))] = St(0, c, "json", Found(n))
                   /\ \A k \in p .. p + Len(F(n)) :
                        \E i \in 0 .. n : Scanned(json)[k].objects = Found(i)
           S == {n \in Nat : n <= Len(os) => C(n)}
<1>0. /\ Len(os) \in Nat /\ Len(ps) = Len(os)
      /\ \A n \in 0 .. Len(os) : InText(json, p, F(n))
  BY FlattenInText DEF Listed
<1>1. 0 \in S
  <2>1. F(0) = <<>> /\ Len(F(0)) = 0 /\ Found(0) = <<>>
    <3>1. SubSeq(ps, 1, 0) = <<>> /\ SubSeq(os, 1, 0) = <<>> /\ Len(<<>>) = 0
      OBVIOUS
    <3> QED BY Zenon, <3>1, FlattenEmpty
  <2> HIDE DEF F, Found
  <2>2. p + Len(F(0)) = p /\ \A k \in p .. p + Len(F(0)) : k = p
    <3> DEFINE l == Len(F(0))
    <3>1. l = 0
      BY <2>1
    <3> HIDE DEF l
    <3>2. p + l = p /\ \A k \in p .. p + l : k = p
      BY <3>1
    <3> QED BY <3>2 DEF l
  <2>3. St(0, b, "json", <<>>).objects = <<>>
    BY DEF St
  <2>4. \A k \in p .. p + Len(F(0)) : Scanned(json)[k].objects = Found(0)
    BY <2>1, <2>2, <2>3
  <2>5. C(0)
    BY <2>1, <2>2, <2>4
  <2> QED BY <2>5
<1>2. ASSUME NEW n \in Nat, n \in S PROVE n + 1 \in S
  <2> SUFFICES ASSUME n + 1 <= Len(os) PROVE C(n + 1)
    OBVIOUS
  <2> DEFINE m == n + 1
             q == p + Len(F(n))
  <2>1. /\ m \in 1 .. Len(os) /\ m \in 0 .. Len(os) /\ n \in 0 .. Len(os)
        /\ m <= Len(ps) /\ n <= Len(os)
    BY <1>0
  <2>2. F(n) \in Text /\ ps[m] \in Text /\ F(m) = F(n) \o ps[m]
    BY Zenon, <2>1, FlattenStep
  <2>3. C(n)
    BY <1>2, <2>1
  <2>4. InText(json, p, F(m))
    BY <1>0, <2>1
  <2>5. Append(Found(n), os[m]) = Found(m) /\ Found(n) \in Seq(Text)
    BY <1>0, <2>1
  <2> HIDE DEF F, Found
  <2>6. PICK c \in Nat : Scanned(json)[q] = St(0, c, "json", Found(n))
    BY <2>3
  <2> HIDE DEF m
  <2>7. PICK sep \in Separators : ps[m] = os[m] \o sep
    BY Zenon, <2>1 DEF Listed
  <2>8. /\ InText(json, q, ps[m]) /\ Len(F(m)) = Len(F(n)) + Len(ps[m])
        /\ q \in Nat /\ Len(ps[m]) \in Nat /\ Len(F(n)) \in Nat
    <3>1. InText(json, p, F(n) \o ps[m])
      BY <2>2, <2>4
    <3>2. Len(ps[m]) \in Nat /\ Len(F(n)) \in Nat
      BY SMTT(30), <2>2 DEF Text
    <3>3. /\ InText(json, q, ps[m]) /\ Len(F(n) \o ps[m]) = Len(F(n)) + Len(ps[m])
      <4>1. F(n) \in Text /\ ps[m] \in Text
        BY <2>2
      <4> HIDE DEF m
      <4> QED BY <3>1, <4>1, InTextConcat
    <3>4. q \in Nat
      BY <3>2
    <3> HIDE DEF q
    <3> QED BY <2>2, <3>2, <3>3, <3>4
  <2>9. p + Len(F(m)) = q + Len(ps[m])
    <3> DEFINE i == Len(F(n))
               j == Len(ps[m])
               l == Len(F(m))
    <3>1. l = i + j /\ i \in Nat /\ j \in Nat
      BY <2>8
    <3> HIDE DEF i, j, l
    <3>2. p + l = (p + i) + j
      BY <3>1
    <3> QED BY Zenon, <3>2 DEF i, j, l
  <2> HIDE DEF q
  <2>10. /\ Scanned(json)[q + Len(ps[m])] = St(0, q + 1, "json", Found(m))
         /\ \A k \in q .. q + Len(ps[m]) : Scanned(json)[k].objects \in {Found(n), Found(m)}
    <3>1. Object(os[m])
      BY <2>1 DEF Listed
    <3> DEFINE found == Found(n)
               o == os[m]
    <3> HIDE DEF S, C, found, o
    <3>2. /\ o \in Text /\ Object(o)
          /\ InText(json, q, o \o sep) /\ ps[m] = o \o sep
      BY <2>1, <2>7, <2>8, <3>1 DEF o
    <3>3. found \in Seq(Text) /\ Scanned(json)[q] = St(0, c, "json", found) /\ q \in Nat
      BY <2>5, <2>6, <2>8 DEF found
    <3>4. Yields(json, q, o \o sep, found, Append(found, o))
      BY <3>2, <3>3, PieceFound
    <3>5. Append(found, o) = Found(m)
      BY <2>5 DEF found, o
    <3> QED BY <3>2, <3>4, <3>5 DEF found, Yields
  <2>11. ASSUME NEW k \in p .. p + Len(F(m))
         PROVE  \E i \in 0 .. m : Scanned(json)[k].objects = Found(i)
    <3>1. CASE k \in p .. q
      <4>1. PICK i \in 0 .. n : Scanned(json)[k].objects = Found(i)
        BY Zenon, <2>3, <3>1 DEF q
      <4>2. i \in 0 .. m
        BY DEF m
      <4> QED BY <4>1, <4>2
    <3>2. CASE k \in q .. q + Len(ps[m])
      <4>1. n \in 0 .. m /\ m \in 0 .. m
        BY DEF m
      <4> QED BY Zenon, <2>10, <3>2, <4>1
    <3>3. k \in p .. q \/ k \in q .. q + Len(ps[m])
      BY <2>8, <2>9
    <3> QED BY <3>1, <3>2, <3>3
  <2>12. q + 1 \in Nat
    BY <2>8
  <2>13. C(m)
    BY <2>9, <2>10, <2>11, <2>12
  <2> QED BY <2>13 DEF m
<1>3. \A n \in Nat : n \in S
  <2> HIDE DEF S
  <2> QED BY Zenon, <1>1, <1>2, NatSetInduction
<1>4. C(Len(os))
  <2> HIDE DEF C
  <2> QED BY <1>0, <1>3
<1>5. F(Len(os)) = FlattenSeq(ps) /\ Found(Len(os)) = os
  <2>1. SubSeq(ps, 1, Len(ps)) = ps /\ SubSeq(os, 1, Len(os)) = os
    OBVIOUS
  <2> QED BY Zenon, <1>0, <2>1
<1> HIDE DEF F
<1> QED BY Zenon, <1>4, <1>5

LEMMA InTextWhole == \A text \in Text : InText(text, 0, text)
BY DEF InText, Text

LEMMA ConcatHead ==
  ASSUME NEW u \in Text, NEW v \in Text, Len(u) >= 1
  PROVE  /\ u \o v \in Text /\ Len(u \o v) = Len(u) + Len(v)
         /\ (u \o v)[1] = u[1] /\ Len(u) \in Nat /\ Len(v) \in Nat
<1>1. Len(u) \in Nat /\ Len(v) \in Nat
  BY DEF Text
<1>2. /\ u \o v \in Text /\ Len(u \o v) = Len(u) + Len(v)
      /\ \A i \in 1 .. Len(u) + Len(v) :
           (u \o v)[i] = IF i <= Len(u) THEN u[i] ELSE v[i - Len(u)]
  BY ConcatProperties DEF Text
<1>3. 1 \in 1 .. Len(u) + Len(v) /\ 1 <= Len(u)
  BY <1>1
<1> QED BY <1>1, <1>2, <1>3

(* An array of objects: what was found at some place are the first of them. *)
LEMMA ArrayScanned ==
  ASSUME NEW os \in Seq(Text), \A k \in 1 .. Len(os) : Object(os[k])
  PROVE  /\ Array(os) \in Text /\ Len(Array(os)) >= 1 /\ Array(os)[1] = "["
         /\ \A k \in 0 .. Len(Array(os)) :
              \E i \in 0 .. Len(os) : Scanned(Array(os))[k].objects = SubSeq(os, 1, i)
         /\ Scanned(Array(os))[Len(Array(os))].objects = os
<1> DEFINE sep(k) == IF k < Len(os) THEN <<Comma>> ELSE <<>>
           ps == [k \in DOMAIN os |-> os[k] \o sep(k)]
           body == FlattenSeq(ps)
           left == <<"[">>
           right == <<"]">>
           u == left \o body
           json == Array(os)
           q == 1 + Len(body)
<1>1. ps \in Seq(Text) /\ Listed(ps, os)
  <2>1. \A k \in 1 .. Len(os) : sep(k) \in Separators
    BY DEF Separators
  <2> HIDE DEF sep
  <2>2. <<>> \in Text /\ <<Comma>> \in Text
    BY SyntaxChars DEF Text
  <2>3. \A s \in Separators : s \in Text
    BY <2>2 DEF Separators
  <2>4. \A k \in 1 .. Len(os) : os[k] \o sep(k) \in Text
    BY <2>1, <2>3 DEF Text
  <2>5. ps \in Seq(Text) /\ Len(ps) = Len(os) /\ \A k \in 1 .. Len(os) : ps[k] = os[k] \o sep(k)
    <3>1. DOMAIN os = 1 .. Len(os) /\ Len(os) \in Nat
      OBVIOUS
    <3> QED BY <2>4, <3>1
  <2> QED BY Zenon, <2>1, <2>5 DEF Listed
<1>2. json = u \o right
  BY DEF Array
<1> HIDE DEF sep, ps
<1>3. body \in Text
  BY <1>1, FlattenType DEF Text
<1>4. /\ left \in Text /\ Len(left) = 1 /\ Leads(left, "json", "json")
      /\ right \in Text /\ Len(right) = 1 /\ Leads(right, "json", "json")
      /\ left[1] = "["
  BY SyntaxChars, LeadsChars DEF Text
<1> HIDE DEF left, right, body
<1>5. u \in Text /\ Len(u) = q /\ u[1] = "[" /\ Len(body) \in Nat /\ q \in Nat
  <2>1. Len(left) >= 1
    BY <1>4
  <2>2. /\ u \in Text /\ Len(u) = Len(left) + Len(body) /\ u[1] = left[1]
        /\ Len(left) \in Nat /\ Len(body) \in Nat
    BY Zenon, <1>3, <1>4, <2>1, ConcatHead
  <2> QED BY <1>4, <2>2
<1> HIDE DEF u
<1>6. json \in Text /\ Len(json) = q + 1 /\ json[1] = "["
  <2>1. Len(u) >= 1
    BY <1>5
  <2>2. /\ json \in Text /\ Len(json) = Len(u) + Len(right) /\ json[1] = u[1]
    BY ZenonT(60), <1>2, <1>4, <1>5, <2>1, ConcatHead
  <2> QED BY <1>4, <1>5, <2>2
<1> HIDE DEF json
<1>7. InText(json, 0, u) /\ InText(json, q, right)
  <2>1. InText(json, 0, u \o right) /\ right \in Text /\ u \in Text
    BY <1>2, <1>4, <1>5, <1>6, InTextWhole
  <2>2. InText(json, 0, u) /\ InText(json, 0 + Len(u), right)
    BY <1>6, <2>1, InTextConcat
  <2>3. 0 + Len(u) = q
    BY <1>5
  <2> QED BY <2>2, <2>3
<1>8. InText(json, 0, left) /\ InText(json, 1, body)
  <2>1. InText(json, 0, left \o body) /\ left \in Text
    BY <1>4, <1>7 DEF u
  <2>2. InText(json, 0, left) /\ InText(json, 0 + Len(left), body)
    BY <1>3, <1>6, <2>1, InTextConcat
  <2>3. 0 + Len(left) = 1
    BY <1>4
  <2> QED BY Zenon, <2>2, <2>3
<1> HIDE DEF q
<1>9. Scanned(json)[0] = St(0, 0, "json", <<>>)
  <2>1. Len(json) \in Nat
    BY <1>5, <1>6
  <2> QED BY <2>1, ScannedEquation
<1>10. /\ Scanned(json)[1] = St(0, 0, "json", <<>>)
       /\ \A k \in 0 .. 1 : Scanned(json)[k].objects = <<>>
  <2>1. <<>> \in Seq(Text) /\ 0 + Len(left) = 1
    BY <1>4
  <2>2. /\ Scanned(json)[0 + Len(left)] = St(0, 0, "json", <<>>)
        /\ \A k \in 0 .. 0 + Len(left) : Scanned(json)[k].objects = <<>>
    <3>1. 0 \in Nat
      OBVIOUS
    <3>2. \A p \in Nat, d \in Nat, b \in Nat, found \in Seq(Text) :
            InText(json, p, left) /\ Scanned(json)[p] = St(d, b, "json", found) =>
              /\ Scanned(json)[p + Len(left)] = St(d, b, "json", found)
              /\ \A k \in p .. p + Len(left) : Scanned(json)[k].objects = found
      BY Zenon, <1>4, <1>6 DEF Leads
    <3> QED BY ZenonT(60), <1>8, <1>9, <2>1, <3>1, <3>2
  <2> QED BY Zenon, <2>1, <2>2
<1>11. PICK c \in Nat : Scanned(json)[q] = St(0, c, "json", os)
  <2>1. 1 + Len(body) = q
    BY DEF q
  <2> QED BY <1>1, <1>6, <1>8, <1>10, <2>1, PiecesFound DEF body
<1>12. \A k \in 1 .. q : \E i \in 0 .. Len(os) : Scanned(json)[k].objects = SubSeq(os, 1, i)
  <2>1. 1 + Len(body) = q
    BY DEF q
  <2> QED BY SMTT(30), <1>1, <1>6, <1>8, <1>10, <2>1, PiecesFound DEF body
<1>13. /\ Scanned(json)[q + 1] = St(0, c, "json", os)
       /\ \A k \in q .. q + 1 : Scanned(json)[k].objects = os
  <2>1. /\ Scanned(json)[q + Len(right)] = St(0, c, "json", os)
        /\ \A k \in q .. q + Len(right) : Scanned(json)[k].objects = os
    BY <1>4, <1>5, <1>6, <1>7, <1>11 DEF Leads
  <2> QED BY <1>4, <2>1
<1>14. Scanned(json)[Len(json)].objects = os
  BY <1>5, <1>6, <1>13
<1>15. ASSUME NEW k \in 0 .. Len(json)
       PROVE  \E i \in 0 .. Len(os) : Scanned(json)[k].objects = SubSeq(os, 1, i)
  <2>1. CASE k = 0
    <3>1. Scanned(json)[k].objects = <<>>
      BY <1>10, <2>1
    <3>2. SubSeq(os, 1, 0) = <<>> /\ 0 \in 0 .. Len(os)
      OBVIOUS
    <3> QED BY <3>1, <3>2
  <2>2. CASE k \in 1 .. q
    BY <1>12, <2>2
  <2>3. CASE k = q + 1
    <3>1. SubSeq(os, 1, Len(os)) = os /\ Len(os) \in 0 .. Len(os)
      OBVIOUS
    <3>2. Scanned(json)[k].objects = os
      BY <1>5, <1>13, <2>3
    <3> QED BY <3>1, <3>2
  <2>4. k = 0 \/ k \in 1 .. q \/ k = q + 1
    BY <1>5, <1>6
  <2> QED BY <2>1, <2>2, <2>3, <2>4
<1>16. Len(json) >= 1
  BY <1>5, <1>6
<1> QED BY <1>6, <1>14, <1>15, <1>16 DEF json

(* parse_json_array returns the first objects of an array that was cut off, *)
(* as they were written, and all of them if nothing was cut off.            *)
THEOREM ArrayRead ==
  ASSUME NEW os \in Seq(Text), \A k \in 1 .. Len(os) : Object(os[k]),
         NEW n \in Nat \ {0}
  PROVE  \E m \in 0 .. Len(os) :
           /\ ParseArray(Cut(Array(os), n)) = SubSeq(os, 1, m)
           /\ Len(Array(os)) < n => m = Len(os)
<1> DEFINE json == Array(os)
           l == IF Len(json) < n THEN Len(json) ELSE n - 1
           cut == SubSeq(json, 1, l)
<1>1. /\ json \in Text /\ Len(json) >= 1 /\ json[1] = "["
      /\ \A k \in 0 .. Len(json) :
           \E i \in 0 .. Len(os) : Scanned(json)[k].objects = SubSeq(os, 1, i)
      /\ Scanned(json)[Len(json)].objects = os
  BY ArrayScanned
<1> HIDE DEF json
<1>2. Len(json) \in Nat
  BY <1>1 DEF Text
<1>3. l \in 0 .. Len(json) /\ (Len(json) < n => l = Len(json))
  BY <1>2
<1>4. Cut(json, n) = cut
  BY DEF Cut
<1> HIDE DEF l
<1>5. /\ cut \in Text /\ Len(cut) = l
      /\ \A k \in 0 .. l : Scanned(cut)[k] = Scanned(json)[k]
  BY <1>1, <1>3, ScannedPrefix
<1>6. SubSeq(os, 1, 0) = <<>> /\ SubSeq(os, 1, Len(os)) = os /\ Len(os) \in 0 .. Len(os)
      /\ 0 \in 0 .. Len(os)
  OBVIOUS
<1>7. CASE l = 0
  <2>1. cut = <<>>
    <3> HIDE DEF cut
    <3> QED BY <1>5, <1>7 DEF Text
  <2>2. ParseArray(cut) = <<>>
    BY <2>1 DEF ParseArray
  <2>3. ~ (Len(json) < n)
    BY <1>1, <1>2, <1>3, <1>7
  <2> QED BY <1>4, <1>6, <2>2, <2>3 DEF json
<1>8. CASE l # 0
  <2>1. cut[1] = "["
    BY <1>1, <1>2, <1>3, <1>8 DEF Text
  <2> HIDE DEF cut
  <2>2. cut # <<>> /\ l \in 0 .. l
    BY <1>3, <1>5, <1>8
  <2>3. ParseArray(cut) = Scanned(json)[l].objects
    BY <1>5, <2>1, <2>2 DEF ParseArray
  <2>4. CASE Len(json) < n
    <3>1. ParseArray(cut) = SubSeq(os, 1, Len(os))
      BY <1>1, <1>3, <1>6, <2>3, <2>4
    <3> QED BY <1>4, <1>6, <3>1 DEF json
  <2>5. CASE ~ (Len(json) < n)
    BY <1>1, <1>3, <1>4, <2>3, <2>5 DEF json
  <2> QED BY <2>4, <2>5
<1> QED BY <1>7, <1>8

-----------------------------------------------------------------------------
(* Reading a string                                                        *)

Rd(mode, value) == [mode |-> mode, value |-> value]

LEMMA ReadEquation ==
  ASSUME NEW text, NEW from \in Nat, Len(text) \in Nat, from <= Len(text) + 1
  PROVE  /\ ReadFrom(text, from)[from - 1] = Rd("open", <<>>)
         /\ \A k \in from .. Len(text) :
              ReadFrom(text, from)[k] = Read(text, ReadFrom(text, from)[k - 1], k)
<1> DEFINE p == from - 1
           E(f, n) == f = [k \in p .. n |-> IF k = p THEN Rd("open", <<>>)
                                           ELSE Read(text, f[k - 1], k)]
           S == {n \in Nat : \E f : E(f, p + n)}
<1>0. p \in Int
  OBVIOUS
<1> HIDE DEF p
<1>1. 0 \in S
  <2> DEFINE g == [k \in p .. p |-> Rd("open", <<>>)]
  <2>1. g = [k \in p .. p |-> IF k = p THEN Rd("open", <<>>) ELSE Read(text, g[k - 1], k)]
    BY <1>0
  <2>2. E(g, p)
    BY <2>1
  <2>3. p + 0 = p
    BY <1>0
  <2> HIDE DEF E
  <2> QED BY <2>2, <2>3
<1>2. ASSUME NEW n \in Nat, n \in S PROVE n + 1 \in S
  <2> DEFINE m == p + n
             l == p + (n + 1)
  <2>0. m \in Int /\ l = m + 1 /\ p <= m
    BY <1>0
  <2>1. PICK f : E(f, m)
    BY <1>2
  <2> HIDE DEF m, l
  <2> DEFINE g == [k \in p .. l |-> IF k = p THEN Rd("open", <<>>) ELSE Read(text, f[k - 1], k)]
  <2>2. \A k \in p .. m : g[k] = f[k]
    <3>1. \A k \in p .. m : k \in p .. l
      BY <1>0, <2>0
    <3> QED BY <2>1, <3>1
  <2>3. \A k \in p .. l : k # p => g[k - 1] = f[k - 1]
    <3> HIDE DEF g
    <3>1. \A k \in p .. l : k # p => k - 1 \in p .. m
      BY <1>0, <2>0
    <3> QED BY <2>2, <3>1
  <2>4. E(g, l)
    BY <2>3
  <2> HIDE DEF g, E
  <2> QED BY <2>4 DEF l
<1>3. \A n \in Nat : n \in S
  <2> HIDE DEF S
  <2> QED BY <1>1, <1>2, NatSetInduction
<1>4. \E f : E(f, Len(text))
  <2>1. Len(text) - p \in Nat /\ p + (Len(text) - p) = Len(text)
    BY <1>0 DEF p
  <2>2. \E f : E(f, p + (Len(text) - p))
    <3> HIDE DEF E
    <3> QED BY <1>3, <2>1
  <2> HIDE DEF E
  <2> QED BY <2>1, <2>2
<1>5. E(CHOOSE f : E(f, Len(text)), Len(text))
  BY Zenon, <1>4
<1>6. ReadFrom(text, from) = CHOOSE f : E(f, Len(text))
  BY DEF ReadFrom, Rd, p
<1>7. E(ReadFrom(text, from), Len(text))
  BY Zenon, <1>5, <1>6
<1>8. \A k \in p .. Len(text) :
        ReadFrom(text, from)[k] = IF k = p THEN Rd("open", <<>>)
                                  ELSE Read(text, ReadFrom(text, from)[k - 1], k)
  BY Zenon, <1>7
<1>9. \A k \in from .. Len(text) : k \in p .. Len(text) /\ k # p
  BY DEF p
<1>10. p \in p .. Len(text)
  BY <1>0 DEF p
<1> QED BY <1>8, <1>9, <1>10 DEF p

LEMMA ReadClosed ==
  ASSUME NEW text, NEW k, NEW v
  PROVE  Read(text, Rd("closed", v), k) = Rd("closed", v)
BY DEF Read, Rd

LEMMA ReadEscape ==
  ASSUME NEW text, NEW k, NEW v
  PROVE  Read(text, Rd("escape", v), k) = Rd("open", Append(v, Meant(text[k])))
BY DEF Read, Rd

LEMMA ReadOpen ==
  ASSUME NEW text, NEW k, NEW v
  PROVE  /\ text[k] \notin {Quote, Backslash} =>
              Read(text, Rd("open", v), k) = Rd("open", Append(v, text[k]))
         /\ text[k] = Backslash /\ k < Len(text) =>
              Read(text, Rd("open", v), k) = Rd("escape", v)
         /\ text[k] = Quote =>
              Read(text, Rd("open", v), k) = Rd("closed", v)
<1> DEFINE r == Rd("open", v)
<1>1. r.mode = "open" /\ r.value = v
  BY DEF Rd
<1>2. Quote # Backslash
  BY Zenon DEF Quote, Backslash
<1> HIDE DEF r
<1> QED BY <1>1, <1>2 DEF Read, Rd

LEMMA MeantLetter ==
  /\ \A c \in Special : Meant(Letter[c]) = c
<1>1. \A c, d \in Special : Letter[c] = Letter[d] => c = d
  BY Zenon DEF Special, Letter, Quote, Backslash
<1>2. \A c \in Special : Letter[c] \in {Letter[k] : k \in Special}
  OBVIOUS
<1> QED BY <1>1, <1>2 DEF Meant

-----------------------------------------------------------------------------
(* How words are read                                                      *)

(* Behind word, which is not at the end, a value is longer by more.         *)
Adds(word, more) ==
  \A text \in Text, from \in Nat, p \in Nat, v \in Text :
    /\ from <= p + 1 /\ p + Len(word) < Len(text) /\ InText(text, p, word)
    /\ ReadFrom(text, from)[p] = Rd("open", v)
    => ReadFrom(text, from)[p + Len(word)] = Rd("open", v \o more)

LEMMA AddsEmpty == Adds(<<>>, <<>>)
<1> DEFINE w == <<>>
<1>1. Len(w) = 0 /\ \A v \in Text : v \o w = v
  BY ConcatEmptySeq DEF Text
<1> HIDE DEF w
<1>2. ASSUME NEW text \in Text, NEW from \in Nat, NEW p \in Nat, NEW v \in Text,
             ReadFrom(text, from)[p] = Rd("open", v)
      PROVE  ReadFrom(text, from)[p + Len(w)] = Rd("open", v \o w)
  <2>1. p + Len(w) = p /\ v \o w = v
    BY <1>1
  <2> QED BY <1>2, <2>1
<1>3. Adds(w, w)
  BY <1>2 DEF Adds
<1> QED BY <1>3 DEF w

LEMMA TextConcat ==
  /\ \A u, v \in Text : u \o v \in Text
  /\ \A u, v, w \in Text : (u \o v) \o w = u \o (v \o w)
<1>1. \A u, v \in Seq(Chars) : u \o v \in Seq(Chars)
  BY ConcatProperties, Zenon
<1>2. \A u, v, w \in Seq(Chars) : (u \o v) \o w = u \o (v \o w)
  BY SMTT(30), ConcatAssociative
<1> QED BY <1>1, <1>2, Zenon DEF Text

LEMMA AddsConcat ==
  ASSUME NEW u \in Text, NEW v \in Text, NEW x \in Text, NEW y \in Text,
         Adds(u, x), Adds(v, y)
  PROVE  Adds(u \o v, x \o y)
<1> SUFFICES ASSUME NEW text \in Text, NEW from \in Nat, NEW p \in Nat, NEW val \in Text,
                    from <= p + 1, p + Len(u \o v) < Len(text), InText(text, p, u \o v),
                    ReadFrom(text, from)[p] = Rd("open", val)
             PROVE  ReadFrom(text, from)[p + Len(u \o v)] = Rd("open", val \o (x \o y))
  BY DEF Adds
<1>1. /\ InText(text, p, u) /\ InText(text, p + Len(u), v)
      /\ Len(u \o v) = Len(u) + Len(v)
  BY InTextConcat
<1> DEFINE q == p + Len(u)
<1>2. /\ Len(u) \in Nat /\ Len(v) \in Nat /\ Len(text) \in Nat
      /\ q \in Nat /\ from <= q + 1 /\ q < Len(text) /\ q + Len(v) < Len(text)
      /\ p + Len(u \o v) = q + Len(v) /\ InText(text, q, v)
  <2>1. Len(u) \in Nat /\ Len(v) \in Nat /\ Len(text) \in Nat
    BY DEF Text
  <2> QED BY <1>1, <2>1
<1>3. ReadFrom(text, from)[q] = Rd("open", val \o x)
  BY <1>1, <1>2 DEF Adds
<1> DEFINE z == val \o x
<1>4. z \in Text /\ z \o y = val \o (x \o y)
  <2>1. val \o x \in Text
    BY TextConcat
  <2>2. (val \o x) \o y = val \o (x \o y)
    <3>1. \A a, b, c \in Text : (a \o b) \o c = a \o (b \o c)
      BY Zenon, TextConcat
    <3> HIDE DEF q
    <3> QED BY ZenonT(60), <3>1
  <2> QED BY <2>1, <2>2, Zenon
<1> HIDE DEF q
<1>5. ReadFrom(text, from)[q] = Rd("open", z)
  BY <1>3
<1> HIDE DEF z
<1>6. ReadFrom(text, from)[q + Len(v)] = Rd("open", z \o y)
  <2>1. \A r \in Nat, a \in Text :
          /\ from <= r + 1 /\ r + Len(v) < Len(text) /\ InText(text, r, v)
          /\ ReadFrom(text, from)[r] = Rd("open", a)
          => ReadFrom(text, from)[r + Len(v)] = Rd("open", a \o y)
    BY DEF Adds
  <2>2. z \in Text
    BY <1>4
  <2> QED BY <1>2, <1>5, <2>1, <2>2
<1> QED BY <1>2, <1>4, <1>6, Zenon

LEMMA AddsPiece ==
  ASSUME NEW special \in SUBSET Special, NEW c \in Harmless(special)
  PROVE  Adds(Piece(c, special), <<c>>)
<1> SUFFICES ASSUME NEW text \in Text, NEW from \in Nat, NEW p \in Nat, NEW v \in Text,
                    from <= p + 1, p + Len(Piece(c, special)) < Len(text),
                    InText(text, p, Piece(c, special)),
                    ReadFrom(text, from)[p] = Rd("open", v)
             PROVE  ReadFrom(text, from)[p + Len(Piece(c, special))] = Rd("open", v \o <<c>>)
  BY DEF Adds
<1> DEFINE k == p + 1
           j == p + 2
<1>0. Len(text) \in Nat /\ v \o <<c>> = Append(v, c)
  BY DEF Harmless, Text
<1>1. CASE c \in special
  <2>1. Piece(c, special) = <<Backslash, Letter[c]>> /\ Len(Piece(c, special)) = 2
    BY <1>1 DEF Piece
  <2>2. /\ text[k] = Backslash /\ text[j] = Letter[c] /\ k < Len(text)
        /\ k \in from .. Len(text) /\ j \in from .. Len(text) /\ from <= Len(text) + 1
        /\ k - 1 = p /\ j - 1 = k
    <3>1. 1 \in 1 .. Len(Piece(c, special)) /\ 2 \in 1 .. Len(Piece(c, special))
      BY <2>1
    <3>2. text[p + 1] = Piece(c, special)[1] /\ text[p + 2] = Piece(c, special)[2]
      BY <3>1 DEF InText
    <3> QED BY SMTT(30), <1>0, <2>1, <3>2
  <2> HIDE DEF k, j
  <2>3. /\ ReadFrom(text, from)[k] = Read(text, Rd("open", v), k)
        /\ ReadFrom(text, from)[j] = Read(text, ReadFrom(text, from)[k], j)
    BY SMTT(30), <1>0, <2>2, ReadEquation
  <2>4. ReadFrom(text, from)[k] = Rd("escape", v)
    BY <2>2, <2>3, ReadOpen
  <2>5. ReadFrom(text, from)[j] = Rd("open", Append(v, Meant(Letter[c])))
    BY <2>2, <2>3, <2>4, ReadEscape
  <2>6. Meant(Letter[c]) = c
    BY <1>1, MeantLetter
  <2> QED BY Zenon, <1>0, <2>1, <2>5, <2>6 DEF j
<1>2. CASE c \notin special
  <2>1. Piece(c, special) = <<c>> /\ Len(Piece(c, special)) = 1
    BY <1>2 DEF Piece
  <2>2. /\ text[k] = c /\ k \in from .. Len(text) /\ from <= Len(text) + 1 /\ k - 1 = p
    <3>1. 1 \in 1 .. Len(Piece(c, special))
      BY <2>1
    <3>2. text[p + 1] = Piece(c, special)[1]
      BY <3>1 DEF InText
    <3> QED BY <1>0, <2>1, <3>2
  <2>3. c \notin {Quote, Backslash}
    BY <1>2 DEF Harmless
  <2> HIDE DEF k
  <2>4. ReadFrom(text, from)[k] = Read(text, Rd("open", v), k)
    BY <1>0, <2>2, ReadEquation
  <2>5. ReadFrom(text, from)[k] = Rd("open", Append(v, c))
    BY <2>2, <2>3, <2>4, ReadOpen
  <2> QED BY Zenon, <1>0, <2>1, <2>5 DEF k
<1> QED BY <1>1, <1>2

LEMMA AddsEscape ==
  ASSUME NEW special \in SUBSET Special
  PROVE  \A text \in Seq(Harmless(special)) : Adds(Escape(text, special), text)
<1> DEFINE T == {text \in Text : Adds(Escape(text, special), text)}
<1>1. <<>> \in T
  <2>1. <<>> \in Text
    BY DEF Text
  <2> QED BY <2>1, EscapeEmpty, AddsEmpty
<1>2. ASSUME NEW text \in Seq(Harmless(special)), NEW c \in Harmless(special), text \in T
      PROVE  Append(text, c) \in T
  <2>1. c \in Chars /\ text \in Text /\ Append(text, c) \in Text
    BY <1>2 DEF Harmless, Text
  <2>2. Escape(Append(text, c), special) = Escape(text, special) \o Piece(c, special)
    BY <1>2, <2>1, EscapeAppend
  <2>3. Escape(text, special) \in Text /\ Piece(c, special) \in Text /\ <<c>> \in Text
    BY <2>1, EscapeType, PieceType DEF Text
  <2>4. Adds(Escape(text, special) \o Piece(c, special), text \o <<c>>)
    BY <1>2, <2>1, <2>3, AddsPiece, AddsConcat
  <2>5. text \o <<c>> = Append(text, c)
    BY <2>1 DEF Text
  <2> QED BY Zenon, <2>1, <2>2, <2>4, <2>5
<1>3. \A text \in Seq(Harmless(special)) : text \in T
  <2> HIDE DEF T
  <2> QED BY <1>1, <1>2, SeqSetInduction
<1> QED BY <1>3

(* Behind the closing quote nothing is read any more.                       *)
LEMMA ReadToTheEnd ==
  ASSUME NEW text \in Text, NEW from \in Nat, NEW p \in Nat, NEW v \in Text,
         from <= p + 1, p <= Len(text), ReadFrom(text, from)[p] = Rd("closed", v)
  PROVE  Unescape(text, from) = v
<1> DEFINE S == {n \in Nat : p + n <= Len(text) =>
                              ReadFrom(text, from)[p + n] = Rd("closed", v)}
<1>0. Len(text) \in Nat /\ from <= Len(text) + 1
  <2>1. Len(text) \in Nat
    BY DEF Text
  <2> QED BY <2>1
<1>1. 0 \in S
  OBVIOUS
<1>2. ASSUME NEW n \in Nat, n \in S PROVE n + 1 \in S
  <2> SUFFICES ASSUME p + (n + 1) <= Len(text)
               PROVE  ReadFrom(text, from)[p + (n + 1)] = Rd("closed", v)
    OBVIOUS
  <2> DEFINE k == p + (n + 1)
  <2>1. k \in from .. Len(text) /\ k - 1 = p + n /\ p + n <= Len(text)
    BY <1>0
  <2>2. ReadFrom(text, from)[p + n] = Rd("closed", v)
    BY <1>2, <2>1
  <2> HIDE DEF k
  <2>3. ReadFrom(text, from)[k] = Read(text, Rd("closed", v), k)
    BY <1>0, <2>1, <2>2, ReadEquation
  <2> QED BY <2>3, ReadClosed DEF k
<1>3. \A n \in Nat : n \in S
  <2> HIDE DEF S
  <2> QED BY Zenon, <1>1, <1>2, NatSetInduction
<1>4. Len(text) - p \in Nat /\ p + (Len(text) - p) = Len(text)
  BY <1>0
<1>5. Len(text) - p \in S
  <2> HIDE DEF S
  <2> QED BY <1>3, <1>4
<1>6. ReadFrom(text, from)[Len(text)] = Rd("closed", v)
  BY <1>0, <1>4, <1>5
<1> QED BY <1>6 DEF Unescape, Rd

(* Reading takes back what escaping did, whatever stands behind the quote.  *)
THEOREM UnescapeEscape ==
  ASSUME NEW special \in SUBSET Special, NEW t \in Seq(Harmless(special)),
         NEW text \in Text, NEW p \in Nat,
         InText(text, p, Escape(t, special) \o <<Quote>>)
  PROVE  Unescape(text, p + 1) = t
<1> DEFINE w == Escape(t, special)
           from == p + 1
           q == p + Len(w)
           k == q + 1
           right == <<Quote>>
<1>1. w \in Text /\ t \in Text /\ right \in Text /\ Len(right) = 1 /\ right[1] = Quote
  <2>1. t \in Text
    BY DEF Harmless, Text
  <2> QED BY <2>1, EscapeType, SyntaxChars DEF Text
<1>2. Adds(w, t)
  BY AddsEscape
<1> HIDE DEF w, right
<1>3. InText(text, p, w) /\ InText(text, q, right)
  <2>1. InText(text, p, w \o right)
    BY DEF w, right
  <2> QED BY <1>1, <2>1, InTextConcat
<1>4. /\ Len(text) \in Nat /\ Len(w) \in Nat /\ q \in Nat /\ q < Len(text)
      /\ from \in Nat /\ from - 1 = p /\ from <= p + 1 /\ from <= Len(text) + 1
      /\ k \in from .. Len(text) /\ k - 1 = q /\ from <= k + 1 /\ k \in Nat
      /\ text[k] = Quote
  <2>1. Len(text) \in Nat /\ Len(w) \in Nat
    BY <1>1 DEF Text
  <2>2. q + 1 <= Len(text)
    BY <1>1, <1>3 DEF InText
  <2>3. 1 \in 1 .. Len(right)
    BY <1>1
  <2>4. text[q + 1] = Quote
    BY <1>1, <1>3, <2>3 DEF InText
  <2> QED BY <2>1, <2>2, <2>4
<1> HIDE DEF k, from
<1>5. ReadFrom(text, from)[p] = Rd("open", <<>>)
  BY <1>4, ReadEquation
<1>6. ReadFrom(text, from)[q] = Rd("open", <<>> \o t)
  <2>1. <<>> \in Text
    BY DEF Text
  <2>2. p + Len(w) < Len(text)
    BY <1>4
  <2>3. \A f \in Nat, v \in Text :
          f <= p + 1 /\ ReadFrom(text, f)[p] = Rd("open", v)
          => ReadFrom(text, f)[p + Len(w)] = Rd("open", v \o t)
    BY <1>2, <1>3, <2>2 DEF Adds
  <2> QED BY Zenon, <1>4, <1>5, <2>1, <2>3
<1>7. <<>> \o t = t
  BY <1>1, ConcatEmptySeq DEF Text
<1>8. ReadFrom(text, from)[k] = Read(text, ReadFrom(text, from)[q], k)
  <2>1. \A j \in from .. Len(text) :
          ReadFrom(text, from)[j] = Read(text, ReadFrom(text, from)[j - 1], j)
    BY Zenon, <1>4, ReadEquation
  <2>2. k \in from .. Len(text) /\ k - 1 = q
    BY <1>4
  <2> HIDE DEF q
  <2> QED BY <2>1, <2>2
<1>9. ReadFrom(text, from)[k] = Rd("closed", t)
  BY <1>4, <1>6, <1>7, <1>8, ReadOpen
<1>10. k <= Len(text)
  BY <1>4
<1>11. Unescape(text, from) = t
  <2>1. \A f, r \in Nat :
          f <= r + 1 /\ r <= Len(text) /\ ReadFrom(text, f)[r] = Rd("closed", t)
          => Unescape(text, f) = t
    BY <1>1, ReadToTheEnd
  <2> QED BY <1>4, <1>9, <1>10, <2>1
<1> QED BY <1>11 DEF from

-----------------------------------------------------------------------------
(* json_get                                                                *)

(* The first place of c.                                                    *)
FirstAt(text, c, i) ==
  /\ i \in 1 .. Len(text) /\ text[i] = c
  /\ \A j \in 1 .. i - 1 : text[j] # c

LEMMA FindFirst ==
  ASSUME NEW text \in Text, NEW c, NEW i \in Nat, FirstAt(text, c, i)
  PROVE  Find(text, c) = i
<1> DEFINE I == {j \in 1 .. Len(text) : text[j] = c}
<1>1. i \in I /\ \A j \in I : i <= j
  <2>1. i \in I
    BY DEF FirstAt
  <2>2. ASSUME NEW j \in I PROVE i <= j
    <3>1. j \in Nat /\ j >= 1 /\ text[j] = c
      OBVIOUS
    <3>2. ~ (j <= i - 1)
      BY <3>1 DEF FirstAt
    <3> QED BY <3>1, <3>2
  <2> QED BY <2>1, <2>2
<1>2. \A j \in I : j \in Nat
  OBVIOUS
<1>3. Find(text, c) = IF I # {} THEN Min(I) ELSE 0
  BY DEF Find, SelectInSeq
<1> HIDE DEF I
<1>4. Min(I) = i
  <2>1. Min(I) \in I /\ \A y \in I : Min(I) =< y
    BY Zenon, <1>1 DEF Min
  <2> DEFINE m == Min(I)
  <2>2. m \in Nat /\ i <= m /\ m <= i
    BY Zenon, <1>1, <1>2, <2>1
  <2> HIDE DEF m
  <2>3. m = i
    BY <2>2
  <2> QED BY <2>3 DEF m
<1> QED BY <1>1, <1>3, <1>4

LEMMA GetBare ==
  ASSUME NEW object \in Text, NEW key, NEW i \in Nat, FirstAt(object, key, i),
         i + 1 <= Len(object), object[i + 1] # Quote
  PROVE  JsonGet(object, key) = <<object[i + 1]>>
<1>1. Find(object, key) = i
  BY FindFirst
<1>2. i + 1 # 1 /\ ~ (i + 1 > Len(object))
  BY DEF FirstAt, Text
<1> QED BY <1>1, <1>2 DEF JsonGet

LEMMA GetString ==
  ASSUME NEW object \in Text, NEW key, NEW i \in Nat, FirstAt(object, key, i),
         i + 1 <= Len(object), object[i + 1] = Quote,
         NEW special \in SUBSET Special, NEW t \in Seq(Harmless(special)),
         InText(object, i + 1, Escape(t, special) \o <<Quote>>)
  PROVE  JsonGet(object, key) = t
<1>1. Find(object, key) = i
  BY FindFirst
<1>2. i + 1 # 1 /\ ~ (i + 1 > Len(object))
  BY DEF FirstAt, Text
<1>3. Unescape(object, (i + 1) + 1) = t
  BY UnescapeEscape
<1> QED BY <1>1, <1>2, <1>3 DEF JsonGet

LEMMA QuotedInText ==
  ASSUME NEW text \in Text, NEW p \in Nat, NEW w \in Text, InText(text, p, Quoted(w))
  PROVE  /\ text[p + 1] = Quote /\ p + 1 <= Len(text)
         /\ InText(text, p + 1, w \o <<Quote>>)
         /\ text[p + Len(w) + 2] = Quote
<1> DEFINE q == <<Quote>>
           r == w \o q
<1>1. q \in Text /\ Len(q) = 1 /\ q[1] = Quote
  BY SyntaxChars DEF Text
<1>2. Quoted(w) = q \o r
  <2>1. Quoted(w) = (q \o w) \o q
    BY DEF Quoted
  <2> HIDE DEF q
  <2>2. (q \o w) \o q = q \o (w \o q)
    BY SMTT(30), <1>1, ConcatAssociative DEF Text
  <2> QED BY <2>1, <2>2, Zenon
<1>3. r \in Text
  BY <1>1, TextConcat
<1> HIDE DEF q
<1>4. InText(text, p, q) /\ InText(text, p + 1, r)
  <2>1. InText(text, p, q \o r)
    BY <1>2, Zenon
  <2> HIDE DEF r
  <2>2. InText(text, p, q) /\ InText(text, p + Len(q), r)
    BY Zenon, <1>1, <1>3, <2>1, InTextConcat
  <2> QED BY <1>1, <2>2
<1>5. text[p + 1] = Quote /\ p + 1 <= Len(text)
  <2>1. 1 \in 1 .. Len(q)
    BY <1>1
  <2> QED BY <1>1, <1>4, <2>1 DEF InText
<1>6. Len(w) \in Nat
  BY DEF Text
<1>7. text[p + Len(w) + 2] = Quote
  <2>1. InText(text, p + 1, w \o q)
    BY <1>4
  <2>2. p + 1 \in Nat
    OBVIOUS
  <2>3. InText(text, (p + 1) + Len(w), q)
    BY <1>1, <2>1, <2>2, InTextConcat
  <2>4. 1 \in 1 .. Len(q)
    BY <1>1
  <2>5. text[((p + 1) + Len(w)) + 1] = Quote
    BY <1>1, <2>3, <2>4 DEF InText
  <2>6. ((p + 1) + Len(w)) + 1 = p + Len(w) + 2
    BY <1>6
  <2> QED BY <2>5, <2>6
<1> QED BY <1>4, <1>5, <1>7 DEF q

LEMMA QuotedType ==
  ASSUME NEW w \in Text
  PROVE  Quoted(w) \in Text /\ Len(Quoted(w)) = Len(w) + 2
<1> DEFINE q == <<Quote>>
<1>1. q \in Text /\ Len(q) = 1
  BY SyntaxChars DEF Text
<1>2. Quoted(w) = (q \o w) \o q
  BY DEF Quoted
<1> HIDE DEF q
<1> DEFINE u == q \o w
<1>3. u \in Text /\ Len(u) = 1 + Len(w) /\ Len(w) \in Nat
  <2>1. u \in Text /\ Len(u) = Len(q) + Len(w) /\ Len(w) \in Nat
    <3>1. Len(q) >= 1
      BY <1>1
    <3> QED BY Zenon, <1>1, <3>1, ConcatHead
  <2> HIDE DEF u
  <2> QED BY <1>1, <2>1
<1>4. Quoted(w) = u \o q
  BY <1>2
<1> HIDE DEF u
<1>5. u \o q \in Text /\ Len(u \o q) = Len(u) + 1
  BY SMTT(30), <1>1, <1>3, ConcatProperties DEF Text
<1> QED BY <1>3, <1>4, <1>5

(* A string and a word without quotes and braces leave the scanner as is.   *)
LEMMA LeadsQuoted ==
  ASSUME NEW special \in SUBSET Special, NEW t \in Seq(Harmless(special))
  PROVE  Leads(Quoted(Escape(t, special)), "json", "json")
<1> DEFINE q == <<Quote>>
           w == Escape(t, special)
<1>1. q \in Text /\ Leads(q, "json", "string") /\ Leads(q, "string", "json")
  BY SyntaxChars, LeadsChars DEF Text
<1>2. w \in Text /\ Leads(w, "string", "string")
  <2>1. t \in Text
    BY DEF Harmless, Text
  <2> QED BY <2>1, EscapeType, LeadsEscape
<1>3. Quoted(w) = (q \o w) \o q
  BY DEF Quoted
<1> HIDE DEF q, w
<1>4. q \o w \in Text /\ Leads(q \o w, "json", "string")
  BY <1>1, <1>2, TextConcat, LeadsConcat
<1> DEFINE u == q \o w
<1>5. Quoted(w) = u \o q /\ u \in Text /\ Leads(u, "json", "string")
  BY <1>3, <1>4
<1> HIDE DEF u
<1>6. Leads(u \o q, "json", "json")
  BY <1>1, <1>5, LeadsConcat
<1> QED BY <1>5, <1>6 DEF w

LEMMA LeadsWord ==
  \A w \in Seq(Chars \ {Quote, LBrace, RBrace}) : w \in Text /\ Leads(w, "json", "json")
<1> DEFINE A == Chars \ {Quote, LBrace, RBrace}
           T == {w \in Text : Leads(w, "json", "json")}
<1>1. <<>> \in T
  BY LeadsEmpty DEF Text
<1>2. ASSUME NEW w \in Seq(A), NEW c \in A, w \in T
      PROVE  Append(w, c) \in T
  <2>1. <<c>> \in Text /\ Append(w, c) = w \o <<c>>
    BY DEF Text
  <2>2. Leads(w \o <<c>>, "json", "json")
    BY <1>2, <2>1, LeadsChars, LeadsConcat
  <2>3. w \o <<c>> \in Text
    BY <1>2, <2>1, TextConcat
  <2> QED BY <2>1, <2>2, <2>3
<1>3. \A w \in Seq(A) : w \in T
  <2> HIDE DEF A, T
  <2> QED BY <1>1, <1>2, SeqSetInduction
<1> QED BY <1>3

(* The characters that begin and end nothing.                               *)
Wordly == Chars \ {Quote, LBrace, RBrace}

LEMMA Words ==
  /\ Keys \subseteq Wordly /\ Types \subseteq Wordly /\ Digits \subseteq Wordly
  /\ Comma \in Wordly /\ "true" \in Wordly /\ "false" \in Wordly
  /\ \A c \in Types : c \in Harmless({})
<1>1. /\ \A c \in Keys : c \notin {Quote, LBrace, RBrace}
      /\ \A c \in Types : c \notin {Quote, LBrace, RBrace, Backslash}
      /\ \A c \in {"true", "false", Comma} : c \notin {Quote, LBrace, RBrace}
  BY Zenon DEF Keys, Types, Quote, LBrace, RBrace, Comma, Backslash, IdKey, TypeKey,
               PinnedKey, NameKey, ContentKey
<1>2. /\ Keys \subseteq Chars /\ Types \subseteq Chars /\ {"true", "false"} \subseteq Chars
      /\ Digits \subseteq Chars /\ Comma \in Chars
      /\ \A c \in Digits : c \notin {Quote, LBrace, RBrace}
  BY CodecAssumption DEF Syntax
<1> QED BY <1>1, <1>2 DEF Wordly, Harmless

LEMMA KeysDiffer ==
  /\ LBrace \notin Keys /\ Comma \notin Keys /\ Quote \notin Keys
  /\ \A c \in Digits : c \notin Keys
  /\ \A c \in Types : c \notin Keys
  /\ "true" \notin Keys /\ "false" \notin Keys
  /\ IdKey \in Keys /\ TypeKey \in Keys /\ PinnedKey \in Keys
  /\ NameKey \in Keys /\ ContentKey \in Keys
  /\ IdKey \notin {TypeKey, PinnedKey, ContentKey} /\ TypeKey \notin {PinnedKey, ContentKey}
  /\ PinnedKey # ContentKey /\ NameKey # ContentKey
<1>1. \A c \in Digits : c \notin Keys
  BY CodecAssumption
<1>2. /\ LBrace \notin Keys /\ Comma \notin Keys /\ Quote \notin Keys
      /\ "true" \notin Keys /\ "false" \notin Keys
  BY Zenon DEF Keys, Quote, LBrace, Comma, IdKey, TypeKey, PinnedKey, NameKey, ContentKey
<1>3. \A c \in Types : c \notin Keys
  BY Zenon DEF Keys, Types, IdKey, TypeKey, PinnedKey, NameKey, ContentKey
<1>4. /\ IdKey \in Keys /\ TypeKey \in Keys /\ PinnedKey \in Keys
      /\ NameKey \in Keys /\ ContentKey \in Keys
  BY Zenon DEF Keys
<1>5. /\ IdKey \notin {TypeKey, PinnedKey, ContentKey} /\ TypeKey \notin {PinnedKey, ContentKey}
      /\ PinnedKey # ContentKey /\ NameKey # ContentKey
  BY Zenon DEF IdKey, TypeKey, PinnedKey, NameKey, ContentKey
<1> QED BY <1>1, <1>2, <1>3, <1>4, <1>5

(* Four words one behind the other, in braces.                              *)
InBraces(a, b, c, d) == Braced(((a \o b) \o c) \o d)

Placed(o, a, b, c, d) ==
  /\ o[1] = LBrace /\ Len(o) = Len(a) + Len(b) + Len(c) + Len(d) + 2
  /\ InText(o, 1, a) /\ InText(o, 1 + Len(a), b)
  /\ InText(o, 1 + Len(a) + Len(b), c)
  /\ InText(o, 1 + Len(a) + Len(b) + Len(c), d)

LEMMA FourInBraces ==
  ASSUME NEW a \in Text, NEW b \in Text, NEW c \in Text, NEW d \in Text,
         Leads(a, "json", "json"), Leads(b, "json", "json"),
         Leads(c, "json", "json"), Leads(d, "json", "json"),
         NEW o, o = InBraces(a, b, c, d)
  PROVE  Object(o) /\ o \in Text /\ Placed(o, a, b, c, d)
<1> DEFINE l == <<LBrace>>
           r == <<RBrace>>
           ab == a \o b
           abc == ab \o c
           w == abc \o d
           lw == l \o w
<1>1. /\ l \in Text /\ Len(l) = 1 /\ l[1] = LBrace
      /\ r \in Text /\ Len(r) = 1
  BY SyntaxChars DEF Text
<1>2. o = Braced(w) /\ o = lw \o r
  BY DEF Braced, InBraces
<1>3. Len(a) \in Nat /\ Len(b) \in Nat /\ Len(c) \in Nat /\ Len(d) \in Nat
  BY DEF Text
<1> HIDE DEF l, r
<1>4. ab \in Text /\ Leads(ab, "json", "json")
  BY TextConcat, LeadsConcat
<1> HIDE DEF ab
<1>5. abc \in Text /\ Leads(abc, "json", "json")
  BY <1>4, TextConcat, LeadsConcat
<1> HIDE DEF abc
<1>6. w \in Text /\ Leads(w, "json", "json")
  BY <1>5, TextConcat, LeadsConcat
<1>7. Object(o)
  BY Zenon, <1>2, <1>6 DEF Object
<1> HIDE DEF w
<1>8. lw \in Text /\ lw[1] = l[1] /\ Len(lw) = Len(l) + Len(w)
  <2>1. Len(l) >= 1
    BY <1>1
  <2> QED BY Zenon, <1>1, <1>6, <2>1, ConcatHead
<1> HIDE DEF lw
<1>9. o \in Text /\ o[1] = lw[1] /\ Len(o) = Len(lw) + Len(r)
  <2>1. Len(lw) >= 1
    <3>1. Len(w) \in Nat
      BY <1>6 DEF Text
    <3> QED BY <1>1, <1>8, <3>1
  <2> QED BY ZenonT(60), <1>1, <1>2, <1>8, <2>1, ConcatHead
<1>10. InText(o, 1, w)
  <2>1. InText(o, 0, lw \o r)
    BY <1>2, <1>9, InTextWhole
  <2>2. InText(o, 0, lw)
    BY <1>1, <1>8, <1>9, <2>1, InTextConcat
  <2>3. InText(o, 0, l \o w)
    BY <2>2 DEF lw
  <2>4. InText(o, 0 + Len(l), w)
    BY Zenon, <1>1, <1>6, <1>9, <2>3, InTextConcat
  <2> QED BY <1>1, <2>4
<1>11. InText(o, 1, abc) /\ InText(o, 1 + Len(abc), d) /\ Len(w) = Len(abc) + Len(d)
  <2>1. InText(o, 1, abc \o d) /\ abc \in Text /\ o \in Text
    BY <1>5, <1>9, <1>10 DEF w
  <2> QED BY <2>1, InTextConcat DEF w
<1>12. InText(o, 1, ab) /\ InText(o, 1 + Len(ab), c) /\ Len(abc) = Len(ab) + Len(c)
  <2>1. InText(o, 1, ab \o c)
    BY <1>11 DEF abc
  <2> QED BY <1>4, <1>9, <2>1, InTextConcat DEF abc
<1>13. InText(o, 1, a) /\ InText(o, 1 + Len(a), b) /\ Len(ab) = Len(a) + Len(b)
  <2>1. InText(o, 1, a \o b)
    BY <1>12 DEF ab
  <2> QED BY <1>9, <2>1, InTextConcat DEF ab
<1>14. /\ 1 + Len(ab) = 1 + Len(a) + Len(b)
       /\ 1 + Len(abc) = 1 + Len(a) + Len(b) + Len(c)
       /\ Len(o) = Len(a) + Len(b) + Len(c) + Len(d) + 2
  BY <1>1, <1>3, <1>8, <1>9, <1>11, <1>12, <1>13
<1> QED BY <1>1, <1>7, <1>8, <1>9, <1>11, <1>12, <1>13, <1>14 DEF Placed

LEMMA PlainWord ==
  ASSUME NEW c \in Harmless({})
  PROVE  <<c>> \in Text /\ Escape(<<c>>, {}) = <<c>> /\ <<c>> \in Seq(Harmless({}))
<1>1. <<c>> \in Text
  BY DEF Harmless, Text
<1> QED BY <1>1, EscapeNothing

LEMMA HarmlessText ==
  /\ {} \in SUBSET Special
  /\ \A t \in Text : t \in Seq(Harmless(Special))
  /\ \A t \in Text : t \in Seq(Harmless({Quote, Backslash, "\n"}))
  /\ {Quote, Backslash, "\n"} \in SUBSET Special
<1>1. Chars \subseteq Harmless(Special) /\ Chars \subseteq Harmless({Quote, Backslash, "\n"})
  BY DEF Harmless, Special
<1>2. {Quote, Backslash, "\n"} \in SUBSET Special
  BY DEF Special
<1>3. \A A : Chars \subseteq A => \A t \in Seq(Chars) : t \in Seq(A)
  BY SeqMonotonic
<1> QED BY Zenon, <1>1, <1>2, <1>3 DEF Text

(* What JSON says of an item: json_get finds each field as it was.          *)
THEOREM ItemRead ==
  ASSUME NEW item, Numeral[item.id] \in Digits, item.type \in Types,
         item.pinned \in BOOLEAN, item.content \in Text
  PROVE  /\ Object(ItemObject(item)) /\ ItemObject(item) \in Text
         /\ JsonGet(ItemObject(item), IdKey) = <<Numeral[item.id]>>
         /\ JsonGet(ItemObject(item), TypeKey) = <<item.type>>
         /\ JsonGet(ItemObject(item), PinnedKey) = <<Flag(item.pinned)>>
         /\ JsonGet(ItemObject(item), ContentKey) = item.content
<1> DEFINE n == Numeral[item.id]
           ty == item.type
           f == Flag(item.pinned)
           e == Escape(item.content, Special)
           a == <<IdKey, n, Comma, TypeKey>>
           b == Quoted(<<ty>>)
           c == <<Comma, PinnedKey, f, Comma, ContentKey>>
           d == Quoted(e)
           o == ItemObject(item)
<1>1. n \in Digits /\ ty \in Types /\ f \in {"true", "false"}
  BY DEF Flag
<1>2. /\ {IdKey, TypeKey, PinnedKey, ContentKey, Comma, n, f, ty} \subseteq Wordly
      /\ ty \in Harmless({})
  BY <1>1, Words, KeysDiffer
<1>3. item.content \in Seq(Harmless(Special)) /\ e \in Text
  BY HarmlessText, EscapeType
<1>4. o = InBraces(a, b, c, d)
  BY DEF ItemObject, InBraces
<1> HIDE DEF n, ty, f, e, o
<1>5. /\ a \in Seq(Wordly) /\ Len(a) = 4
      /\ a[1] = IdKey /\ a[2] = n /\ a[3] = Comma /\ a[4] = TypeKey
  BY <1>2
<1>6. /\ c \in Seq(Wordly) /\ Len(c) = 5
      /\ c[1] = Comma /\ c[2] = PinnedKey /\ c[3] = f /\ c[4] = Comma /\ c[5] = ContentKey
  BY <1>2
<1>7. /\ a \in Text /\ Leads(a, "json", "json")
      /\ c \in Text /\ Leads(c, "json", "json")
  <2> HIDE DEF a, c
  <2> QED BY <1>5, <1>6, LeadsWord DEF Wordly
<1>8. /\ <<ty>> \in Text /\ <<ty>> \in Seq(Harmless({})) /\ Len(<<ty>>) = 1
      /\ Escape(<<ty>>, {}) = <<ty>>
  BY <1>2, PlainWord
<1>9. b \in Text /\ Len(b) = 3 /\ Leads(b, "json", "json")
  <2>1. Leads(Quoted(Escape(<<ty>>, {})), "json", "json")
    BY Zenon, <1>8, HarmlessText, LeadsQuoted
  <2>2. b \in Text /\ Len(b) = 1 + 2
    BY Zenon, <1>8, QuotedType
  <2> QED BY <1>8, <2>1, <2>2
<1>10. d \in Text /\ Len(d) \in Nat /\ Leads(d, "json", "json")
  <2>1. d \in Text
    BY <1>3, QuotedType
  <2>2. Leads(d, "json", "json")
    BY <1>3, LeadsQuoted DEF e
  <2> QED BY <2>1, <2>2 DEF Text
<1> HIDE DEF a, b, c, d
<1>11. /\ Object(o) /\ o \in Text /\ o[1] = LBrace /\ Len(o) = Len(d) + 14
       /\ InText(o, 1, a) /\ InText(o, 5, b) /\ InText(o, 8, c) /\ InText(o, 13, d)
  <2>1. /\ Object(o) /\ o \in Text /\ o[1] = LBrace
        /\ Len(o) = Len(a) + Len(b) + Len(c) + Len(d) + 2
        /\ InText(o, 1, a) /\ InText(o, 1 + Len(a), b)
        /\ InText(o, 1 + Len(a) + Len(b), c) /\ InText(o, 1 + Len(a) + Len(b) + Len(c), d)
    <3>1. /\ Leads(a, "json", "json") /\ Leads(b, "json", "json")
          /\ Leads(c, "json", "json") /\ Leads(d, "json", "json")
          /\ a \in Text /\ b \in Text /\ c \in Text /\ d \in Text
      BY <1>7, <1>9, <1>10
    <3>2. Object(o) /\ o \in Text /\ Placed(o, a, b, c, d)
      BY <1>4, <3>1, FourInBraces, Zenon
    <3> QED BY <3>2 DEF Placed
  <2>2. /\ 1 + Len(a) = 5 /\ 1 + Len(a) + Len(b) = 8 /\ 1 + Len(a) + Len(b) + Len(c) = 13
        /\ Len(a) + Len(b) + Len(c) + Len(d) + 2 = Len(d) + 14
    BY <1>5, <1>6, <1>9, <1>10
  <2> QED BY <2>1, <2>2
<1>12. /\ o[2] = IdKey /\ o[3] = n /\ o[4] = Comma /\ o[5] = TypeKey
  <2>1. \A i \in 1 .. 4 : o[1 + i] = a[i]
    BY <1>5, <1>11 DEF InText
  <2> QED BY <1>5, <2>1
<1>13. /\ o[9] = Comma /\ o[10] = PinnedKey /\ o[11] = f /\ o[12] = Comma
       /\ o[13] = ContentKey
  <2>1. \A i \in 1 .. 5 : o[8 + i] = c[i]
    BY Zenon, <1>6, <1>11 DEF InText
  <2> QED BY <1>6, <2>1
<1>14. /\ o[6] = Quote /\ InText(o, 6, <<ty>> \o <<Quote>>) /\ o[7] = ty /\ o[8] = Quote
  <2> DEFINE w == <<ty>>
  <2>1. w \in Text /\ Len(w) = 1 /\ w[1] = ty /\ b = Quoted(w)
    BY <1>8 DEF b
  <2> HIDE DEF w
  <2>2. /\ o[5 + 1] = Quote /\ InText(o, 5 + 1, w \o <<Quote>>)
        /\ o[5 + Len(w) + 2] = Quote
    BY Zenon, <1>11, <2>1, QuotedInText
  <2>3. <<Quote>> \in Text
    BY SyntaxChars DEF Text
  <2>4. InText(o, 6, w)
    BY <1>11, <2>1, <2>2, <2>3, InTextConcat
  <2>5. o[6 + 1] = ty
    BY <2>1, <2>4 DEF InText
  <2> QED BY <2>1, <2>2, <2>5 DEF w
<1>15. o[14] = Quote /\ InText(o, 14, e \o <<Quote>>)
  <2>1. o[13 + 1] = Quote /\ InText(o, 13 + 1, e \o <<Quote>>)
    BY Zenon, <1>3, <1>11, QuotedInText DEF d
  <2> QED BY <2>1
<1>16. \A i \in 1 .. 14 : i \in 1 .. Len(o)
  BY <1>10, <1>11
<1>17. FirstAt(o, IdKey, 2)
  <2>1. \A j \in 1 .. 2 - 1 : o[j] = LBrace
    BY <1>11
  <2> QED BY <1>12, <1>16, <2>1, KeysDiffer DEF FirstAt
<1>18. FirstAt(o, TypeKey, 5)
  <2>1. \A j \in 1 .. 5 - 1 : o[j] \in {LBrace, IdKey, n, Comma}
    BY <1>11, <1>12
  <2>2. TypeKey \notin {LBrace, IdKey, n, Comma}
    BY <1>1, KeysDiffer
  <2> QED BY <1>12, <1>16, <2>1, <2>2 DEF FirstAt
<1>19. \A j \in 1 .. 9 : o[j] \in {LBrace, IdKey, n, Comma, TypeKey, Quote, ty}
  BY <1>11, <1>12, <1>13, <1>14
<1>20. FirstAt(o, PinnedKey, 10)
  <2>1. PinnedKey \notin {LBrace, IdKey, n, Comma, TypeKey, Quote, ty}
    BY <1>1, KeysDiffer
  <2> QED BY SMTT(30), <1>13, <1>16, <1>19, <2>1 DEF FirstAt
<1>21. FirstAt(o, ContentKey, 13)
  <2>1. ContentKey \notin {LBrace, IdKey, n, Comma, TypeKey, Quote, ty}
    BY <1>1, KeysDiffer
  <2>2. \A j \in 1 .. 13 - 1 : j \in 1 .. 9 \/ j \in {10, 11, 12}
    OBVIOUS
  <2>3. ContentKey \notin {PinnedKey, f, Comma}
    BY <1>1, KeysDiffer
  <2>4. \A j \in {10, 11, 12} : o[j] \in {PinnedKey, f, Comma}
    BY <1>13
  <2>5. \A j \in 1 .. 13 - 1 : o[j] # ContentKey
    BY <1>19, <2>1, <2>2, <2>3, <2>4
  <2> QED BY <1>13, <1>16, <2>5 DEF FirstAt
<1>22. JsonGet(o, IdKey) = <<n>>
  <2>1. n # Quote
    BY <1>2 DEF Wordly
  <2>2. 2 + 1 <= Len(o) /\ o[2 + 1] = n
    BY <1>10, <1>11, <1>12
  <2> QED BY <1>11, <1>17, <2>1, <2>2, GetBare
<1>23. JsonGet(o, TypeKey) = <<ty>>
  <2>1. 5 + 1 <= Len(o) /\ o[5 + 1] = Quote
    BY <1>10, <1>11, <1>14
  <2>2. InText(o, 5 + 1, Escape(<<ty>>, {}) \o <<Quote>>)
    BY <1>8, <1>14
  <2>3. {} \in SUBSET Special /\ <<ty>> \in Seq(Harmless({})) /\ o \in Text
    BY <1>8, <1>11
  <2>4. FirstAt(o, TypeKey, 5) /\ 5 \in Nat
    BY <1>18
  <2> DEFINE w == <<ty>>
  <2> HIDE DEF w
  <2>5. JsonGet(o, TypeKey) = w
    BY Zenon, <2>1, <2>2, <2>3, <2>4, GetString DEF w
  <2> QED BY <2>5 DEF w
<1>24. JsonGet(o, PinnedKey) = <<f>>
  <2>1. f # Quote
    BY <1>2 DEF Wordly
  <2>2. 10 + 1 <= Len(o) /\ o[10 + 1] = f
    BY <1>10, <1>11, <1>13
  <2> QED BY <1>11, <1>20, <2>1, <2>2, GetBare
<1>25. JsonGet(o, ContentKey) = item.content
  <2>1. 13 + 1 <= Len(o) /\ o[13 + 1] = Quote
    BY <1>10, <1>11, <1>15
  <2>2. InText(o, 13 + 1, Escape(item.content, Special) \o <<Quote>>)
    BY <1>15 DEF e
  <2> QED BY <1>3, <1>11, <1>21, <2>1, <2>2, GetString
<1> QED BY <1>11, <1>22, <1>23, <1>24, <1>25 DEF o, n, ty, f

(* What JSON says of a snippet whose name needs no escape and has no key.   *)
THEOREM SnippetRead ==
  ASSUME NEW s, s.name \in Seq(Harmless({}) \ Keys), s.content \in Text
  PROVE  /\ Object(SnippetObject(s)) /\ SnippetObject(s) \in Text
         /\ JsonGet(SnippetObject(s), NameKey) = s.name
         /\ JsonGet(SnippetObject(s), ContentKey) = s.content
<1> DEFINE special == {Quote, Backslash, "\n"}
           w == s.name
           t == s.content
           e == Escape(t, special)
           a == <<NameKey>>
           b == Quoted(w)
           c == <<Comma, ContentKey>>
           d == Quoted(e)
           o == SnippetObject(s)
<1>1. /\ w \in Text /\ w \in Seq(Harmless({})) /\ Len(w) \in Nat
      /\ \A i \in 1 .. Len(w) : w[i] \notin Keys
      /\ Escape(w, {}) = w
  <2>1. Harmless({}) \ Keys \subseteq Harmless({}) /\ Harmless({}) \ Keys \subseteq Chars
    BY DEF Harmless
  <2>2. w \in Text /\ w \in Seq(Harmless({}))
    BY <2>1, SeqMonotonic DEF Text
  <2>3. \A i \in 1 .. Len(w) : w[i] \in Harmless({}) \ Keys
    OBVIOUS
  <2>4. Len(w) \in Nat
    BY <2>2 DEF Text
  <2>5. Escape(w, {}) = w
    BY <2>2, EscapeNothing
  <2> QED BY <2>2, <2>3, <2>4, <2>5
<1>2. /\ special \in SUBSET Special /\ t \in Seq(Harmless(special)) /\ e \in Text
  BY Zenon, HarmlessText, EscapeType
<1>3. o = InBraces(a, b, c, d)
  BY DEF SnippetObject, InBraces
<1> HIDE DEF special, w, t, o
<1>4. /\ a \in Seq(Wordly) /\ Len(a) = 1 /\ a[1] = NameKey
      /\ c \in Seq(Wordly) /\ Len(c) = 2 /\ c[1] = Comma /\ c[2] = ContentKey
  BY Words, KeysDiffer
<1>5. /\ a \in Text /\ Leads(a, "json", "json")
      /\ c \in Text /\ Leads(c, "json", "json")
  <2> HIDE DEF a, c
  <2> QED BY <1>4, LeadsWord DEF Wordly
<1>6. b \in Text /\ Len(b) = Len(w) + 2 /\ Leads(b, "json", "json")
  <2>1. Leads(Quoted(Escape(w, {})), "json", "json")
    BY <1>1, HarmlessText, LeadsQuoted
  <2> QED BY <1>1, <2>1, QuotedType
<1>7. d \in Text /\ Len(d) = Len(e) + 2 /\ Len(e) \in Nat /\ Leads(d, "json", "json")
  <2>1. d \in Text /\ Len(d) = Len(e) + 2 /\ Len(e) \in Nat
    BY <1>2, QuotedType DEF Text
  <2>2. Leads(d, "json", "json")
    BY <1>2, LeadsQuoted
  <2> QED BY <2>1, <2>2
<1> HIDE DEF a, b, c, d, e
<1> DEFINE n == Len(w)
<1>8. /\ Object(o) /\ o \in Text /\ o[1] = LBrace /\ Len(o) = n + Len(e) + 9
      /\ InText(o, 1, a) /\ InText(o, 2, b) /\ InText(o, n + 4, c) /\ InText(o, n + 6, d)
  <2>1. Object(o) /\ o \in Text /\ Placed(o, a, b, c, d)
    BY <1>3, <1>5, <1>6, <1>7, FourInBraces, Zenon
  <2>2. /\ 1 + Len(a) = 2 /\ 1 + Len(a) + Len(b) = n + 4
        /\ 1 + Len(a) + Len(b) + Len(c) = n + 6
        /\ Len(a) + Len(b) + Len(c) + Len(d) + 2 = n + Len(e) + 9
    BY <1>1, <1>4, <1>6, <1>7
  <2>3. /\ o[1] = LBrace /\ Len(o) = Len(a) + Len(b) + Len(c) + Len(d) + 2
        /\ InText(o, 1, a) /\ InText(o, 1 + Len(a), b)
        /\ InText(o, 1 + Len(a) + Len(b), c) /\ InText(o, 1 + Len(a) + Len(b) + Len(c), d)
    BY <2>1 DEF Placed
  <2> QED BY <2>1, <2>2, <2>3
<1>9. o[2] = NameKey
  <2>1. \A i \in 1 .. 1 : o[1 + i] = a[i]
    BY <1>4, <1>8 DEF InText
  <2> QED BY <1>4, <2>1
<1>10. o[n + 5] = Comma /\ o[n + 6] = ContentKey
  <2>1. \A i \in 1 .. 2 : o[(n + 4) + i] = c[i]
    BY <1>4, <1>8 DEF InText
  <2>2. (n + 4) + 1 = n + 5 /\ (n + 4) + 2 = n + 6
    BY <1>1
  <2> QED BY <1>4, <2>1, <2>2
<1>11. /\ o[3] = Quote /\ InText(o, 3, w \o <<Quote>>) /\ o[n + 4] = Quote
  <2>1. /\ o[2 + 1] = Quote /\ InText(o, 2 + 1, w \o <<Quote>>)
        /\ o[2 + Len(w) + 2] = Quote
    BY ZenonT(60), <1>1, <1>8, QuotedInText DEF b
  <2>2. 2 + Len(w) + 2 = n + 4
    BY <1>1
  <2> QED BY <2>1, <2>2
<1>12. \A i \in 1 .. n : o[3 + i] = w[i]
  <2>1. <<Quote>> \in Text
    BY SyntaxChars DEF Text
  <2>2. InText(o, 3, w)
    BY <1>1, <1>8, <1>11, <2>1, InTextConcat
  <2> QED BY <2>2 DEF InText
<1>13. o[n + 7] = Quote /\ InText(o, n + 7, e \o <<Quote>>)
  <2>1. n + 6 \in Nat
    BY <1>1
  <2>2. o[(n + 6) + 1] = Quote /\ InText(o, (n + 6) + 1, e \o <<Quote>>)
    BY Zenon, <1>2, <1>8, <2>1, QuotedInText DEF d
  <2>3. (n + 6) + 1 = n + 7
    BY <1>1
  <2> QED BY <2>2, <2>3
<1> HIDE DEF n
<1>14. n \in Nat /\ Len(e) \in Nat /\ Len(o) = n + Len(e) + 9
  BY <1>1, <1>7, <1>8 DEF n
<1>15. FirstAt(o, NameKey, 2)
  <2>1. \A j \in 1 .. 2 - 1 : o[j] = LBrace
    BY <1>8
  <2>2. 2 \in 1 .. Len(o)
    BY <1>14
  <2> QED BY <1>9, <2>1, <2>2, KeysDiffer DEF FirstAt
<1>16. FirstAt(o, ContentKey, n + 6)
  <2>1. ContentKey \notin {LBrace, NameKey, Quote, Comma}
    BY KeysDiffer
  <2>2. ASSUME NEW j \in 1 .. (n + 6) - 1
        PROVE  o[j] # ContentKey
    <3>1. CASE j \in {1, 2, 3, n + 4, n + 5}
      BY <1>8, <1>9, <1>10, <1>11, <2>1, <3>1
    <3>2. CASE j \notin {1, 2, 3, n + 4, n + 5}
      <4>1. j - 3 \in 1 .. n /\ 3 + (j - 3) = j
        BY <1>14, <3>2
      <4>2. o[j] = w[j - 3]
        BY <1>12, <4>1
      <4> QED BY <1>1, <4>1, <4>2, KeysDiffer DEF n
    <3> QED BY <3>1, <3>2
  <2>3. n + 6 \in 1 .. Len(o)
    BY <1>14
  <2> QED BY <1>10, <2>2, <2>3 DEF FirstAt
<1>17. JsonGet(o, NameKey) = w
  <2>1. 2 + 1 <= Len(o) /\ o[2 + 1] = Quote
    BY <1>11, <1>14
  <2>2. InText(o, 2 + 1, Escape(w, {}) \o <<Quote>>)
    BY <1>1, <1>11
  <2> QED BY Zenon, <1>1, <1>8, <1>15, <2>1, <2>2, HarmlessText, GetString
<1>18. JsonGet(o, ContentKey) = t
  <2>1. n + 6 \in Nat /\ (n + 6) + 1 = n + 7 /\ (n + 6) + 1 <= Len(o)
    BY <1>14
  <2>2. InText(o, (n + 6) + 1, Escape(t, special) \o <<Quote>>) /\ o[(n + 6) + 1] = Quote
    BY <1>13, <2>1 DEF e
  <2> QED BY SMTT(30), <1>2, <1>8, <1>16, <2>1, <2>2, GetString
<1> QED BY <1>8, <1>17, <1>18 DEF o, w, t

-----------------------------------------------------------------------------
(* Fewer objects make no longer an array.                                  *)

(* The length of the first n pieces.                                        *)
Length(ps, n) == Len(FlattenSeq(SubSeq(ps, 1, n)))

LEMMA LengthStep ==
  ASSUME NEW ps \in Seq(Text)
  PROVE  /\ Length(ps, 0) = 0
         /\ Length(ps, Len(ps)) = Len(FlattenSeq(ps))
         /\ \A n \in Nat : n + 1 <= Len(ps) =>
              /\ Length(ps, n) \in Nat /\ Len(ps[n + 1]) \in Nat
              /\ Length(ps, n + 1) = Length(ps, n) + Len(ps[n + 1])
<1>1. Length(ps, 0) = 0
  <2>1. SubSeq(ps, 1, 0) = <<>>
    OBVIOUS
  <2>2. Length(ps, 0) = Len(<<>>)
    BY <2>1, FlattenEmpty, Zenon DEF Length
  <2> QED BY <2>2
<1>2. Length(ps, Len(ps)) = Len(FlattenSeq(ps))
  <2>1. SubSeq(ps, 1, Len(ps)) = ps
    OBVIOUS
  <2> QED BY Zenon, <2>1 DEF Length
<1>3. ASSUME NEW n \in Nat, n + 1 <= Len(ps)
      PROVE  /\ Length(ps, n) \in Nat /\ Len(ps[n + 1]) \in Nat
             /\ Length(ps, n + 1) = Length(ps, n) + Len(ps[n + 1])
  <2> DEFINE u == FlattenSeq(SubSeq(ps, 1, n))
             v == ps[n + 1]
  <2>1. u \in Text /\ v \in Text /\ FlattenSeq(SubSeq(ps, 1, n + 1)) = u \o v
    BY Zenon, <1>3, FlattenStep
  <2> HIDE DEF u, v
  <2>2. Len(u \o v) = Len(u) + Len(v) /\ Len(u) \in Nat /\ Len(v) \in Nat
    BY <2>1, ConcatProperties, LenProperties DEF Text
  <2> QED BY Zenon, <2>1, <2>2 DEF u, v, Length
<1> QED BY <1>1, <1>2, <1>3

LEMMA FlattenLonger ==
  ASSUME NEW ps \in Seq(Text), NEW qs \in Seq(Text), Len(ps) <= Len(qs),
         \A k \in 1 .. Len(ps) : Len(ps[k]) <= Len(qs[k])
  PROVE  Len(FlattenSeq(ps)) <= Len(FlattenSeq(qs))
<1> DEFINE l == Len(ps)
           S == {n \in Nat : n <= Len(qs) =>
                   /\ Length(qs, n) \in Nat
                   /\ n <= l => Length(ps, n) \in Nat /\ Length(ps, n) <= Length(qs, n)
                   /\ l <= n => Length(ps, l) \in Nat /\ Length(ps, l) <= Length(qs, n)}
<1>1. l \in Nat /\ Len(qs) \in Nat
  OBVIOUS
<1>2. 0 \in S
  BY <1>1, LengthStep
<1>3. ASSUME NEW n \in Nat, n \in S PROVE n + 1 \in S
  <2> SUFFICES ASSUME n + 1 <= Len(qs)
               PROVE  /\ Length(qs, n + 1) \in Nat
                      /\ n + 1 <= l => /\ Length(ps, n + 1) \in Nat
                                       /\ Length(ps, n + 1) <= Length(qs, n + 1)
                      /\ l <= n + 1 => /\ Length(ps, l) \in Nat
                                       /\ Length(ps, l) <= Length(qs, n + 1)
    OBVIOUS
  <2>1. /\ Length(qs, n) \in Nat /\ Len(qs[n + 1]) \in Nat
        /\ Length(qs, n + 1) = Length(qs, n) + Len(qs[n + 1])
    BY LengthStep
  <2>2. /\ n <= l => Length(ps, n) \in Nat /\ Length(ps, n) <= Length(qs, n)
        /\ l <= n => Length(ps, l) \in Nat /\ Length(ps, l) <= Length(qs, n)
    BY <1>1, <1>3
  <2>3. n + 1 <= l => /\ Length(ps, n + 1) = Length(ps, n) + Len(ps[n + 1])
                      /\ Len(ps[n + 1]) \in Nat /\ Len(ps[n + 1]) <= Len(qs[n + 1])
    BY <1>1, LengthStep
  <2> HIDE DEF l
  <2>4. l <= n \/ l = n + 1 \/ n + 1 < l
    BY <1>1
  <2>5. CASE l <= n
    BY <1>1, <2>1, <2>2, <2>5
  <2>6. CASE l = n + 1
    BY SMTT(30), <1>1, <2>1, <2>2, <2>3, <2>6
  <2>7. CASE n + 1 < l
    BY SMTT(30), <1>1, <2>1, <2>2, <2>3, <2>7
  <2> QED BY <2>4, <2>5, <2>6, <2>7
<1>4. \A n \in Nat : n \in S
  <2> HIDE DEF S
  <2> QED BY Zenon, <1>2, <1>3, NatSetInduction
<1>5. Length(ps, l) <= Length(qs, Len(qs))
  <2>1. Len(qs) \in S
    <3> HIDE DEF S
    <3> QED BY <1>1, <1>4
  <2> QED BY <1>1, <2>1
<1> QED BY <1>5, LengthStep

Separator(k, n) == IF k < n THEN <<Comma>> ELSE <<>>

(* Its length. *)
CommaLength(k, n) == IF k < n THEN 1 ELSE 0

Parts(os) == [k \in DOMAIN os |-> os[k] \o Separator(k, Len(os))]

LEMMA PartsLength ==
  ASSUME NEW os \in Seq(Text)
  PROVE  /\ Parts(os) \in Seq(Text) /\ Len(Parts(os)) = Len(os)
         /\ \A k \in 1 .. Len(os) : Len(Parts(os)[k]) = Len(os[k]) + CommaLength(k, Len(os))
<1> DEFINE part(k) == os[k] \o Separator(k, Len(os))
<1>1. DOMAIN os = 1 .. Len(os) /\ Len(os) \in Nat
  OBVIOUS
<1>2. ASSUME NEW k \in 1 .. Len(os)
      PROVE  part(k) \in Text /\ Len(part(k)) = Len(os[k]) + CommaLength(k, Len(os))
  <2> DEFINE v == Separator(k, Len(os))
             u == os[k]
  <2>1. v \in Text /\ Len(v) = IF k < Len(os) THEN 1 ELSE 0
    BY SyntaxChars DEF Text, Separator
  <2>2. u \in Text
    OBVIOUS
  <2> HIDE DEF u, v
  <2>3. u \o v \in Text /\ Len(u \o v) = Len(u) + Len(v)
    BY Zenon, <2>1, <2>2, ConcatProperties DEF Text
  <2> QED BY <2>1, <2>3 DEF u, v, CommaLength
<1>3. Parts(os) = [k \in 1 .. Len(os) |-> part(k)]
  BY <1>1 DEF Parts
<1>4. \A k \in 1 .. Len(os) : Parts(os)[k] = part(k)
  BY <1>3
<1>5. \A k \in 1 .. Len(os) : part(k) \in Text
  BY <1>2
<1> HIDE DEF part
<1>6. Parts(os) \in Seq(Text) /\ Len(Parts(os)) = Len(os)
  BY <1>1, <1>3, <1>5
<1> QED BY <1>2, <1>4, <1>6

LEMMA TextLengths ==
  ASSUME NEW u \in Text, NEW v \in Text
  PROVE  u \o v \in Text /\ Len(u \o v) = Len(u) + Len(v) /\ Len(u) \in Nat
BY ConcatProperties, LenProperties DEF Text

LEMMA ArrayLength ==
  ASSUME NEW os \in Seq(Text)
  PROVE  /\ Len(Array(os)) = Len(FlattenSeq(Parts(os))) + 2
         /\ Len(FlattenSeq(Parts(os))) \in Nat
<1> DEFINE b == FlattenSeq(Parts(os))
           left == <<"[">>
           right == <<"]">>
<1>1. b \in Text
  BY PartsLength, FlattenType DEF Text
<1>2. left \in Text /\ Len(left) = 1 /\ right \in Text /\ Len(right) = 1
  BY SyntaxChars DEF Text
<1>3. Array(os) = (left \o b) \o right
  BY DEF Array, Parts, Separator
<1> HIDE DEF left, right, b
<1> DEFINE lb == left \o b
<1>4. lb \in Text /\ Len(lb) = Len(left) + Len(b)
  BY Zenon, <1>1, <1>2, TextLengths
<1>5. Array(os) = lb \o right
  BY <1>3
<1> HIDE DEF lb
<1>6. Len(lb \o right) = Len(lb) + Len(right) /\ Len(b) \in Nat
  BY Zenon, <1>1, <1>2, <1>4, TextLengths
<1> QED BY <1>2, <1>4, <1>5, <1>6 DEF b

LEMMA ArrayLonger ==
  ASSUME NEW os \in Seq(Text), NEW l \in 0 .. Len(os)
  PROVE  Len(Array(SubSeq(os, 1, l))) <= Len(Array(os))
<1> DEFINE front == SubSeq(os, 1, l)
           ps == Parts(front)
           qs == Parts(os)
<1>1. /\ front \in Seq(Text) /\ Len(front) = l /\ l \in Nat /\ Len(os) \in Nat
      /\ \A k \in 1 .. l : front[k] = os[k]
  OBVIOUS
<1> HIDE DEF front
<1>2. /\ ps \in Seq(Text) /\ Len(ps) = Len(front)
      /\ \A k \in 1 .. Len(front) : Len(ps[k]) = Len(front[k]) + CommaLength(k, Len(front))
  BY <1>1, PartsLength
<1>3. /\ qs \in Seq(Text) /\ Len(qs) = Len(os)
      /\ \A k \in 1 .. Len(os) : Len(qs[k]) = Len(os[k]) + CommaLength(k, Len(os))
  BY PartsLength
<1> HIDE DEF ps, qs
<1>4. \A k \in 1 .. Len(ps) : Len(ps[k]) <= Len(qs[k])
  <2> TAKE k \in 1 .. Len(ps)
  <2>1. k \in 1 .. Len(front) /\ k \in 1 .. Len(os) /\ l <= Len(os) /\ front[k] = os[k]
    BY <1>1, <1>2
  <2>2. Len(os[k]) \in Nat
    BY <2>1 DEF Text
  <2>3. Len(ps[k]) = Len(os[k]) + CommaLength(k, l) /\ Len(qs[k]) = Len(os[k]) + CommaLength(k, Len(os))
    BY <1>1, <1>2, <1>3, <2>1
  <2>4. CommaLength(k, l) \in 0 .. 1 /\ CommaLength(k, Len(os)) \in 0 .. 1
        /\ CommaLength(k, l) <= CommaLength(k, Len(os))
    BY <1>1, <2>1 DEF CommaLength
  <2> DEFINE a == CommaLength(k, l)
             b == CommaLength(k, Len(os))
             c == Len(os[k])
  <2> HIDE DEF a, b, c
  <2>5. c + a <= c + b
    BY <2>2, <2>4 DEF a, b, c
  <2> QED BY <2>3, <2>5 DEF a, b, c
<1>5. Len(FlattenSeq(ps)) <= Len(FlattenSeq(qs))
  <2>1. Len(ps) <= Len(qs)
    BY <1>1, <1>2, <1>3
  <2>2. ps \in Seq(Text) /\ qs \in Seq(Text)
    BY <1>2, <1>3
  <2> QED BY <1>4, <2>1, <2>2, FlattenLonger
<1>6. /\ Len(Array(front)) = Len(FlattenSeq(ps)) + 2 /\ Len(FlattenSeq(ps)) \in Nat
      /\ Len(Array(os)) = Len(FlattenSeq(qs)) + 2 /\ Len(FlattenSeq(qs)) \in Nat
  BY <1>1, ArrayLength DEF ps, qs
<1>7. Len(Array(front)) <= Len(Array(os))
  BY <1>5, <1>6
<1> QED BY <1>7 DEF front

-----------------------------------------------------------------------------
(* Whatever is read, also from JSON that nobody wrote like this, is a text.*)

LEMMA FindType ==
  ASSUME NEW text \in Text, NEW c
  PROVE  /\ Find(text, c) \in 0 .. Len(text)
         /\ Find(text, c) = 0 => \A i \in 1 .. Len(text) : text[i] # c
         /\ Find(text, c) # 0 => text[Find(text, c)] = c
<1> DEFINE I == {j \in 1 .. Len(text) : text[j] = c}
<1>1. Find(text, c) = IF I # {} THEN Min(I) ELSE 0
  BY DEF Find, SelectInSeq
<1>2. Len(text) \in Nat
  BY DEF Text
<1>3. CASE I = {}
  BY <1>1, <1>2, <1>3
<1>4. CASE I # {}
  <2>1. I \in SUBSET Nat
    OBVIOUS
  <2> HIDE DEF I
  <2>2. PICK i \in I : \A j \in I : i <= j
    BY <1>4, <2>1, LeastElement
  <2>3. Min(I) \in I
    BY <2>2 DEF Min
  <2> QED BY <1>1, <1>2, <1>4, <2>3 DEF I
<1> QED BY <1>3, <1>4

LEMMA MeantType == \A c \in Chars : Meant(c) \in Chars
<1>1. Special \subseteq Chars
  BY CodecAssumption DEF Special, Syntax
<1>2. \A c : c \in {Letter[k] : k \in Special} =>
               (CHOOSE k \in Special : Letter[k] = c) \in Special
  OBVIOUS
<1> QED BY <1>1, <1>2 DEF Meant

LEMMA ReadType ==
  ASSUME NEW text \in Text, NEW k \in 1 .. Len(text), NEW r,
         r.value \in Text
  PROVE  Read(text, r, k).value \in Text
<1>1. text[k] \in Chars /\ Meant(text[k]) \in Chars
  BY MeantType DEF Text
<1>2. Append(r.value, text[k]) \in Text /\ Append(r.value, Meant(text[k])) \in Text
  BY <1>1, AppendProperties DEF Text
<1> DEFINE a == Append(r.value, text[k])
           b == Append(r.value, Meant(text[k]))
<1>3. Read(text, r, k).value \in {r.value, a, b}
  BY DEF Read
<1> HIDE DEF a, b
<1> QED BY Zenon, <1>2, <1>3 DEF a, b

LEMMA UnescapeType ==
  ASSUME NEW text \in Text, NEW from \in 1 .. Len(text) + 1
  PROVE  Unescape(text, from) \in Text
<1> DEFINE F == ReadFrom(text, from)
           S == {n \in Nat : from + n <= Len(text) + 1 => F[(from - 1) + n].value \in Text}
<1>1. Len(text) \in Nat /\ from \in Nat /\ from <= Len(text) + 1
  BY DEF Text
<1>2. /\ F[from - 1] = Rd("open", <<>>)
      /\ \A k \in from .. Len(text) : F[k] = Read(text, F[k - 1], k)
  BY <1>1, ReadEquation
<1> HIDE DEF F
<1>3. 0 \in S
  <2>1. Rd("open", <<>>).value \in Text
    BY DEF Rd, Text
  <2>2. (from - 1) + 0 = from - 1
    BY <1>1
  <2> QED BY <1>2, <2>1, <2>2
<1>4. ASSUME NEW n \in Nat, n \in S PROVE n + 1 \in S
  <2> SUFFICES ASSUME from + (n + 1) <= Len(text) + 1
               PROVE  F[(from - 1) + (n + 1)].value \in Text
    OBVIOUS
  <2> DEFINE k == (from - 1) + (n + 1)
  <2>1. k \in 1 .. Len(text) /\ k \in from .. Len(text) /\ k - 1 = (from - 1) + n
    BY <1>1
  <2>2. F[(from - 1) + n].value \in Text
    BY <1>1, <1>4
  <2> HIDE DEF k
  <2>3. F[k] = Read(text, F[k - 1], k) /\ F[k - 1].value \in Text
    BY <1>2, <2>1, <2>2
  <2> QED BY <2>1, <2>3, ReadType DEF k
<1>5. \A n \in Nat : n \in S
  <2> HIDE DEF S
  <2> QED BY <1>3, <1>4, NatSetInduction
<1>6. (Len(text) + 1) - from \in S
  <2>1. (Len(text) + 1) - from \in Nat
    BY <1>1
  <2> HIDE DEF S
  <2> QED BY <1>5, <2>1
<1>7. F[Len(text)].value \in Text
  <2>1. /\ (from - 1) + ((Len(text) + 1) - from) = Len(text)
        /\ from + ((Len(text) + 1) - from) <= Len(text) + 1
    BY <1>1
  <2> QED BY <1>6, <2>1
<1> QED BY <1>7 DEF F, Unescape

LEMMA JsonGetType ==
  ASSUME NEW object \in Text, NEW key
  PROVE  JsonGet(object, key) \in Text
<1> DEFINE pos == Find(object, key) + 1
<1>1. pos \in Nat /\ pos >= 1 /\ Len(object) \in Nat
  BY FindType DEF Text
<1> HIDE DEF pos
<1>2. CASE pos = 1 \/ pos > Len(object)
  BY <1>2 DEF JsonGet, pos, Text
<1>3. CASE ~ (pos = 1 \/ pos > Len(object))
  <2>1. pos + 1 \in 1 .. Len(object) + 1
    BY <1>1, <1>3
  <2>2. Unescape(object, pos + 1) \in Text
    BY <2>1, UnescapeType
  <2>3. <<object[pos]>> \in Text
    <3>1. object[pos] \in Chars
      BY <1>1, <1>3 DEF Text
    <3> QED BY <3>1 DEF Text
  <2>4. JsonGet(object, key) = IF object[pos] = Quote THEN Unescape(object, pos + 1)
                               ELSE <<object[pos]>>
    BY <1>3 DEF JsonGet, pos
  <2> QED BY <2>2, <2>3, <2>4
<1> QED BY <1>2, <1>3

LEMMA ParseArrayType ==
  ASSUME NEW json \in Text
  PROVE  ParseArray(json) \in Seq(Text)
<1>1. Len(json) \in 0 .. Len(json)
  BY DEF Text
<1>2. Scanned(json)[Len(json)].objects \in Seq(Text)
  BY <1>1, ScannedSane DEF Sane, State
<1> QED BY <1>2 DEF ParseArray

LEMMA ArrayType ==
  ASSUME NEW os \in Seq(Text)
  PROVE  Array(os) \in Text
<1> DEFINE b == FlattenSeq(Parts(os))
           left == <<"[">>
           right == <<"]">>
<1>1. b \in Text
  BY PartsLength, FlattenType DEF Text
<1>2. left \in Text /\ right \in Text
  BY SyntaxChars DEF Text
<1>3. Array(os) = (left \o b) \o right
  BY DEF Array, Parts, Separator
<1> HIDE DEF left, right, b
<1>4. left \o b \in Text
  BY <1>1, <1>2, TextConcat
<1>5. (left \o b) \o right \in Text
  BY <1>2, <1>4, TextConcat
<1> QED BY <1>3, <1>5

LEMMA SnippetType ==
  ASSUME NEW s, s.name \in Text, s.content \in Text
  PROVE  SnippetObject(s) \in Text
<1> DEFINE l == <<LBrace>>
           r == <<RBrace>>
           a == <<NameKey>>
           b == Quoted(s.name)
           c == <<Comma, ContentKey>>
           d == Quoted(Escape(s.content, {Quote, Backslash, "\n"}))
<1>1. l \in Text /\ r \in Text
  BY SyntaxChars DEF Text
<1>2. a \in Text /\ c \in Text
  <2>1. {NameKey, Comma, ContentKey} \subseteq Chars
    BY Words, KeysDiffer DEF Wordly
  <2> QED BY <2>1 DEF Text
<1>3. b \in Text /\ d \in Text
  BY Zenon, QuotedType, EscapeType, HarmlessText
<1>4. SnippetObject(s) = (l \o (((a \o b) \o c) \o d)) \o r
  BY DEF SnippetObject, Braced
<1> HIDE DEF l, r, a, b, c, d
<1>5. ((a \o b) \o c) \o d \in Text
  BY <1>2, <1>3, TextConcat
<1> DEFINE w == ((a \o b) \o c) \o d
<1> HIDE DEF w
<1>6. (l \o w) \o r \in Text
  BY <1>1, <1>5, TextConcat DEF w
<1> QED BY <1>4, <1>6 DEF w
=============================================================================
