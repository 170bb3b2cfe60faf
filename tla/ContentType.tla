---------------------------- MODULE ContentType ----------------------------
(***************************************************************************)
(* What kind of text something is (utils.cpp), and what of a text the      *)
(* watcher keeps.  A text is a sequence of characters, each a string; the  *)
(* two URL prefixes count as one character.  The character classes and the *)
(* lengths of the regular expressions are parameters.                      *)
(***************************************************************************)
EXTENDS Integers, Sequences, SequencesExt

CONSTANTS
  HexChars,      (* 0-9 a-f A-F                                             *)
  B64Chars,      (* A-Z a-z 0-9 + /                                         *)
  HexLengths,    (* 16 .. 128                                               *)
  B64Lengths     (* 20 .. 200, without the padding                          *)

UrlPrefixes == {"http://", "https://"}

White == {" ", "\t", "\n", "\r"}

ASSUME ContentAssumption ==
  /\ HexChars \subseteq B64Chars /\ "/" \in B64Chars
  /\ B64Chars \cap (UrlPrefixes \cup White \cup {"=", "~"}) = {}
  /\ HexLengths \subseteq Nat \ {0} /\ B64Lengths \subseteq Nat \ {0}

Has(text, c) == Contains(text, c)

(* Mutant: only one character is removed. *)
StripOne(text) ==
  IF text # <<>> /\ Last(text) \in White THEN Front(text) ELSE text

(* The loop of watch_clipboard that removes trailing white space.           *)
Strip(text) ==
  LET end == SelectLastInSeq(text, LAMBDA c : c \notin White)
  IN  SubSeq(text, 1, end)

-----------------------------------------------------------------------------
IsUrl(text) == text[1] \in UrlPrefixes

IsPath(text) ==
  /\ text[1] = "/" \/ IsPrefix(<<"~", "/">>, text)
  /\ ~ Has(text, " ") /\ ~ Has(text, "\n")

(* regex_match: the whole text is such characters, in such a number.        *)
Matches(text, chars, lengths) == Len(text) \in lengths /\ ToSet(text) \subseteq chars

IsSecret(text) ==
  \/ Matches(text, HexChars, HexLengths)
  \/ \E pad \in {<<>>, <<"=">>, <<"=", "=">>} :
       /\ IsSuffix(pad, text)
       /\ Matches(SubSeq(text, 1, Len(text) - Len(pad)), B64Chars, B64Lengths)

HasIndent(text) ==
  Has(text, "\t") \/ \E k \in 1 .. Len(text) - 3 : \A j \in k .. k + 3 : text[j] = " "

IsCode(text) ==
  /\ Has(text, "\n")
  /\ Has(text, ";") \/ Has(text, "{") \/ Has(text, "}") \/ HasIndent(text)

(* The first test that succeeds decides.                                    *)
DetectType(text) ==
  IF text = <<>> THEN "text"
  ELSE IF IsUrl(text) THEN "url"
  ELSE IF IsPath(text) THEN "path"
  ELSE IF IsSecret(text) THEN "secret"
  ELSE IF IsCode(text) THEN "code"
  ELSE "text"
=============================================================================
