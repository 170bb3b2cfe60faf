------------------------------- MODULE Codec -------------------------------
(***************************************************************************)
(* How texts travel between the daemon and its clients: the JSON that      *)
(* ipc.cpp writes, the readers of it in cli.cpp and tui.cpp (the same code *)
(* twice), and the fixed buffers that cut a request or an answer.          *)
(*                                                                         *)
(* A text is a sequence of characters.  In JSON a key with its quotes and  *)
(* colon, a number and a type name count as one character each: they       *)
(* contain no brace, and quotes only in pairs.                             *)
(***************************************************************************)
EXTENDS Integers, Sequences, SequencesExt

CONSTANTS
  Chars,         (* the characters of texts and of JSON                     *)
  Digits,        (* the characters of numbers                               *)
  Numeral        (* id -> how it is written, here with one character        *)

Quote == "\""
Backslash == "\\"
Comma == ","
LBrace == "{"
RBrace == "}"

IdKey == "\"id\":"
TypeKey == "\"type\":"
PinnedKey == "\"pinned\":"
NameKey == "\"name\":"
ContentKey == "\"content\":"

Keys == {IdKey, TypeKey, PinnedKey, NameKey, ContentKey}

Types == {"url", "path", "secret", "code", "text"}

Syntax == {"[", "]", LBrace, RBrace, Comma, Quote, Backslash}

ASSUME CodecAssumption ==
  /\ Syntax \cup Keys \cup Types \cup {"true", "false"} \subseteq Chars
  /\ {"\n", "\r", "\t", "n", "r", "t", ":"} \subseteq Chars
  /\ Digits \subseteq Chars /\ Digits \cap (Syntax \cup Keys) = {}
  /\ \A i, j \in DOMAIN Numeral : i # j => Numeral[i] # Numeral[j]

Text == Seq(Chars)

(* strncpy and memcpy into a buffer of n characters that ends with a zero.  *)
Cut(text, n) == SubSeq(text, 1, IF Len(text) < n THEN Len(text) ELSE n - 1)

-----------------------------------------------------------------------------
(* Writing                                                                 *)

Special == {Quote, Backslash, "\n", "\r", "\t"}

(* The character behind the backslash.                                      *)
Letter == [c \in Special |-> IF c = "\n" THEN "n" ELSE IF c = "\r" THEN "r"
                             ELSE IF c = "\t" THEN "t" ELSE c]

(* Mutant: the backslash itself is forgotten. *)
EscapeMost(text, special) ==
  FlattenSeq([k \in DOMAIN text |->
                IF text[k] \in special \ {Backslash}
                THEN <<Backslash, Letter[text[k]]>> ELSE <<text[k]>>])

Escape(text, special) ==
  FlattenSeq([k \in DOMAIN text |->
                IF text[k] \in special
                THEN <<Backslash, Letter[text[k]]>> ELSE <<text[k]>>])

Array(objects) ==
  <<"[">> \o FlattenSeq([k \in DOMAIN objects |->
                          objects[k] \o (IF k < Len(objects) THEN <<Comma>> ELSE <<>>)])
         \o <<"]">>

Flag(b) == IF b THEN "true" ELSE "false"

Quoted(text) == <<Quote>> \o text \o <<Quote>>

Braced(text) == <<LBrace>> \o text \o <<RBrace>>

(* An item's content comes last, so that no key is looked for behind it.    *)
ItemObject(item) == Braced(
  <<IdKey, Numeral[item.id], Comma, TypeKey>> \o Quoted(<<item.type>>)
  \o <<Comma, PinnedKey, Flag(item.pinned), Comma, ContentKey>>
  \o Quoted(Escape(item.content, Special)))

SerializeItems(items) == Array([k \in DOMAIN items |-> ItemObject(items[k])])

(* A snippet's name is written as it is, its content without \r and \t.     *)
SnippetObject(s) == Braced(
  <<NameKey>> \o Quoted(s.name) \o <<Comma, ContentKey>>
  \o Quoted(Escape(s.content, {Quote, Backslash, "\n"})))

SerializeSnippets(snips) == Array([k \in DOMAIN snips |-> SnippetObject(snips[k])])

-----------------------------------------------------------------------------
(* Reading                                                                 *)

(* parse_json_array: the complete objects at depth 0, whatever is cut off.  *)
(* In a string, "skip" is behind a backslash.                               *)
Scan(json, s, k) ==
  LET c      == json[k]
      opens  == s.mode = "json" /\ c = LBrace
      closes == s.mode = "json" /\ c = RBrace
  IN  [depth   |-> IF opens THEN s.depth + 1 ELSE IF closes THEN s.depth - 1 ELSE s.depth,
       start   |-> IF opens /\ s.depth = 0 THEN k ELSE s.start,
       mode    |-> IF s.mode = "skip" THEN "string"
                   ELSE IF c = Quote THEN IF s.mode = "json" THEN "string" ELSE "json"
                   ELSE IF s.mode = "string" /\ c = Backslash THEN "skip"
                   ELSE s.mode,
       objects |-> IF closes /\ s.depth = 1
                   THEN Append(s.objects, SubSeq(json, s.start, k)) ELSE s.objects]

Scanned(json) ==
  LET done[k \in 0 .. Len(json)] ==
        IF k = 0 THEN [depth |-> 0, start |-> 0, mode |-> "json", objects |-> <<>>]
        ELSE Scan(json, done[k - 1], k)
  IN  done

ParseArray(json) ==
  IF json = <<>> \/ json[1] # "[" THEN <<>> ELSE Scanned(json)[Len(json)].objects

(* The text from a position to the closing quote, without its escapes.      *)
Meant(c) == IF c \in {Letter[k] : k \in Special}
            THEN CHOOSE k \in Special : Letter[k] = c ELSE c

Read(text, r, k) ==
  LET c == text[k]
      To(mode, value) == [mode |-> mode, value |-> value]
  IN  IF r.mode = "closed" THEN r
      ELSE IF r.mode = "escape" THEN To("open", Append(r.value, Meant(c)))
      ELSE IF c = Backslash /\ k < Len(text) THEN To("escape", r.value)
      ELSE IF c = Quote THEN To("closed", r.value)
      ELSE To("open", Append(r.value, c))

ReadFrom(text, from) ==
  LET done[k \in from - 1 .. Len(text)] ==
        IF k = from - 1 THEN [mode |-> "open", value |-> <<>>]
        ELSE Read(text, done[k - 1], k)
  IN  done

Unescape(text, from) == ReadFrom(text, from)[Len(text)].value

(* The first place of a character, 0 if it has none.                        *)
Find(text, c) == SelectInSeq(text, LAMBDA x : x = c)

(* json_get: the value behind the first occurrence of the key.              *)
JsonGet(object, key) ==
  LET pos == Find(object, key) + 1
  IN  IF pos = 1 \/ pos > Len(object) THEN <<>>
      ELSE IF object[pos] = Quote THEN Unescape(object, pos + 1)
      ELSE <<object[pos]>>
=============================================================================
