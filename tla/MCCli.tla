------------------------------- MODULE MCCli -------------------------------
(* A small instance of Cli for TLC: hex is "0", base64 has also "k".        *)
EXTENDS Cli

MCChars == STRING

MCDigits == {"0", "1", "2"}
MCNumeral == <<"1", "2">>

MCHexChars == {"0"}
MCB64Chars == {"0", "k", "/", "+"}
MCHexLengths == 1 .. 1
MCB64Lengths == 2 .. 3

(* A padded secret with white space behind it; a text of everything that is *)
(* escaped or counted in JSON; a path that looks like base64.               *)
MCTexts == { <<"k", "k", "=", "\n", " ">>,
             <<"\"", "\\", "n", "}", ":", "\n", "{">>,
             <<"/", "k">> }

(* Two plain names, a number, and one with a colon. *)
MCNames == { <<"a">>, <<"a", "b">>, <<"1">>, <<"a", ":">> }
=============================================================================
