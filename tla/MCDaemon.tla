------------------------------ MODULE MCDaemon ------------------------------
(* Small instances of Daemon for TLC.                                       *)
EXTENDS Daemon, TLC

CONSTANTS a, b, secret

(* A plain text and a secret. *)
MCContents == {a, secret}
MCTypeOf == a :> "text" @@ secret :> "secret"

(* Two plain texts, which never expire. *)
MCPlainContents == {a, b}
MCPlainTypeOf == a :> "text" @@ b :> "text"

(* One secret. *)
MCSecrets == {secret}
MCSecretType == secret :> "secret"

(* LIST 1 and an unlimited LIST; a search that finds one text. *)
MCLimits == {-1, 1}
MCQueries == {{a}}
=============================================================================
