----------------------------- MODULE MCClipStore -----------------------------
(* A small instance of ClipStore for TLC: a plain text and a secret.        *)
EXTENDS ClipStore, TLC

CONSTANTS text, secret

MCContents == {text, secret}
MCTypeOf == text :> "text" @@ secret :> "secret"
MCLimits == {-1, 0, 1, 2}
=============================================================================
