---------------------------- MODULE MCRevocation ----------------------------
(* Instances of Revocation for TLC: callers agree on the expiry of a token. *)
EXTENDS Revocation, TLC
CONSTANTS j1, j2
OneExpiry == (j1 :> {2}) @@ (j2 :> {3})
=============================================================================
