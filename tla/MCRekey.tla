------------------------------ MODULE MCRekey ------------------------------
(* Instances of Rekey for TLC. *)
EXTENDS Rekey, TLC
Perms == Permutations(Clis)
=============================================================================
