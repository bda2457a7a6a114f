---------------------------- MODULE MCChallenge ----------------------------
(* Instances of Challenge for TLC. *)
EXTENDS Challenge, TLC
MCGlobalRate == [burst |-> 3, refill |-> 2]
MCJktRate == [burst |-> 2, refill |-> 1]
MCSourceRate == [burst |-> 2, refill |-> 1]
Perms == Permutations(Sources)
=============================================================================
