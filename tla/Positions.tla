------------------------------ MODULE Positions ------------------------------
(***************************************************************************)
(* The elements of a sequence at some of its positions, in their order.    *)
(***************************************************************************)
EXTENDS Naturals, Sequences, FiniteSets

(* How many of the positions in K are at most i. *)
Rank(K, i) == Cardinality({j \in K : j <= i})
AtPositions(q, K) == [n \in 1..Cardinality(K) |-> q[CHOOSE i \in K : Rank(K, i) = n]]
=============================================================================
