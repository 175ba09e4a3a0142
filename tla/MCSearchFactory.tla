--------------------------- MODULE MCSearchFactory ---------------------------
(***************************************************************************)
(* Three factorizations of different pruned sizes, so that draws can skip, *)
(* repeat and come back; one has more permutations than a visit draws.     *)
(* The exhaustive search has two points in every dimension, so that every  *)
(* carry happens, and the random one two points to roll.                   *)
(***************************************************************************)
EXTENDS SearchFactory

MCLPSize == [f \in Factorizations |-> IF f = 0 THEN 3 ELSE 1]
MCSSize == [f \in Factorizations |-> IF f = 1 THEN 2 ELSE 1]
MCFullSize == <<2, 2, 2, 2>>
=============================================================================
