------------------------ MODULE MCLinearPrunedSearch ------------------------
(***************************************************************************)
(* Two factorizations whose pruned sub-mapspaces have different sizes, so  *)
(* that an iterator kept across a prune, or a size taken from the wrong    *)
(* factorization, shows; three bypass schemes, so that a failure count can *)
(* be partial, and a one-point sub-mapspace at the end.                    *)
(***************************************************************************)
EXTENDS LinearPrunedSearch

MCLPSize == [f \in Factorizations |-> IF f = 0 THEN 2 ELSE 1]
MCSSize == [f \in Factorizations |-> IF f = 0 THEN 1 ELSE 2]
=============================================================================
