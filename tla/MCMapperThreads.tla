--------------------------- MODULE MCMapperThreads ---------------------------
(***************************************************************************)
(* Two threads.  Their searches go from one point to another and then to   *)
(* another bypass scheme of it, so that successive mappings differ in the  *)
(* point only, in the scheme only, or (after a skip) in both.  Two costs,  *)
(* one clearly better, let an incumbent be improved and matched.           *)
(***************************************************************************)
EXTENDS MapperThreadsProofs

MCWalk ==
  <<[point |-> "p1", bypass |-> "b1"], [point |-> "p2", bypass |-> "b1"],
    [point |-> "p2", bypass |-> "b2"]>>

OneMetric == {<<1>>, <<2>>}

(* The hypothesis of the theorem on the best mapping, of these costs. *)
ASSUME MCCostsAreOrdered == CostsOrdered
=============================================================================
