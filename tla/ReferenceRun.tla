---------------------------- MODULE ReferenceRun ----------------------------
(***************************************************************************)
(* What the emulation of a generated program promises: the reference       *)
(* program of the same einsum, in which one unit performs the operations    *)
(* in some order directly on the output tensor.  The value of an output     *)
(* point is the set of the products accumulated in it.                      *)
(***************************************************************************)
CONSTANTS Operations, Target, Product, Outputs

VARIABLES result, performed

InitReference == result = [p \in Outputs |-> {}] /\ performed = {}

Perform(o) ==
  /\ o \notin performed
  /\ performed' = performed \cup {o}
  /\ result' = [result EXCEPT ![Target[o]] = @ \cup {Product[o]}]

NextReference == \E o \in Operations : Perform(o)

SpecReference == InitReference /\ [][NextReference]_<<result, performed>>
=============================================================================
