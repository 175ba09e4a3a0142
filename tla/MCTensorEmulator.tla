-------------------------- MODULE MCTensorEmulator --------------------------
(* Two outputs, each the sum of two products, on two units under a shared   *)
(* buffer per tensor.                                                       *)
EXTENDS TensorEmulatorProofs

(* Operation o = 2(k - 1) + x accumulates I[x] in O[k]. *)
MCOps == 1..4
MCProjection == [I |-> [o \in MCOps |-> 1 + ((o + 1) % 2)],
                 O |-> [o \in MCOps |-> 1 + (o - 1) \div 2]]

MCUnits == {0, 1}

At(s, t) == [s |-> s, t |-> t]

(* The outputs change units in the middle; the tile of the shared buffer     *)
(* changes while an output stays, so that it goes up and comes down again;   *)
(* a unit has two operations at one time, and a unit is idle at a time.       *)
MCMappings == {
  <<At(0, <<0, 0>>), At(1, <<0, 1>>), At(1, <<0, 0>>), At(0, <<0, 1>>)>>,
  <<At(0, <<0, 0>>), At(0, <<1, 0>>), At(1, <<0, 0>>), At(1, <<1, 0>>)>>,
  <<At(0, <<0, 0>>), At(0, <<0, 0>>), At(1, <<1, 0>>), At(1, <<1, 1>>)>> }

(* The hypothesis of the theorems, of these programs. *)
ASSUME MCProgramsAreDisciplined == ProgramsAreDisciplined
=============================================================================
