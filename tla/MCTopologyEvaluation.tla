------------------------ MODULE MCTopologyEvaluation ------------------------
(***************************************************************************)
(* Two storage levels: a network each for reading and updating of the     *)
(* inner level, one inferred network for both directions of the outer, so  *)
(* that an evaluation meets a network twice.                               *)
(***************************************************************************)
EXTENDS TopologyEvaluation, TLC

MCReadFill == 1 :> "reads" @@ 2 :> "bus"
MCDrainUpdate == 1 :> "updates" @@ 2 :> "bus"

(* The hypothesis of the theorem on the stats, of these networks. *)
ASSUME MCNetworksAreOwn == OwnNetworks
=============================================================================
