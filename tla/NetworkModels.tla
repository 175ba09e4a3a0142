---------------------------- MODULE NetworkModels ----------------------------
(***************************************************************************)
(* The networks between the levels (src/src/model/network-legacy.cpp,      *)
(* network-reduction-tree.cpp and network-simple-multicast.cpp): what      *)
(* evaluating a mapping makes of the statistics a network holds.  Each     *)
(* Evaluate is an operator from the OLD statistics to the new ones: what   *)
(* a network does not assign it keeps from the mapping before.             *)
(*                                                                         *)
(* Transfers are grouped by multicast and scatter factor (AccessStatMatrix *)
(* in the code): a function from <<multicast, scatter>> to [accesses,      *)
(* hops].  Energies are rationals; WireEnergy and AdderEnergy are the      *)
(* technology library's, and an override of zero means none is given.      *)
(***************************************************************************)
EXTENDS BufferEvaluation, TLC

CONSTANT WireEnergy(_, _)

\* The specification of a network, from the attributes of its storage level
\* (an inferred network) or from its own.
NetworkSpecs(a, type) ==
  [name |-> Or(Look(a, <<"name">>), ""), type |-> type,
   legacy_subtype |-> Or(Look(a, <<"network_type">>), ""),
   word_bits |-> Or(Look(a, <<"network_word_bits", "word_bits", "word_width", "datawidth">>), DefaultWordBits),
   router_energy |-> Or(Look(a, <<"router_energy">>), Zero),
   wire_energy |-> Or(Look(a, <<"wire_energy">>), Zero),
   adder_energy |-> Or(Look(a, <<"adder_energy">>), Zero),
   ingress_energy |-> Or(Look(a, <<"energy-per-ingress">>), Zero),
   energy_per_hop |-> Look(a, <<"energy_per_hop">>),
   tile_width |-> IF type = "Legacy" THEN Look(a, <<"tile_width">>) ELSE {},
   fill_latency |-> Or(Look(a, <<"fill_latency">>), 0),
   drain_latency |-> Or(Look(a, <<"drain_latency">>), 0),
   action_name |-> Or(Look(a, <<"action_name">>), ""),
   per_datatype_ERT |-> Look(a, <<"per_datatype_ERT">>) # {},
   ERT |-> <<>>]

DistributedMulticastSupported(network) ==
  network.type = "Legacy" /\ network.legacy_subtype = "M_N"

\* Every network answers with its fill latency.
DrainLatency(network) == network.fill_latency

WordBitsOf(network) == IF network.type = "Legacy" THEN network.word_bits ELSE 0

\* SetTileWidth keeps the width the user gave, or the first one set; only a
\* legacy network keeps a width of zero.
SetTileWidth(network, width) ==
  IF network.tile_width = {} \/ (network.type # "Legacy" /\ network.tile_width = {Zero})
    THEN [network EXCEPT !.tile_width = {width}] ELSE network

NoTransfers == [factors \in {} |-> 0]

NoNetworkStats ==
  LET none == [pv \in DataSpaces |-> 0]  free == [pv \in DataSpaces |-> Zero]
  IN  [ingresses |-> [pv \in DataSpaces |-> NoTransfers],
       distributed_ingresses |-> [pv \in DataSpaces |-> NoTransfers],
       spatial_reductions |-> none, multicast_factor |-> none, utilized_instances |-> none,
       link_transfers |-> none, energy |-> free, link_transfer_energy |-> free,
       spatial_reduction_energy |-> free]

\* A hop costs its length in millimetres; WireEnergyPerHop.
EnergyPerHop(network) ==
  LET mm == QMul(Or(network.tile_width, Zero), Q(1, 1000))
  IN  IF network.wire_energy # Zero
        THEN QMul(Times(network.word_bits, mm), network.wire_energy)
        ELSE WireEnergy(network.word_bits, mm)

------------------------------------------------------------------------------
(* LegacyNetwork *)

\* The read-modify-write traffic of a sink that cannot reduce: a partial sum is
\* read back for each but the first.  Entries of factors this tile does not
\* use stay as they are.
ReadModifyWrite(old, transfers, partition_size) ==
  [factors \in DOMAIN transfers \cup DOMAIN old |->
     IF factors \in DOMAIN transfers
       THEN [accesses |-> 2 * transfers[factors].accesses - partition_size, hops |-> transfers[factors].hops]
       ELSE old[factors]]

LegacyIngresses(network, old, transfers, pv, partition_size, sink_reduces) ==
  IF pv \in ReadWrite /\ ~sink_reduces /\ network.cType # {"ReadFill"}
    THEN ReadModifyWrite(old, transfers, partition_size)
    ELSE transfers

HighestFactor(transfers) ==
  IF transfers = NoTransfers THEN 0
  ELSE CHOOSE n \in {f[1] : f \in DOMAIN transfers} : \A f \in DOMAIN transfers : f[1] <= n

ReductionsIn(transfers) ==
  MapThenSumSet(LAMBDA f : (f[1] - 1) * transfers[f].accesses, DOMAIN transfers)

\* Reductions that a mapping before left are counted on top.
SpatialReductions_Accumulated(network, old, transfers, distributed, pv) ==
  IF pv \in ReadWrite /\ "UpdateDrain" \in network.cType
    THEN old.spatial_reductions[pv] + ReductionsIn(transfers) + ReductionsIn(distributed) ELSE 0

SpatialReductions(network, old, transfers, distributed, pv) ==
  IF pv \in ReadWrite /\ "UpdateDrain" \in network.cType
    THEN ReductionsIn(transfers) + ReductionsIn(distributed) ELSE 0

\* sink_reduces tells whether the sink adds what it receives to what it holds.
LegacyComputeAccesses(network, old, tiles, sink_reduces) ==
  LET regular == [pv \in DataSpaces |->
                    LegacyIngresses(network, old.ingresses[pv], tiles[pv].access_stats, pv,
                                    tiles[pv].partition_size, sink_reduces)]
      distributed == [pv \in DataSpaces |->
                        LegacyIngresses(network, old.distributed_ingresses[pv],
                                        tiles[pv].distributed_access_stats, pv,
                                        tiles[pv].partition_size, sink_reduces)]
  IN  [old EXCEPT
         !.utilized_instances = [pv \in DataSpaces |-> tiles[pv].replication_factor],
         !.ingresses = regular, !.distributed_ingresses = distributed,
         !.link_transfers = [pv \in DataSpaces |-> tiles[pv].link_transfers],
         !.multicast_factor = [pv \in DataSpaces |-> HighestFactor(regular[pv])],
         !.spatial_reductions =
            [pv \in DataSpaces |-> SpatialReductions(network, old, regular[pv], distributed[pv], pv)]]

\* A transfer passes one router more than it makes whole hops.
RoutersTouched(transfers) ==
  MapThenSumSet(LAMBDA f : (1 + transfers[f].hops \div transfers[f].accesses) * transfers[f].accesses,
                {f \in DOMAIN transfers : transfers[f].accesses > 0})

WireHops(transfers) ==
  MapThenSumSet(LAMBDA f : transfers[f].hops, {f \in DOMAIN transfers : transfers[f].accesses > 0})

TotalIngresses(transfers) == MapThenSumSet(LAMBDA f : transfers[f].accesses, DOMAIN transfers)

TransferEnergy(network, transfers) ==
  QAdd(Times(WireHops(transfers), Or(network.energy_per_hop, EnergyPerHop(network))),
       QAdd(Times(RoutersTouched(transfers), network.router_energy),
            Times(TotalIngresses(transfers), network.ingress_energy)))

LegacyComputeEnergy(network, stats) ==
  [stats EXCEPT
     !.energy =
        [pv \in DataSpaces |-> QAdd(TransferEnergy(network, stats.ingresses[pv]),
                                    TransferEnergy(network, stats.distributed_ingresses[pv]))],
     !.link_transfer_energy =
        [pv \in DataSpaces |-> Times(stats.link_transfers[pv],
                                     QAdd(Or(network.energy_per_hop, EnergyPerHop(network)),
                                          Times(2, network.router_energy)))],
     !.spatial_reduction_energy =
        [pv \in DataSpaces |-> Times(stats.spatial_reductions[pv],
                                     AdderEnergy(network.word_bits, network.word_bits))]]

LegacyEvaluate(network, old, tiles, sink_reduces) ==
  LegacyComputeEnergy(network, LegacyComputeAccesses(network, old, tiles, sink_reduces))

------------------------------------------------------------------------------
(* ReductionTreeNetwork: for update-drain connections only. *)

Log2Floor(n) == CHOOSE k \in 0 .. n : 2^k <= n /\ 2^(k + 1) > n

\* The reductions of all mappings are added up.
ReductionTreeAccesses(old, tiles) ==
  [old EXCEPT
     !.utilized_instances = [pv \in DataSpaces |-> tiles[pv].replication_factor],
     !.ingresses = [pv \in DataSpaces |-> IF pv \in ReadWrite THEN tiles[pv].access_stats ELSE NoTransfers],
     !.spatial_reductions =
        [pv \in DataSpaces |->
           IF pv \in ReadWrite THEN old.spatial_reductions[pv] + ReductionsIn(tiles[pv].access_stats)
           ELSE old.spatial_reductions[pv]]]

\* A tree of reductions is half as many hops high as it has levels.
TreeHops(transfers) ==
  Q(MapThenSumSet(LAMBDA f : Log2Floor(f[1]) * transfers[f].accesses,
                  {f \in DOMAIN transfers : transfers[f].accesses > 0}), 2)

ReductionTreeEvaluate(network, old, tiles) ==
  LET stats == ReductionTreeAccesses(old, tiles)
      adder == IF network.adder_energy # Zero THEN network.adder_energy
               ELSE AdderEnergy(network.word_bits, network.word_bits)
  IN  [stats EXCEPT
         !.energy = [pv \in DataSpaces |->
                       IF pv \in ReadWrite THEN QMul(TreeHops(stats.ingresses[pv]), EnergyPerHop(network))
                       ELSE old.energy[pv]],
         !.spatial_reduction_energy =
            [pv \in DataSpaces |->
               IF pv \in ReadWrite THEN Times(stats.spatial_reductions[pv], adder)
               ELSE old.spatial_reduction_energy[pv]]]

------------------------------------------------------------------------------
(* SimpleMulticastNetwork *)

\* Specs::ProcessERT: the table of the network, of this type only.
ProcessERT(network, ert) ==
  IF network.type = "SimpleMulticast" THEN [network EXCEPT !.ERT = ert] ELSE network

\* GetOpEnergyFromERT: an action, of a data space or of all, has an energy for
\* each number of destinations.
GetMulticastEnergy(network, pv, multicast) ==
  LET action == IF network.per_datatype_ERT THEN <<network.action_name, pv>> ELSE <<network.action_name>>
  IN  IF action \in DOMAIN network.ERT /\ multicast \in DOMAIN network.ERT[action]
        THEN network.ERT[action][multicast] ELSE Zero

Transferred(transfers) == {f \in DOMAIN transfers : transfers[f].accesses > 0}

\* The transfers are gone through by ascending factors.
LastOf(factors) ==
  CHOOSE f \in factors : \A g \in factors : g[1] < f[1] \/ (g[1] = f[1] /\ g[2] <= f[2])

\* The energy is assigned, not added: that of the last factors remains, or
\* that of the mapping before when nothing is transferred.
SimpleMulticastEvaluate(network, old, tiles) ==
  [old EXCEPT
     !.utilized_instances = [pv \in DataSpaces |-> tiles[pv].replication_factor],
     !.ingresses = [pv \in DataSpaces |-> tiles[pv].access_stats],
     !.multicast_factor =
        [pv \in DataSpaces |-> IF Transferred(tiles[pv].access_stats) = {} THEN 0
                               ELSE LastOf(Transferred(tiles[pv].access_stats))[1]],
     !.energy =
        [pv \in DataSpaces |->
           LET transfers == tiles[pv].access_stats
               last == LastOf(Transferred(transfers))
           IN  IF Transferred(transfers) = {} THEN old.energy[pv]
               ELSE Times(transfers[last].accesses, GetMulticastEnergy(network, pv, last[1]))]]

------------------------------------------------------------------------------
EvaluateNetwork(network, old, tiles) ==
  CASE network.type = "Legacy" -> LegacyEvaluate(network, old, tiles, network.sink_reduces)
    [] network.type = "ReductionTree" -> ReductionTreeEvaluate(network, old, tiles)
    [] OTHER -> SimpleMulticastEvaluate(network, old, tiles)

\* Energy accessors: only the reduction tree does not count its instances.
NetworkEnergy(network, stats) ==
  QSum([pv \in DataSpaces |->
          LET instance == QAdd(QAdd(stats.energy[pv], stats.link_transfer_energy[pv]),
                               stats.spatial_reduction_energy[pv])
          IN  IF network.type = "ReductionTree" THEN instance
              ELSE Times(stats.utilized_instances[pv], instance)], DataSpaces)

-----------------------------------------------------------------------------
(***************************************************************************)
(* The arithmetic level of the architecture (ArithmeticUnits in            *)
(* src/src/model/arithmetic.cpp).  A compute is a record: the expansions   *)
(* of the mapping over the mesh, the instances it uses on average, and the *)
(* computes by what the sparse analysis makes of them.                     *)
(***************************************************************************)

CONSTANTS MultiplierEnergy(_, _), MultiplierArea(_, _)

ComputeOps == {"random_compute", "gated_compute", "skipped_compute"}

ArithmeticSpecs(a, n_elements) ==
  LET word_bits == Or(Look(a, <<"word_bits", "datawidth">>), DefaultWordBits)
      energy_per_op == Or(Look(a, <<"energy">>), MultiplierEnergy(word_bits, word_bits))
  IN  [name |-> Or(Look(a, <<"name">>), "__ARITH__"), word_bits |-> word_bits,
       instances |-> Instances(a, n_elements),
       meshX |-> MeshX(a, n_elements), meshY |-> MeshY(a, n_elements),
       area |-> Or(Look(a, <<"area">>), MultiplierArea(word_bits, word_bits)),
       op_energy_map |-> [op \in ComputeOps |-> IF op = "random_compute" THEN energy_per_op ELSE Zero]]

\* arithmeticOperationMappings: the entries that price an action, best first.
ComputeNames(op) ==
  LET real == <<"mac", "mult", "compute">>
      gated == <<"mac_gated", "mult_gated", "compute_gated">> \o real
  IN  CASE op = "random_compute" -> <<"mac_random", "mult_random">> \o real
        [] op = "gated_compute" -> gated
        [] OTHER -> <<"mac_skipped", "mult_skipped", "compute_skipped">> \o gated

UpdateComputeEnergyViaERT(specs, ert) ==
  [specs EXCEPT !.op_energy_map =
     [op \in ComputeOps |-> Or(Look(ert, ComputeNames(op)), specs.op_energy_map[op])]]

NoArithmeticStats ==
  [energy |-> Zero, random_computes |-> 0, gated_computes |-> 0, skipped_computes |-> 0,
   cycles |-> 0, algorithmic_computes |-> 0, utilized_instances |-> 0, evaluated |-> FALSE]

ArithmeticSucceeds(specs, compute) ==
  /\ compute.max_x_expansion * compute.max_y_expansion <= specs.instances
  /\ compute.max_x_expansion <= specs.meshX /\ compute.max_y_expansion <= specs.meshY

ComputeEnergy(specs, accesses) ==
  MapThenFoldSet(QAdd, Zero, LAMBDA op : Times(accesses[op], specs.op_energy_map[op]),
                 LAMBDA T : CHOOSE op \in T : TRUE, ComputeOps)

\* Skipped computes cost no cycle.
BusyComputes(accesses) == accesses["random_compute"] + accesses["gated_compute"]

\* The computes share a whole number of instances.
EvaluateArithmetic(specs, old, compute) ==
  IF ~ArithmeticSucceeds(specs, compute)
    THEN [old EXCEPT !.utilized_instances = compute.max_x_expansion * compute.max_y_expansion]
    ELSE LET accesses == compute.fine_grained_accesses
         IN  [energy |-> ComputeEnergy(specs, accesses),
              random_computes |-> accesses["random_compute"],
              gated_computes |-> accesses["gated_compute"],
              skipped_computes |-> accesses["skipped_compute"],
              cycles |-> QCeil(QDiv(Int2Q(BusyComputes(accesses)), Int2Q(QTrunc(compute.avg_replication_factor)))),
              algorithmic_computes |-> compute.replication_factor * compute.accesses,
              utilized_instances |-> compute.max_x_expansion * compute.max_y_expansion,
              evaluated |-> TRUE]

IdealCycles(specs, stats) == Q(stats.random_computes + stats.gated_computes, specs.instances)

=============================================================================
