--------------------------- MODULE BufferEvaluation ---------------------------
(***************************************************************************)
(* What a storage level makes of the tiles of a mapping                    *)
(* (BufferLevel::PreEvaluationCheck, ::Evaluate and the functions it calls *)
(* in src/src/model/buffer.cpp).  tiles maps every data space to its tile  *)
(* at this level, mask is the set of the data spaces kept here, occupancy  *)
(* what ComputeTileOccupancyAndConfidence settled on for each.             *)
(***************************************************************************)
EXTENDS BufferModel

Log2Ceil(n) == CHOOSE k \in 0 .. n : 2^k >= n /\ (k = 0 \/ 2^(k - 1) < n)

SumOver(f) == SumFunctionOnSet(f, DataSpaces)

Largest(f) == CHOOSE q \in {f[pv] : pv \in DataSpaces} : \A pv \in DataSpaces : QLeq(f[pv], q)

------------------------------------------------------------------------------
(* PreEvaluationCheck: a filter on the sizes of dense working sets, which are
   known before the tiles are. *)

ConfidenceConstraint(specs, threshold) == IF specs.allow_overbooking THEN threshold ELSE Int2Q(1)

\* The density model of a compressed data space is asked for the same quantile
\* as later; an uncompressed one is scaled.
RequiredCapacity_Dense(specs, tiles, mask, threshold) ==
  MapThenSumSet(LAMBDA pv : tiles[pv].shape, mask)

RequiredCapacity(specs, tiles, mask, threshold) ==
  MapThenSumSet(
    LAMBDA pv :
      IF tiles[pv].compressed
        THEN GetMaxDataTileOccupancyByConfidence(tiles[pv], ConfidenceConstraint(specs, threshold))
        ELSE QCeil(Times(tiles[pv].shape, ConfidenceConstraint(specs, threshold))),
    mask)

PreEvaluationCheck(specs, tiles, mask, threshold, distributed) ==
  LET required == RequiredCapacity(specs, tiles, mask, threshold)
      effective == The(specs.effective_size)
      available == IF distributed THEN effective * specs.instances ELSE effective
  IN  CASE specs.size = {} -> "passed"
        [] specs.size # {} /\ required > available -> "too large"
        [] OTHER ->
             IF QLeq(Times(effective, specs.min_utilization), Int2Q(required)) THEN "passed" ELSE "too small"

------------------------------------------------------------------------------
(* ComputeScalarAccesses *)

Writes == {"fill", "update"}

\* Gated accesses need an address to gate, skipped ones do not; read-write data
\* counts its updates, other data its reads.
AddressGenerations(tile, pv) ==
  LET counted == IF pv \in ReadWrite THEN Writes ELSE {"read", "fill"}
  IN  MapThenSumSet(LAMBDA op : tile.data_accesses[op], {"random", "gated"} \X counted)

CapacityOf(occupancy) == SumOver([pv \in DataSpaces |-> occupancy[pv].data_tile_size])

MetadataOf(occupancy) == SumOver([pv \in DataSpaces |-> occupancy[pv].metadata_tile_size_bits])

\* The checks of the capacity: one that fails hides those after it.
CapacityFits(specs, occupancy) ==
  specs.size # {} =>
    LET total == CapacityOf(occupancy)  effective == The(specs.effective_size)
    IN  /\ total <= effective \/ specs.allow_overbooking
        /\ MetadataOf(occupancy) <= The(specs.effective_md_size_bits) \/ specs.allow_overbooking
        /\ QLeq(Times(effective, specs.min_utilization), Int2Q(total))

ConfidenceSuffices(specs, occupancy, threshold) ==
  /\ \A pv \in DataSpaces : QLeq(threshold, occupancy[pv].confidence)
  /\ specs.size # {} /\ specs.allow_overbooking
       => CapacityOf(occupancy) <= The(specs.effective_size)

InstancesSuffice(specs, tiles) ==
  /\ QLeq(Largest([pv \in DataSpaces |-> tiles[pv].avg_replication_factor]), Int2Q(specs.instances))
  /\ \A pv \in DataSpaces : tiles[pv].max_x_expansion <= specs.meshX
                              /\ tiles[pv].max_y_expansion <= specs.meshY

\* The utilized capacity stands in for a size that is not given.
AddrGenBits(specs, occupancy) ==
  LET lines == (IF specs.size # {} THEN The(specs.size) ELSE CapacityOf(occupancy)) \div specs.block_size
  IN  Log2Ceil(IF lines > 1 THEN lines ELSE 1)

UtilizedClusters(specs, tile) ==
  LET spread_over == tile.max_x_expansion * tile.max_y_expansion
      clusters == specs.instances \div specs.cluster_size
  IN  IF spread_over < clusters THEN spread_over ELSE clusters

\* The statistics that do not depend on the mapping being valid; the ranks of
\* the metadata are appended to those of the mappings before.
ComputeScalarAccesses(specs, old, tiles, mask, occupancy) ==
  [old EXCEPT
     !.keep = mask,
     !.tile_size = [pv \in DataSpaces |-> tiles[pv].size],
     !.utilized_instances = [pv \in DataSpaces |-> tiles[pv].avg_replication_factor],
     !.utilized_expansion = [pv \in DataSpaces |-> tiles[pv].max_x_expansion * tiles[pv].max_y_expansion],
     !.utilized_clusters = [pv \in DataSpaces |-> UtilizedClusters(specs, tiles[pv])],
     !.utilized_capacity = [pv \in DataSpaces |-> occupancy[pv].data_tile_size],
     !.tile_confidence = [pv \in DataSpaces |-> occupancy[pv].confidence],
     !.metadata_tile_size =
        [pv \in DataSpaces |->
           old.metadata_tile_size[pv]
             \o [r \in DOMAIN occupancy[pv].metadata |-> occupancy[pv].metadata[r].units]],
     !.accesses = [pv \in DataSpaces |-> tiles[pv].reads + tiles[pv].updates + tiles[pv].fills],
     !.fine_grained_scalar_accesses = [pv \in DataSpaces |-> tiles[pv].data_accesses],
     !.temporal_reductions = [pv \in DataSpaces |-> tiles[pv].temporal_reductions],
     !.address_generations = [pv \in DataSpaces |-> AddressGenerations(tiles[pv], pv)],
     !.addr_gen_bits = AddrGenBits(specs, occupancy)]

------------------------------------------------------------------------------
(* ComputeVectorAccesses *)

\* Tiles of more blocks than this need no model of how nonzeros fill blocks;
\* the columns are densities of 0.1, 0.2 and so on.
VectorWidthCoefficientTable ==
  [b \in {2, 4, 8, 16, 32} |->
     CASE b = 2 -> <<251, 125, 84, 63, 51, 42, 36, 32, 28, 1>>
       [] b = 4 -> <<375, 188, 125, 94, 75, 63, 54, 47, 42, 1>>
       [] b = 8 -> <<438, 219, 146, 110, 88, 73, 63, 55, 49, 1>>
       [] b = 16 -> <<469, 235, 157, 118, 94, 79, 67, 59, 52, 1>>
       [] b = 32 -> <<485, 243, 162, 122, 97, 81, 70, 61, 52, 1>>]

IsSparse(tile, block_size) ==
  tile.compressed /\ tile.shape # 0 /\ block_size > 1
    /\ QLess(ExpectedOccupancy(tile), Int2Q(tile.shape))

\* floor(density / 0.1), the tenth of the table that applies.
DensityColumn(tile) ==
  LET tenths == QTrunc(QDiv(Times(10, ExpectedOccupancy(tile)), Int2Q(tile.shape)))
  IN  IF tenths < 1 THEN 1 ELSE tenths

NaiveStorage(tile, block_size) ==
  IsSparse(tile, block_size) =>
    VectorWidthCoefficientTable[block_size][DensityColumn(tile)] <= tile.shape \div block_size

\* The blocks the nonzeros are expected to fill, over what they would fill if
\* they were spread evenly.
BlockRatio(tile, block_size) ==
  IF NaiveStorage(tile, block_size) THEN Int2Q(1)
  ELSE QDiv(Q(MapThenSumSet(LAMBDA i : CeilingDiv(tile.occupancies[i], block_size), DOMAIN tile.occupancies),
              Len(tile.occupancies)),
            QMul(ExpectedOccupancy(tile), Q(1, block_size)))

FormatBits(tile, op) ==
  MapThenSumSet(LAMBDA r : tile.format_accesses[op][r] * tile.formats[r].word_bits, DOMAIN tile.formats)

AccessedBits(specs, tile) ==
  [op \in FormatOps |-> IF specs.metadata_storage_width = 0 THEN 0 ELSE FormatBits(tile, op)]

\* accesses are those of the data, which a layout may have corrected.
VectorAccesses(specs, tile, accesses) ==
  [op \in storageOperationTypes |->
     CASE op \in FormatOps ->
            IF specs.metadata_storage_width = 0 THEN Zero
            ELSE Int2Q(CeilingDiv(FormatBits(tile, op), specs.metadata_storage_width))
       [] op \in DataOps ->
            IF tile.shape = 0 THEN Int2Q(accesses[op])
            ELSE Times(CeilingDiv(accesses[op], specs.block_size), BlockRatio(tile, specs.block_size))
       [] op \in Counts -> Int2Q(accesses[op])
       [] OTHER -> Zero]

\* ComputeBankConflictSlowdown: a layout that needs more lines than blocks
\* inflates the accesses of a data space.
CorrectedAccesses(tile, ratio) ==
  [op \in DOMAIN tile.data_accesses |-> QTrunc(QDiv(Int2Q(tile.data_accesses[op]), ratio))]

ComputeVectorAccesses(specs, stats, tiles, ratios) ==
  [stats EXCEPT
     !.fine_grained_vector_accesses =
        [pv \in DataSpaces |-> VectorAccesses(specs, tiles[pv], CorrectedAccesses(tiles[pv], ratios[pv]))],
     !.fine_grained_format_accesses_bits =
        [pv \in DataSpaces |-> AccessedBits(specs, tiles[pv])]]

------------------------------------------------------------------------------
(* Energy *)

EnergyOfOps(specs, vectors, ops) ==
  MapThenFoldSet(QAdd, Zero, LAMBDA op : QMul(vectors[op], specs.op_energy_map[op]),
                 LAMBDA T : CHOOSE op \in T : TRUE, ops)

\* What overflows the level is charged to its parent, so a level is charged for
\* its accesses in proportion to its confidence.
ComputeBufferEnergy(specs, stats) ==
  [stats EXCEPT
     !.cluster_access_energy =
        [pv \in DataSpaces |->
           QMul(EnergyOfOps(specs, stats.fine_grained_vector_accesses[pv], storageOperationTypes),
                stats.tile_confidence[pv])],
     !.cluster_access_energy_due_to_overflow = [pv \in DataSpaces |-> Zero]]

OverflowEnergy(specs, child, pv) ==
  QMul(EnergyOfOps(specs, child.fine_grained_vector_accesses[pv], {"random"} \X {"read", "metadata_read"}),
       QSub(Int2Q(1), child.tile_confidence[pv]))

\* extra is what overflows the levels inside, of every data space.
ComputeEnergyDueToChildLevelOverflow(specs, stats, extra) ==
  [stats EXCEPT
     !.cluster_access_energy =
        [pv \in DataSpaces |-> QAdd(stats.cluster_access_energy[pv], extra[pv])],
     !.cluster_access_energy_due_to_overflow =
        [pv \in DataSpaces |-> QAdd(stats.cluster_access_energy_due_to_overflow[pv], extra[pv])]]

ComputeReductionEnergy(specs, stats, update_word_bits) ==
  [stats EXCEPT
     !.temporal_reduction_energy =
        [pv \in DataSpaces |->
           IF pv \in ReadWrite
             THEN Times(stats.temporal_reductions[pv], AdderEnergy(specs.word_bits, update_word_bits))
             ELSE Zero]]

ComputeAddrGenEnergy(specs, stats) ==
  [stats EXCEPT
     !.addr_gen_energy =
        [pv \in DataSpaces |->
           Times(stats.address_generations[pv],
                 Or(specs.addr_gen_energy, AdderEnergy(stats.addr_gen_bits, stats.addr_gen_bits)))]]

MostUtilized(stats) == QMax(Int2Q(1), Largest(stats.utilized_instances))

\* Instances that share a power gate leak together.
ComputeLeaksPerCycle(specs, stats, gate_specs, gate_stats) ==
  LET gates == IF gate_specs.instances > 0 THEN gate_specs.instances ELSE 1
  IN  [stats EXCEPT
         !.leaks_per_cycle =
            IF specs.instances > gates THEN QMul(Q(specs.instances, gates), MostUtilized(gate_stats))
            ELSE MostUtilized(stats)]

\* The energy of a cluster is shared by the instances in use in it.
FinalizeBufferEnergy(specs, stats, total_cycles) ==
  [stats EXCEPT
     !.leakage_energy = QMul(Times(total_cycles, specs.op_energy_map[Leak]), stats.leaks_per_cycle),
     !.energy =
        [pv \in DataSpaces |->
           IF stats.utilized_instances[pv] = Zero THEN Zero
           ELSE QDiv(stats.cluster_access_energy[pv],
                     Q(stats.utilized_expansion[pv], stats.utilized_clusters[pv]))]]

\* STAT_ACCESSORs, of one data space and of the level.
StorageEnergy(stats, pv) == QMul(stats.energy[pv], stats.utilized_instances[pv])

TemporalReductionEnergy(stats, pv) ==
  QMul(stats.temporal_reduction_energy[pv], stats.utilized_instances[pv])

AddrGenEnergy(stats, pv) == Times(stats.utilized_clusters[pv], stats.addr_gen_energy[pv])

BufferEnergy(stats) ==
  QAdd(stats.leakage_energy,
       QSum([pv \in DataSpaces |-> QAdd(QAdd(StorageEnergy(stats, pv), TemporalReductionEnergy(stats, pv)),
                                        AddrGenEnergy(stats, pv))], DataSpaces))

AccessesOf(stats, pv) == QTrunc(Times(stats.accesses[pv], stats.utilized_instances[pv]))

BufferArea(specs) == Times(specs.instances, specs.storage_area)

------------------------------------------------------------------------------
(* ComputePerformance *)

\* Gated accesses keep the port busy like any other, skipped ones do not.
Words(specs, stats, pv, kinds) ==
  SumFunctionOnSet(stats.fine_grained_scalar_accesses[pv], {"random", "gated"} \X kinds)
    + SumFunctionOnSet(stats.fine_grained_format_accesses_bits[pv],
          {"random", "gated"} \X {CASE k = "read" -> "metadata_read"
                                    [] k = "fill" -> "metadata_fill"
                                    [] k = "update" -> "metadata_update" : k \in kinds})
        \div specs.word_bits

\* The words of an instance that is busy are spread over all that ever are.
AverageWords(specs, stats, pv, kinds) ==
  QCeil(QMul(Times(Words(specs, stats, pv, kinds), stats.utilized_instances[pv]),
             Q(1, stats.utilized_expansion[pv])))

Demand(specs, stats, pv, kinds, compute_cycles) ==
  QMul(Q(AverageWords(specs, stats, pv, kinds), compute_cycles), specs.bandwidth_consumption_scale[pv])

TotalDemand(specs, stats, kinds, compute_cycles) ==
  QSum([pv \in DataSpaces |-> Demand(specs, stats, pv, kinds, compute_cycles)], DataSpaces)

SlowdownFor(bandwidth, demand) ==
  IF bandwidth # {} /\ QLess(The(bandwidth), demand) THEN QDiv(The(bandwidth), demand) ELSE Int2Q(1)

BandwidthSlowdown(specs, reads, writes) ==
  QMin(QMin(SlowdownFor(specs.read_bandwidth, reads), SlowdownFor(specs.write_bandwidth, writes)),
       SlowdownFor(specs.shared_bandwidth, QAdd(reads, writes)))

ComputePerformance_NoConflicts(specs, stats, compute_cycles, overall_slowdown_) ==
  LET slowdown == BandwidthSlowdown(specs, TotalDemand(specs, stats, {"read"}, compute_cycles),
                                    TotalDemand(specs, stats, Writes, compute_cycles))
  IN  [stats EXCEPT !.slowdown = QMul(slowdown, overall_slowdown_),
                    !.cycles = QCeil(QDiv(Int2Q(compute_cycles), slowdown))]

\* Bank conflicts slow the level down on top of its bandwidth.
ComputePerformance(specs, stats, compute_cycles, overall_slowdown_) ==
  LET slowdown == BandwidthSlowdown(specs, TotalDemand(specs, stats, {"read"}, compute_cycles),
                                    TotalDemand(specs, stats, Writes, compute_cycles))
  IN  [stats EXCEPT !.slowdown = QMul(slowdown, overall_slowdown_),
                    !.cycles = QCeil(QDiv(Int2Q(compute_cycles), QMul(slowdown, overall_slowdown_)))]

\* What is in a level that was never evaluated.
NoBufferStats ==
  LET none == [pv \in DataSpaces |-> 0]  free == [pv \in DataSpaces |-> Zero]
  IN  [keep |-> {}, tile_size |-> none, utilized_instances |-> free, utilized_expansion |-> none,
       utilized_clusters |-> none, utilized_capacity |-> none, tile_confidence |-> free,
       metadata_tile_size |-> [pv \in DataSpaces |-> <<>>], accesses |-> none,
       fine_grained_scalar_accesses |-> [pv \in DataSpaces |-> <<>>],
       temporal_reductions |-> none, address_generations |-> none, addr_gen_bits |-> 0,
       fine_grained_vector_accesses |-> [pv \in DataSpaces |-> <<>>],
       fine_grained_format_accesses_bits |-> [pv \in DataSpaces |-> <<>>],
       cluster_access_energy |-> free, cluster_access_energy_due_to_overflow |-> free,
       temporal_reduction_energy |-> free, addr_gen_energy |-> free, energy |-> free,
       leakage_energy |-> Zero, leaks_per_cycle |-> Zero, slowdown |-> Int2Q(1), cycles |-> 0]

\* Evaluate, after the occupancy is settled and found acceptable.
EvaluateBuffer(specs, old, tiles, mask, occupancy, ratios, overall, update_word_bits, compute_cycles) ==
  LET scalar == ComputeScalarAccesses(specs, old, tiles, mask, occupancy)
      energy == ComputeBufferEnergy(specs, ComputeVectorAccesses(specs, scalar, tiles, ratios))
  IN  ComputePerformance(specs,
                         ComputeAddrGenEnergy(specs, ComputeReductionEnergy(specs, energy, update_word_bits)),
                         compute_cycles, overall)

\* What a level says of a mapping: not evaluated further when it fails.
BufferSucceeds(specs, tiles, occupancy, threshold) ==
  /\ CapacityFits(specs, occupancy)
  /\ ConfidenceSuffices(specs, occupancy, threshold)
  /\ InstancesSuffice(specs, tiles)
==============================================================================
