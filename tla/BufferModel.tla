----------------------------- MODULE BufferModel -----------------------------
(***************************************************************************)
(* One storage level of the architecture (BufferLevel in                   *)
(* src/src/model/buffer.cpp): how its specification is read from the       *)
(* attributes of the configuration, and how the tiles a mapping keeps in   *)
(* it become statistics: accesses, energy, bandwidth and cycles.           *)
(*                                                                         *)
(* Attributes are a function from the names given to their values.  An     *)
(* attribute that may be left out (Attribute<T>) is a set of at most one   *)
(* value.  Doubles are rationals.  The energies of the technology library  *)
(* (src/src/pat) are parameters.  A tile is a record of what the nest and  *)
(* sparse analyses say of one data space at this level; occupancies is the *)
(* sequence of its equally likely numbers of nonzeros, ascending.          *)
(***************************************************************************)
EXTENDS Integers, Sequences, FiniteSets, FiniteSetsExt, Rational

(***************************************************************************)
(* How much a buffer's data layout slows it down                           *)
(* (BufferLevel::ComputeBankConflictSlowdown in src/src/model/buffer.cpp). *)
(* A layout stores the words of a data space in lines: along each rank,    *)
(* factors[rank] consecutive coordinates share a line.  A request asks for *)
(* a number of consecutive coordinates of every rank, the next request     *)
(* continues where it ended, and lines are served by a number of ports.    *)
(*                                                                         *)
(* A layout of one data space is a record: ranks, a sequence of records    *)
(* [factor, terms], a term being <<dimension, coefficient>>, and ports.    *)
(* Parallelism maps a dimension to the iterations asked for at once.       *)
(***************************************************************************)

AtLeastOne(n) == IF n > 1 THEN n ELSE 1

CeilingDiv(a, b) == (a + b - 1) \div b

\* A number of dimensions projects onto a rank: a single one keeps its extent,
\* several span what their furthest points are apart.
RankRequest(rank, parallelism) ==
  IF Len(rank.terms) = 1
    THEN AtLeastOne(parallelism[rank.terms[1][1]])
    ELSE 1 + MapThenSumSet(LAMBDA i : (AtLeastOne(parallelism[rank.terms[i][1]]) - 1)
                                        * rank.terms[i][2],
                           DOMAIN rank.terms)

\* The ranks of which more than one coordinate is asked for.
Requested(layout, parallelism) ==
  {i \in DOMAIN layout.ranks : RankRequest(layout.ranks[i], parallelism) > 1}

LinesAtLeast(factor, asked) == CeilingDiv(asked, factor)

\* Of the requests in a period, how many straddle one line more than that.
OneMore(factor, asked) == (asked \div Gcd(factor, asked) - 1) % (factor \div Gcd(factor, asked))

NoMore(factor, asked) ==
  IF OneMore(factor, asked) < 1 THEN 1
  ELSE factor \div Gcd(factor, asked) - OneMore(factor, asked)

\* Every combination of ranks that straddle one line more, as the set of them.
Lines(layout, parallelism, straddling) ==
  MapThenFoldSet(LAMBDA a, b : a * b, 1,
                 LAMBDA i : LinesAtLeast(layout.ranks[i].factor, RankRequest(layout.ranks[i], parallelism))
                              + (IF i \in straddling THEN 1 ELSE 0),
                 LAMBDA S : CHOOSE i \in S : TRUE, Requested(layout, parallelism))

Occurrences(layout, parallelism, straddling) ==
  MapThenFoldSet(LAMBDA a, b : a * b, 1,
                 LAMBDA i : IF i \in straddling
                              THEN OneMore(layout.ranks[i].factor, RankRequest(layout.ranks[i], parallelism))
                              ELSE NoMore(layout.ranks[i].factor, RankRequest(layout.ranks[i], parallelism)),
                 LAMBDA S : CHOOSE i \in S : TRUE, Requested(layout, parallelism))

Combinations(layout, parallelism) == SUBSET Requested(layout, parallelism)

\* The sum over the requests of a period, which have the weights of their combinations.
Total(layout, parallelism, weight) ==
  MapThenSumSet(LAMBDA s : weight[s] * Occurrences(layout, parallelism, s),
                Combinations(layout, parallelism))

\* The lines the requests of a period touch.
LinesTouched(layout, parallelism) ==
  Total(layout, parallelism,
        [s \in Combinations(layout, parallelism) |-> Lines(layout, parallelism, s)])

Larger(a, b) == IF a > b THEN a ELSE b

\* The cycles the requests of a period take; a request has cycles to spare.
CriticalPath(layout, parallelism, cycles) ==
  Total(layout, parallelism,
        [s \in Combinations(layout, parallelism) |->
           Larger(cycles, CeilingDiv(Lines(layout, parallelism, s), layout.ports))])

Requests(layout, parallelism) ==
  Total(layout, parallelism, [s \in Combinations(layout, parallelism) |-> 1])

NoConflict == [slowdown |-> Int2Q(1), ratio |-> Int2Q(1)]

\* The slowdown, and the accesses of a model that reads full blocks over those
\* of the layout; the code asserts that the ratio is at most 1.
ComputeBankConflictSlowdownPerDataSpace(layout, block_size, parallelism, cycles) ==
  IF Requested(layout, parallelism) = {} THEN NoConflict
  ELSE [slowdown |-> Q(Requests(layout, parallelism) * cycles, CriticalPath(layout, parallelism, cycles)),
        ratio |-> QDiv(Q(MapThenFoldSet(LAMBDA a, b : a * b, 1,
                                        LAMBDA i : RankRequest(layout.ranks[i], parallelism),
                                        LAMBDA S : CHOOSE i \in S : TRUE, Requested(layout, parallelism)),
                         block_size),
                       Q(LinesTouched(layout, parallelism),
                         Requests(layout, parallelism)))]

\* What the data space asks of the layout: what is read in parallel has to come
\* within one cycle, the next tile within the cycles of the current one.
SlowdownOf(layout, block_size, parallelism, subtile, cycles) ==
  LET spatial == ComputeBankConflictSlowdownPerDataSpace(layout, block_size, parallelism, 1)
      temporal == ComputeBankConflictSlowdownPerDataSpace(layout, block_size, subtile, cycles)
  IN  [slowdown |-> QMul(spatial.slowdown, temporal.slowdown),
       ratio |-> QMul(spatial.ratio, temporal.ratio)]

-----------------------------------------------------------------------------
CONSTANTS
  DataSpaces,
  ReadWrite,            \* the data spaces that are updated, not only read
  DRAMEnergy(_), SRAMEnergy(_, _, _, _), SRAMArea(_, _, _, _), AdderEnergy(_, _)

ASSUME BufferAssumption == ReadWrite \subseteq DataSpaces

The(optional) == CHOOSE x \in optional : TRUE

Or(optional, default) == IF optional = {} THEN default ELSE The(optional)

\* lookupValue of the first of the names that is given.
Look(a, names) ==
  LET given == SelectSeq(names, LAMBDA n : n \in DOMAIN a)
  IN  IF given = <<>> THEN {} ELSE {a[given[1]]}

Modes == {"random", "gated", "skipped"}

DataOps == {<<mode, kind>> : mode \in Modes, kind \in {"read", "fill", "update"}}

FormatOps ==
  {<<mode, kind>> : mode \in Modes, kind \in {"metadata_read", "metadata_fill", "metadata_update"}}

Counts == {<<"count", "decompression">>, <<"count", "compression">>}

Leak == <<"leak", "leak">>

storageOperationTypes == {op : op \in DataOps \cup FormatOps \cup Counts \cup {Leak}}

QCeil(q) == -((-q[1]) \div q[2])

QSum(f, S) == FoldFunctionOnSet(QAdd, Zero, f, S)

QMin(p, q) == IF QLess(q, p) THEN q ELSE p

QMax(p, q) == IF QLess(p, q) THEN q ELSE p

QLeq(p, q) == ~QLess(q, p)

Times(n, q) == QMul(Int2Q(n), q)

------------------------------------------------------------------------------
(* ParseSpecs *)

DefaultWordBits == 16

WordBits(a) == Or(Look(a, <<"word_bits", "word_width", "datawidth">>), DefaultWordBits)

GivenBlock(a) == Look(a, <<"block_size", "n_words">>)

GivenCluster(a) == Look(a, <<"cluster_size">>)

Width(a) == Look(a, <<"width", "memory_width", "data_storage_width">>)

\* The width settles the block when no block is given, the cluster when only
\* the block is.
BlockSize(a) ==
  IF Width(a) = {} \/ GivenBlock(a) # {} THEN Or(GivenBlock(a), 1)
  ELSE (The(Width(a)) \div Or(GivenCluster(a), 1)) \div WordBits(a)

ClusterSize(a) ==
  IF Width(a) = {} \/ GivenCluster(a) # {} THEN Or(GivenCluster(a), 1)
  ELSE IF GivenBlock(a) # {} THEN The(Width(a)) \div (WordBits(a) * The(GivenBlock(a)))
  ELSE 1

WidthIsAccepted(a) ==
  Width(a) # {} =>
    /\ The(Width(a)) % (WordBits(a) * Or(GivenBlock(a), 1)) = 0
    /\ GivenBlock(a) # {} /\ GivenCluster(a) # {}
         => The(GivenBlock(a)) * WordBits(a) * The(GivenCluster(a)) = The(Width(a))

Depth(a) == Look(a, <<"depth", "memory_depth", "data_storage_depth">>)

Size(a) ==
  IF "entries" \in DOMAIN a THEN {a["entries"]}
  ELSE IF Depth(a) # {} THEN {The(Depth(a)) * BlockSize(a)}
  ELSE IF "sizeKB" \in DOMAIN a THEN {(a["sizeKB"] * 8192) \div WordBits(a)}
  ELSE {}

SizeIsAccepted(a) ==
  "sizeKB" \in DOMAIN a => "entries" \notin DOMAIN a /\ Depth(a) = {}

MetadataWidth(a) == Or(Look(a, <<"metadata_storage_width", "metadata_width">>), 0)

MetadataDepth(a) == Or(Look(a, <<"metadata_storage_depth", "metadata_depth">>), 0)

MetadataWordBits(a) == Or(Look(a, <<"metadata_datawidth", "metadata_word_bits">>), 0)

MetadataBlock(a) == Or(Look(a, <<"metadata_block_size">>), 1)

MetadataIsAccepted(a) ==
  /\ MetadataBlock(a) # 0
  /\ MetadataWidth(a) # 0 /\ MetadataWordBits(a) # 0
       => MetadataWidth(a) % (MetadataWordBits(a) * MetadataBlock(a)) = 0

IsDRAM(a) == Or(Look(a, <<"class">>), "") = "DRAM" \/ Or(Look(a, <<"technology">>), "") = "DRAM"

Buffering(a) == Or(Look(a, <<"multiple_buffering">>), Int2Q(1))

Effective(n, a) == QTrunc(QDiv(Int2Q(n), Buffering(a)))

\* A deprecated bandwidth is split evenly; the specific ones take precedence.
Bandwidth(a, name) ==
  IF name \in DOMAIN a THEN {a[name]}
  ELSE IF "bandwidth" \in DOMAIN a /\ name # "shared_bandwidth"
    THEN {QMul(a["bandwidth"], Q(1, 2))}
  ELSE {}

\* ValidateTopology: what is missing of instances = meshX * meshY is inferred.
Instances(a, n_elements) == Or(Look(a, <<"instances">>), n_elements)

MeshX(a, n_elements) ==
  IF "meshX" \in DOMAIN a THEN a["meshX"]
  ELSE IF "meshY" \in DOMAIN a THEN Instances(a, n_elements) \div a["meshY"]
  ELSE Instances(a, n_elements)

MeshY(a, n_elements) ==
  IF "meshY" \in DOMAIN a THEN a["meshY"]
  ELSE Instances(a, n_elements) \div MeshX(a, n_elements)

ValidateTopology(a, n_elements) ==
  MeshX(a, n_elements) * MeshY(a, n_elements) = Instances(a, n_elements)

\* The energy of a vector access: as the user says or as the library has it.
PATAccessEnergy(a) ==
  IF IsDRAM(a) THEN DRAMEnergy(WordBits(a) * BlockSize(a))
  ELSE IF The(Size(a)) = 0 THEN Zero
  ELSE QDiv(SRAMEnergy(CeilingDiv(The(Size(a)), BlockSize(a)),
                       WordBits(a) * BlockSize(a) * ClusterSize(a),
                       Or(Look(a, <<"num_banks", "n_banks">>), 2),
                       Or(Look(a, <<"num_ports", "n_ports">>), 2)),
            Int2Q(ClusterSize(a)))

VectorAccessEnergy(a) == Or(Look(a, <<"vector_access_energy">>), PATAccessEnergy(a))

StorageArea(a) ==
  IF QLess(Zero, Or(Look(a, <<"cluster_area">>), Zero))
    THEN QDiv(a["cluster_area"], Int2Q(ClusterSize(a)))
  ELSE IF IsDRAM(a) \/ The(Size(a)) = 0 THEN Zero
  ELSE QDiv(SRAMArea(CeilingDiv(The(Size(a)), BlockSize(a)),
                     WordBits(a) * BlockSize(a) * ClusterSize(a),
                     Or(Look(a, <<"num_banks", "n_banks">>), 2),
                     Or(Look(a, <<"num_ports", "n_ports">>), 2)),
            Int2Q(ClusterSize(a)))

\* Gated, skipped and metadata accesses are free until a table prices them.
OpEnergyMap(a) ==
  [op \in storageOperationTypes |->
     IF op[1] = "random" /\ op \in DataOps THEN VectorAccessEnergy(a) ELSE Zero]

Accepted(a, n_elements) ==
  /\ WidthIsAccepted(a) /\ SizeIsAccepted(a) /\ MetadataIsAccepted(a)
  /\ GivenBlock(a) # {0}
  /\ Or(Look(a, <<"num_ports", "n_ports">>), 2) \in {1, 2}
  /\ "min_utilization" \in DOMAIN a /\ a["min_utilization"] # Zero => Size(a) # {}
  /\ IF IsDRAM(a) THEN ClusterSize(a) = 1 ELSE Size(a) # {}
  /\ ValidateTopology(a, n_elements)
  /\ Instances(a, n_elements) % ClusterSize(a) = 0    \* asserted on evaluation

ParseSpecs(a, n_elements) ==
  [name |-> Or(Look(a, <<"name">>), ""), word_bits |-> WordBits(a),
   block_size |-> BlockSize(a), cluster_size |-> ClusterSize(a),
   size |-> Size(a),
   effective_size |-> {Effective(n, a) : n \in Size(a)},
   effective_md_size_bits |-> {Effective(MetadataDepth(a) * MetadataWidth(a), a) : n \in Size(a)},
   metadata_storage_width |-> MetadataWidth(a),
   dram |-> IsDRAM(a),
   reduction_supported |-> Look(a, <<"reduction_supported">>),
   read_bandwidth |-> Bandwidth(a, "read_bandwidth"),
   write_bandwidth |-> Bandwidth(a, "write_bandwidth"),
   shared_bandwidth |-> Bandwidth(a, "shared_bandwidth"),
   bandwidth_consumption_scale |->
     LET given == Or(Look(a, <<"per_dataspace_bandwidth_consumption_scale">>), <<>>)
     IN  [pv \in DataSpaces |-> IF pv \in DOMAIN given THEN given[pv] ELSE Int2Q(1)],
   min_utilization |-> Or(Look(a, <<"min_utilization">>), Zero),
   instances |-> Instances(a, n_elements),
   meshX |-> MeshX(a, n_elements), meshY |-> MeshY(a, n_elements),
   allow_overbooking |-> Or(Look(a, <<"allow_overbooking">>), FALSE),
   read_network_name |-> Look(a, <<"network_read">>),
   update_network_name |-> Look(a, <<"network_update">>),
   network_fill_latency |-> Or(Look(a, <<"network_fill_latency">>), 0),
   network_drain_latency |-> Or(Look(a, <<"network_drain_latency">>), 0),
   power_gated_at_name |-> Look(a, <<"power_gated_at">>),
   addr_gen_energy |-> Look(a, <<"addr_gen_energy">>),
   storage_area |-> StorageArea(a),
   access_energy_source |-> IF "vector_access_energy" \in DOMAIN a THEN "user" ELSE "PAT",
   op_energy_map |-> OpEnergyMap(a)]

\* storageOperationMappings: the table entries that price an action, best first.
ActionNames(op) ==
  LET as(mode, kind) == <<mode, kind>>
      mode == op[1]  kind == op[2]
      write == CASE kind \in {"fill", "update"} -> "write"
                 [] kind \in {"metadata_fill", "metadata_update"} -> "metadata_write"
                 [] OTHER -> kind
  IN  IF op \in Counts \cup {Leak} THEN <<op>>
      ELSE IF mode = "random" THEN <<op, as(mode, write), as("", kind), as("", write)>>
      ELSE IF mode = "gated" THEN <<op, as(mode, write)>>
      ELSE <<op, as(mode, write), as("gated", kind), as("gated", write)>>

\* Specs::UpdateOpEnergyViaERT: a table of energies replaces the library's.
UpdateOpEnergyViaERT(specs, ert) ==
  IF specs.access_energy_source = "user" THEN specs
  ELSE [specs EXCEPT
          !.access_energy_source = "ERT",
          !.op_energy_map =
             [op \in storageOperationTypes |-> Or(Look(ert, ActionNames(op)), specs.op_energy_map[op])]]

HardwareReductionSupported(specs) == Or(specs.reduction_supported, ~specs.dram)

------------------------------------------------------------------------------
(* Occupancy *)

\* The least number the nonzeros of the tile do not exceed with the confidence.
GetMaxDataTileOccupancyByConfidence(tile, confidence) ==
  IF ~tile.compressed /\ ~tile.has_metadata THEN tile.shape
  ELSE LET n == Len(tile.occupancies)
           rank == QCeil(Times(n, confidence))
       IN  tile.occupancies[IF rank < 1 THEN 1 ELSE rank]

\* A rank of a format is [units, word_bits]: what a tile of a confidence holds
\* of it, metadata and payload taken together.
GetMaxMetaDataTileOccupancyByConfidence(tile, confidence) ==
  [r \in DOMAIN tile.formats |->
     [units |-> IF tile.formats[r].per_nonzero
                  THEN tile.formats[r].units * GetMaxDataTileOccupancyByConfidence(tile, confidence)
                  ELSE tile.formats[r].units,
      word_bits |-> tile.formats[r].word_bits]]

ComputeMetaDataTileSizeInBits(occupancy) ==
  MapThenSumSet(LAMBDA r : occupancy[r].units * occupancy[r].word_bits, DOMAIN occupancy)

MetadataBits(tile, confidence) ==
  ComputeMetaDataTileSizeInBits(GetMaxMetaDataTileOccupancyByConfidence(tile, confidence))

\* The mean of the occupancies.
ExpectedOccupancy(tile) ==
  IF tile.shape = 0 THEN Zero
  ELSE IF ~tile.compressed THEN Int2Q(tile.shape)
  ELSE Q(MapThenSumSet(LAMBDA i : tile.occupancies[i], DOMAIN tile.occupancies),
         Len(tile.occupancies))

\* What of the capacity is set aside for a data space: in proportion to what
\* the data spaces are expected to hold, each share rounded up.
Share(capacity, tiles, pv) ==
  LET expected == [d \in DataSpaces |-> ExpectedOccupancy(tiles[d])]
      all == QSum(expected, DataSpaces)
  IN  IF all = Zero THEN capacity
      ELSE QCeil(Times(capacity, QDiv(expected[pv], all)))

=============================================================================
