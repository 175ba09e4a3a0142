-------------------------- MODULE ArchitectureStats --------------------------
(***************************************************************************)
(* The architecture at work: how a topology turns the tiles of one mapping *)
(* after another into statistics (Topology::PreEvaluationCheck, ::Evaluate *)
(* and ::ComputeStats in src/src/model/topology.cpp), level by level, with *)
(* the levels and networks of BufferEvaluation and NetworkModels, as       *)
(* Topology::ParseSpecs and ::Spec build them.                             *)
(*                                                                         *)
(* Two engines evaluate every mapping: "used" is the one a mapper thread   *)
(* keeps through the search, "fresh" is built anew for each mapping, as    *)
(* the one the main thread evaluates the best mapping on.                  *)
(*                                                                         *)
(* The search for the confidence of a compressed tile, a loop of           *)
(* BufferLevel::ComputeTileOccupancyAndConfidence, takes a step for each   *)
(* confidence it tries.                                                    *)
(***************************************************************************)
EXTENDS NetworkModels, SequencesExt, FiniteSetTheorems, TLAPS

(***************************************************************************)
(* How a topology is built from its specifications (Topology::ParseSpecs,  *)
(* ::Spec and ::FloorPlan in src/src/model/topology.cpp): the energies and *)
(* areas of the tables, the networks between the levels, named in the      *)
(* configuration or inferred, and where everything is placed.              *)
(***************************************************************************)

CONSTANTS
  StorageAttributes,      \* of the storage levels, innermost first
  ArithmeticAttributes,
  UserNetworks,           \* the networks of the configuration: name -> specs
  EnergyTables,           \* component name -> action -> energies, the Accelergy ERT
  MulticastTables,        \* the same of a network: by number of destinations
  AreaTables,             \* component name -> area, the Accelergy ART
  Side(_)                 \* the side of a square of an area

Storage == 1 .. Len(StorageAttributes)

\* The level of the multipliers, inside of all storage.
Arithmetic == 0

Attributes(l) == IF l = Arithmetic THEN ArithmeticAttributes ELSE StorageAttributes[l]

\* parseElementSize: the copies of a component, "name[0..n]", in all the
\* subtrees around it.
Elements(l) == Or(Look(Attributes(l), <<"elements">>), 1)

\* The networks a level names towards the outside, and the inner one for them.
Outwards(l) ==
  IF l = Arithmetic
    THEN <<Look(Attributes(l), <<"network_operand">>), Look(Attributes(l), <<"network_result">>)>>
    ELSE <<Look(Attributes(l), <<"network_fill">>), Look(Attributes(l), <<"network_drain">>)>>

Inwards(l) == <<Look(Attributes(l), <<"network_read">>), Look(Attributes(l), <<"network_update">>)>>

ASSUME LevelsAssumption == Len(StorageAttributes) \in Nat \ {0}

\* What the code asserts or exits on.  The tables price the last level of a
\* name: no two have the same.  Updates without a network of their own come
\* over a legacy one (a static cast), and a reduction tree carries no reads.
ASSUME ArchitectureAssumption ==
  /\ \A l \in Storage : Accepted(StorageAttributes[l], Elements(l))
  /\ ValidateTopology(ArithmeticAttributes, Elements(Arithmetic))
  /\ \A k, l \in {Arithmetic} \cup Storage :
       k # l => Look(Attributes(k), <<"name">>) # Look(Attributes(l), <<"name">>)
  /\ \A l \in Storage :
       LET read == Inwards(l)[1]  update == Inwards(l)[2]
       IN  /\ read \cup update \subseteq DOMAIN UserNetworks
           /\ Outwards(l - 1) = Inwards(l)
           /\ \A n \in read : /\ UserNetworks[n].type # "ReductionTree"
                              /\ update = {} => UserNetworks[n].type = "Legacy"
  /\ \A l \in Storage :
       LET gate == ParseSpecs(StorageAttributes[l], Elements(l)).power_gated_at_name
       IN  gate = {} \/ \E k \in Storage : gate = {ParseSpecs(StorageAttributes[k], Elements(k)).name}
  /\ Cardinality({"wire", "Wire"} \cap DOMAIN EnergyTables) <= 1

\* Sizes and instances are counts; more than none of a buffer is set aside for a tile.
ASSUME SizesAssumption ==
  \A l \in Storage :
    /\ Size(Attributes(l)) \subseteq Nat
    /\ Buffering(Attributes(l)) \in Rationals /\ Buffering(Attributes(l))[1] > 0
    /\ Instances(Attributes(l), Elements(l)) \in Nat \ {0}

\* ParseAccelergyERT: the most expensive of the arguments of an action, from 0 on.
MostExpensive(energies) ==
  CHOOSE e \in energies \cup {Zero} : \A f \in energies \cup {Zero} : QLeq(f, e)

ERTOf(name) ==
  IF name \in DOMAIN EnergyTables
    THEN [action \in DOMAIN EnergyTables[name] |-> MostExpensive(EnergyTables[name][action])]
    ELSE <<>>

\* The wire of the tables makes the inferred networks; zero is no energy.
WithWire(network) ==
  LET prices == {MostExpensive(EnergyTables[w]["transfer_random"]) : w \in {"wire", "Wire"} \cap DOMAIN EnergyTables}
                  \ {Zero}
  IN  [network EXCEPT !.wire_energy = Or(prices, @)]

WithTables(network) ==
  IF network.name \in DOMAIN MulticastTables
    THEN ProcessERT(network, MulticastTables[network.name]) ELSE network

StorageWithTables(specs) ==
  [(IF specs.name \in DOMAIN EnergyTables THEN UpdateOpEnergyViaERT(specs, ERTOf(specs.name)) ELSE specs)
    EXCEPT !.storage_area = Or(Look(AreaTables, <<specs.name>>), @)]

ArithmeticWithTables(specs) ==
  [(IF specs.name \in DOMAIN EnergyTables THEN UpdateComputeEnergyViaERT(specs, ERTOf(specs.name)) ELSE specs)
    EXCEPT !.area = Or(Look(AreaTables, <<specs.name>>), @)]

------------------------------------------------------------------------------
(* Topology::Spec: a network of the configuration, or one inferred from the
   outer level, reads to the level inside; updates come back over the same
   unless another is named.  levels maps every level to its specification;
   a network is named by its name or by the levels it was inferred for. *)

ReadFill(levels, l) ==
  IF levels[l].read_network_name # {} THEN <<The(levels[l].read_network_name)>>
  ELSE <<levels[l].name, levels[l - 1].name>>

DrainUpdate(levels, l) ==
  IF levels[l].update_network_name # {} THEN <<The(levels[l].update_network_name)>>
  ELSE ReadFill(levels, l)

Outermost(ls) == CHOOSE l \in ls : \A k \in ls : k <= l

Innermost(ls) == CHOOSE l \in ls : \A k \in ls : l <= k

Read(levels, n) == {l \in Storage : ReadFill(levels, l) = n}

Drained(levels, n) == {l \in Storage : DrainUpdate(levels, l) = n}

\* ConnectSink: levels are connected from the inside, for updates to the outer
\* level and for reads, over another network, to the inner one; the last counts.
\* The multipliers do not reduce.
SinkReduces(levels, read, drained) ==
  LET last == Outermost(read \cup drained)
      sink == IF last \in drained THEN last ELSE last - 1
  IN  sink # Arithmetic /\ HardwareReductionSupported(levels[sink])

\* FloorPlan: a tile of a level is its buffer and the tiles inside.
TileArea(levels) ==
  LET area[l \in {Arithmetic} \cup Storage] ==
        IF l = Arithmetic THEN levels[l].area
        ELSE QAdd(levels[l].storage_area,
                  Times(levels[l - 1].instances \div levels[l].instances, area[l - 1]))
  IN  area

\* SetTileWidth, of the inner level's side, from the innermost level outwards.
Placed(specs, levels, read, drained) ==
  FoldLeft(LAMBDA network, l : SetTileWidth(network, Side(TileArea(levels)[l - 1])), specs,
           SetToSortSeq(read \cup drained, LAMBDA k, l : k < l))
    @@ [cType |-> (IF read # {} THEN {"ReadFill"} ELSE {}) \cup (IF drained # {} THEN {"UpdateDrain"} ELSE {}),
        sink_reduces |-> SinkReduces(levels, read, drained),
        source |-> Innermost(read \cup drained)]

SpecOf(n, read, drained) ==
  IF Len(n) = 1 THEN WithTables(UserNetworks[n[1]])
  ELSE WithWire(NetworkSpecs(StorageAttributes[Innermost(read \cup drained)], "Legacy"))

Network(levels, n) ==
  Placed(SpecOf(n, Read(levels, n), Drained(levels, n)), levels, Read(levels, n), Drained(levels, n))

\* A latency given with a level counts where no network is named.
Latency(levels, networks, l) ==
  (IF levels[l].read_network_name # {} THEN networks[ReadFill(levels, l)].fill_latency
   ELSE levels[l].network_fill_latency)
  + (IF levels[l].update_network_name # {} THEN DrainLatency(networks[DrainUpdate(levels, l)])
     ELSE levels[l].network_drain_latency)

AreaOf(levels) ==
  QAdd(Times(levels[Arithmetic].instances, levels[Arithmetic].area),
       QSum([l \in Storage |-> BufferArea(levels[l])], Storage))

\* The level whose instances share a power gate with those of l.
PowerGate(levels, l) ==
  IF levels[l].power_gated_at_name = {} THEN l
  ELSE The({k \in Storage : {levels[k].name} = levels[l].power_gated_at_name})

Connected(levels, networks) ==
  [levels |-> levels, networks |-> networks,
   read_fill |-> [l \in Storage |-> ReadFill(levels, l)],
   drain_update |-> [l \in Storage |-> DrainUpdate(levels, l)],
   power_gate |-> [l \in Storage |-> PowerGate(levels, l)],
   total_network_latency |-> MapThenSumSet(LAMBDA l : Latency(levels, networks, l), Storage),
   area |-> AreaOf(levels)]

Specced(levels) ==
  Connected(levels,
            [n \in {ReadFill(levels, l) : l \in Storage} \cup {DrainUpdate(levels, l) : l \in Storage}
               |-> Network(levels, n)])

\* ParseSpecs and Spec: the topology, before any evaluation.
Topology ==
  Specced([l \in {Arithmetic} \cup Storage |->
             IF l = Arithmetic THEN ArithmeticWithTables(ArithmeticSpecs(ArithmeticAttributes, Elements(l)))
             ELSE StorageWithTables(ParseSpecs(StorageAttributes[l], Elements(l)))])

-----------------------------------------------------------------------------
CONSTANTS
  Mappings,               \* the mappings, with what the analyses say of them
  MaxEvaluations,         \* bound on the mappings evaluated
  Resolution              \* bound on how close two confidences can be told apart

ASSUME EvaluationsAssumption == MaxEvaluations \in Nat

\* What the analyses say of a tile, as far as its capacity goes: when it is
\* compressed or has metadata, its occupancies are ascending.
IsTile(tile) ==
  /\ tile.shape \in Nat /\ tile.compressed \in BOOLEAN /\ tile.has_metadata \in BOOLEAN
  /\ tile.compressed \/ tile.has_metadata =>
       /\ tile.occupancies \in Seq(Nat) /\ tile.occupancies # <<>>
       /\ \A i, j \in DOMAIN tile.occupancies : i <= j => tile.occupancies[i] <= tile.occupancies[j]

\* A threshold is a confidence, the share of a tile's equally likely occupancies.
ASSUME MappingsAssumption ==
  /\ IsFiniteSet(DataSpaces)
  /\ \A m \in Mappings, l \in Storage :
       /\ m.masks[l] \subseteq DataSpaces
       /\ m.thresholds[l] \in Shares
       /\ \A pv \in DataSpaces : IsTile(m.tiles[l][pv])

------------------------------------------------------------------------------
VARIABLES
  specced,      \* the topology Topology::Spec built, the same in both engines
  pc,           \* where the evaluation stands
  mapping,      \* the mapping under evaluation
  precheck,     \* what the pre-evaluation check says of each level
  success,      \* success_accum
  at,           \* the storage level the evaluation has reached
  occupancy,    \* what is settled of the data spaces at that level
  search,       \* the search for a confidence: data space, bounds, best so far
  engine,       \* what each engine holds of its levels, networks and topology
  evaluations   \* mappings evaluated so far

vars == <<specced, pc, mapping, precheck, success, at, occupancy, search, engine, evaluations>>

Engines == {"used", "fresh"}

Specs == specced.levels

Networks == DOMAIN specced.networks

Distributed(l) == DistributedMulticastSupported(specced.networks[specced.read_fill[l]])

NoTopologyStats ==
  [energy |-> Zero, area |-> Zero, cycles |-> 0, utilization |-> Zero,
   algorithmic_computes |-> 0, actual_computes |-> 0, last_level_accesses |-> 0,
   per_tensor_accesses |-> <<>>, accesses |-> <<>>,
   tile_sizes |-> <<>>, utilized_capacities |-> <<>>, utilized_instances |-> <<>>]

\* Topology::Spec computes the area, and nothing else before an evaluation.
SpeccedEngine ==
  [buffers |-> [l \in Storage |-> NoBufferStats],
   networks |-> [n \in Networks |-> NoNetworkStats],
   arithmetic |-> NoArithmeticStats,
   evaluated |-> {},
   topology |-> [NoTopologyStats EXCEPT !.area = specced.area]]

NoSearch == [active |-> FALSE]

Init ==
  /\ specced = Topology
  /\ pc = "idle" /\ success = FALSE /\ precheck = <<>>
  /\ mapping \in Mappings
  /\ at = 1 /\ occupancy = <<>> /\ search = NoSearch
  /\ engine = [e \in Engines |-> SpeccedEngine]
  /\ evaluations = 0

Tiles == mapping.tiles[at]

\* Topology::Reset leaves the levels' and networks' statistics as they are;
\* evaluated are the networks whose is_evaluated_ is set.
Reset(e) == [e EXCEPT !.evaluated = {}, !.topology = NoTopologyStats]

\* Every data space is kept at some level.
CheckMaskValidity(masks) == UNION {masks[l] : l \in Storage} = DataSpaces

\* The verdicts on the levels, the first failure ends the check.
PreChecked(m) ==
  LET verdict(l) == PreEvaluationCheck(Specs[l], m.tiles[l], m.masks[l], m.thresholds[l], Distributed(l))
      failing == {l \in Storage : verdict(l) # "passed"}
  IN  IF ~CheckMaskValidity(m.masks) THEN [l \in Storage |-> "bypassed"]
      ELSE [l \in Storage |-> IF \E k \in failing : k < l THEN "passed" ELSE verdict(l)]

\* Topology::PreEvaluationCheck, and the start of Topology::Evaluate.  A failure
\* ends the evaluation (break_on_failure); the checks of the formats and the
\* sparse processing are behind the mappings here.
BeginEvaluate(m) ==
  /\ pc = "idle" /\ evaluations < MaxEvaluations
  /\ evaluations' = evaluations + 1
  /\ mapping' = m
  /\ precheck' = PreChecked(m)
  /\ engine' = [used |-> Reset(engine["used"]), fresh |-> Reset(SpeccedEngine)]
  /\ success' = CheckMaskValidity(m.masks)
  /\ pc' = IF success' THEN "arithmetic" ELSE "idle"
  /\ UNCHANGED <<specced, at, occupancy, search>>

EvaluateArithmeticLevel ==
  /\ pc = "arithmetic"
  /\ engine' = [e \in Engines |->
                  [engine[e] EXCEPT !.arithmetic = EvaluateArithmetic(Specs[Arithmetic], @, mapping.compute)]]
  /\ success' = ArithmeticSucceeds(Specs[Arithmetic], mapping.compute)
  /\ at' = 1 /\ occupancy' = <<>>
  /\ pc' = IF success' THEN "occupancy" ELSE "idle"
  /\ UNCHANGED <<specced, mapping, precheck, search, evaluations>>

------------------------------------------------------------------------------
(* ComputeTileOccupancyAndConfidence *)

Occupied(tile, confidence) ==
  [confidence |-> confidence,
   data_tile_size |-> GetMaxDataTileOccupancyByConfidence(tile, confidence),
   metadata |-> IF tile.has_metadata THEN GetMaxMetaDataTileOccupancyByConfidence(tile, confidence) ELSE <<>>,
   metadata_tile_size_bits |-> IF tile.has_metadata THEN MetadataBits(tile, confidence) ELSE 0]

Constraint == ConfidenceConstraint(Specs[at], mapping.thresholds[at])

Unsettled == DataSpaces \ DOMAIN occupancy

Settle(pv, o) ==
  occupancy' = [d \in DOMAIN occupancy \cup {pv} |-> IF d = pv THEN o ELSE occupancy[d]]

StartOf(pv) ==
  IF (Tiles[pv].compressed \/ Tiles[pv].has_metadata) /\ Specs[at].size # {}
    THEN Occupied(Tiles[pv], Constraint)
    ELSE Occupied(Tiles[pv], Int2Q(1))

\* A search starts from the threshold, with what is set aside for the data space.
SearchFrom(pv, start) ==
  [active |-> TRUE, pv |-> pv, lower |-> start.confidence, upper |-> Int2Q(1), best |-> start,
   allocated_size |-> Share(The(Specs[at].effective_size), Tiles, pv),
   allocated_bits |-> Share(The(Specs[at].effective_md_size_bits), Tiles, pv)]

\* There is room left at the threshold: search for a higher confidence.
Improvable(pv, start) ==
  /\ Tiles[pv].compressed /\ Specs[at].size # {} /\ QLess(start.confidence, Int2Q(1))
  /\ start.data_tile_size < SearchFrom(pv, start).allocated_size
  /\ start.metadata_tile_size_bits < SearchFrom(pv, start).allocated_bits

SettleOccupancy ==
  /\ pc = "occupancy" /\ Unsettled # {} /\ ~search.active
  /\ LET pv == CHOOSE d \in Unsettled : TRUE
     IN  IF Improvable(pv, StartOf(pv))
           THEN search' = SearchFrom(pv, StartOf(pv)) /\ UNCHANGED occupancy
           ELSE Settle(pv, StartOf(pv)) /\ UNCHANGED search
  /\ UNCHANGED <<specced, pc, mapping, precheck, success, at, engine, evaluations>>

\* A double between two that are next to each other is one of them.
Middle(lower, upper) ==
  IF QLeq(QSub(upper, lower), Resolution) THEN lower ELSE QMul(QAdd(lower, upper), Q(1, 2))

FitsExactly(o) ==
  o.data_tile_size = search.allocated_size \/ o.metadata_tile_size_bits = search.allocated_bits

\* The condition of the loop.
Searching ==
  /\ search.active
  /\ FitsExactly(search.best) \/ QLess(Q(1, 100), QSub(search.upper, search.lower))

Exceeds(o) ==
  o.data_tile_size > search.allocated_size \/ o.metadata_tile_size_bits > search.allocated_bits

Narrowed_FromBelow(middle, tried) ==
  IF Exceeds(tried) THEN search ELSE [search EXCEPT !.lower = middle, !.best = tried]

Narrowed(middle, tried) ==
  IF Exceeds(tried) THEN [search EXCEPT !.upper = middle]
  ELSE [search EXCEPT !.lower = middle, !.best = tried]

TryConfidence ==
  /\ pc = "occupancy" /\ Searching
  /\ LET middle == Middle(search.lower, search.upper)
     IN  search' = Narrowed(middle, Occupied(Tiles[search.pv], middle))
  /\ UNCHANGED <<specced, pc, mapping, precheck, success, at, occupancy, engine, evaluations>>

EndSearch ==
  /\ pc = "occupancy" /\ search.active /\ ~Searching
  /\ Settle(search.pv, [search.best EXCEPT !.confidence = search.lower])
  /\ search' = NoSearch
  /\ UNCHANGED <<specced, pc, mapping, precheck, success, at, engine, evaluations>>

------------------------------------------------------------------------------
(* BufferLevel::Evaluate, for the level the evaluation has reached. *)

SpatialOf(loops) == SelectSeq(loops, LAMBDA j : j.spatial)

LoopsInside(l) == FoldLeft(LAMBDA acc, k : acc \o mapping.loops[k], <<>>, [k \in 1 .. l - 1 |-> k])

\* Spatial loops of inner levels that keep nothing are evaluated at this level.
Pending(l) ==
  LET keeping == {k \in 1 .. l - 1 : mapping.masks[k] # {}}
      first == IF keeping = {} THEN 1 ELSE Outermost(keeping) + 1
  IN  FoldLeft(LAMBDA acc, k : acc \o SpatialOf(mapping.loops[first + k - 1]), <<>>,
               [k \in 1 .. l - first |-> k])

Extent(loops, dim) ==
  FoldLeft(LAMBDA acc, j : IF j.dim = dim THEN acc * j.end ELSE acc, 1, loops)

Dimensions == UNION {{mapping.loops[l][i].dim : i \in DOMAIN mapping.loops[l]} : l \in Storage}

\* A spatial loop of the level itself replaces what is known of its dimension.
Parallelism(l) ==
  [dim \in Dimensions |->
     LET own == SelectSeq(mapping.loops[l], LAMBDA j : j.spatial /\ j.dim = dim)
     IN  IF own = <<>> THEN Extent(Pending(l), dim) ELSE own[Len(own)].end]

Subtile(l) == [dim \in Dimensions |-> Extent(LoopsInside(l), dim)]

SubtileCycles(l) ==
  FoldLeft(LAMBDA acc, j : IF j.spatial THEN acc ELSE acc * j.end, 1, LoopsInside(l))

\* ComputeBankConflictSlowdown, of the data spaces the level keeps.
Conflicts(l) ==
  [pv \in DataSpaces |->
     IF mapping.layouts = {} \/ pv \notin mapping.masks[l] THEN NoConflict
     ELSE SlowdownOf(The(mapping.layouts)[l][pv], Specs[l].block_size,
                     Parallelism(l), Subtile(l), SubtileCycles(l))]

OverallSlowdown(conflicts) ==
  MapThenFoldSet(QMul, Int2Q(1), LAMBDA pv : conflicts[pv].slowdown,
                 LAMBDA S : CHOOSE pv \in S : TRUE, DataSpaces)

\* What a level is left with, evaluated to the end only when it is valid.
EvaluatedLevel(e, conflicts, valid) ==
  [e EXCEPT !.buffers[at] =
     IF valid
       THEN EvaluateBuffer(Specs[at], @, Tiles, mapping.masks[at], occupancy,
                           [pv \in DataSpaces |-> conflicts[pv].ratio], OverallSlowdown(conflicts),
                           WordBitsOf(specced.networks[specced.drain_update[at]]), e.arithmetic.cycles)
       ELSE ComputeScalarAccesses(Specs[at], @, Tiles, mapping.masks[at], occupancy)]

\* The code asserts that no layout needs fewer lines than a model that reads full blocks.
LinesAreAsserted(l) ==
  \A layouts \in mapping.layouts, pv \in mapping.masks[l], request \in {Parallelism(l), Subtile(l)} :
    LET ratio == ComputeBankConflictSlowdownPerDataSpace(layouts[l][pv], Specs[l].block_size, request, 1).ratio
    IN  QLeq(ratio, Int2Q(1))

EvaluateStorageLevel ==
  /\ pc = "occupancy" /\ Unsettled = {} /\ LinesAreAsserted(at)
  /\ \E conflicts \in {Conflicts(at)} :
     \E valid \in {BufferSucceeds(Specs[at], Tiles, occupancy, mapping.thresholds[at])} :
       /\ engine' = [e \in Engines |-> EvaluatedLevel(engine[e], conflicts, valid)]
       /\ success' = valid
       /\ pc' = IF ~valid THEN "networks" ELSE IF at = Len(StorageAttributes) THEN "overflow" ELSE "occupancy"
       /\ at' = IF valid /\ at < Len(StorageAttributes) THEN at + 1 ELSE at
  /\ occupancy' = <<>>
  /\ UNCHANGED <<specced, mapping, precheck, search, evaluations>>

\* What overflows a level is read from the parent.
Overflowing(buffers, parent, pv) ==
  {c \in Storage : mapping.tiles[c][pv].parent = {parent} /\ buffers[c].tile_confidence[pv] # Int2Q(1)}

Charged(buffers) ==
  [l \in Storage |->
     ComputeEnergyDueToChildLevelOverflow(Specs[l], buffers[l],
       [pv \in DataSpaces |-> QSum([c \in Storage |-> OverflowEnergy(Specs[l], buffers[c], pv)],
                                   Overflowing(buffers, l, pv))])]

MaxOver(S) == CHOOSE n \in S : \A k \in S : k <= n

CyclesOf(e) == MaxOver({e.arithmetic.cycles} \cup {e.buffers[l].cycles : l \in Storage})

Leaking(buffers) ==
  [l \in Storage |->
     ComputeLeaksPerCycle(Specs[l], buffers[l], Specs[specced.power_gate[l]], buffers[specced.power_gate[l]])]

Finalized(buffers, cycles) ==
  [l \in Storage |-> FinalizeBufferEnergy(Specs[l], buffers[l], cycles)]

FinalizeEnergy ==
  /\ pc = "overflow"
  /\ engine' = [e \in Engines |->
                  [engine[e] EXCEPT !.buffers = Finalized(Leaking(Charged(@)), CyclesOf(engine[e]))]]
  /\ pc' = "networks"
  /\ UNCHANGED <<specced, mapping, precheck, success, at, occupancy, search, evaluations>>

------------------------------------------------------------------------------
(* The networks, of a mapping that failed as well, and ComputeStats. *)

\* The connections are gone through from the inside, each network evaluated
\* once.  Where the network for reads was evaluated before, the status the loop
\* breaks on is read uninitialised: it may stop there.
Stops ==
  {Len(StorageAttributes) + 1}
    \cup {l \in Storage : \E k \in 1 .. l - 1 : specced.read_fill[l] \in {specced.read_fill[k], specced.drain_update[k]}}

EvaluatedNetworks(e, stop) ==
  LET met == {n \in Networks : specced.networks[n].source < stop}
  IN  [e EXCEPT
         !.networks =
            [n \in Networks |->
               IF n \in met THEN EvaluateNetwork(specced.networks[n], @[n], mapping.tiles[specced.networks[n].source])
               ELSE @[n]],
         !.evaluated = met]

EvaluateNetworks ==
  /\ pc = "networks"
  /\ \E stop \in [Engines -> Stops] :
       engine' = [e \in Engines |-> EvaluatedNetworks(engine[e], stop[e])]
  /\ pc' = IF success THEN "stats" ELSE "idle"
  /\ UNCHANGED <<specced, mapping, precheck, success, at, occupancy, search, evaluations>>

NetworkEnergies(e) == [n \in e.evaluated |-> NetworkEnergy(specced.networks[n], e.networks[n])]

EnergyOf(e) ==
  QAdd(e.arithmetic.energy,
       QAdd(QSum([l \in Storage |-> BufferEnergy(e.buffers[l])], Storage),
            QSum(NetworkEnergies(e), e.evaluated)))

LevelAccesses(stats) == SumOver([pv \in DataSpaces |-> AccessesOf(stats, pv)])

ComputeStats(e) ==
  [e.topology EXCEPT
     !.energy = EnergyOf(e),
     !.cycles = CyclesOf(e) + specced.total_network_latency,
     !.utilization =
        QDiv(IdealCycles(Specs[Arithmetic], e.arithmetic), Int2Q(CyclesOf(e) + specced.total_network_latency)),
     !.algorithmic_computes = e.arithmetic.algorithmic_computes,
     !.actual_computes = e.arithmetic.random_computes,
     !.last_level_accesses = LevelAccesses(e.buffers[Len(StorageAttributes)]),
     !.per_tensor_accesses =
        [l \in Storage |-> [pv \in DataSpaces |-> AccessesOf(e.buffers[l], pv)]],
     !.accesses = [l \in Storage |-> LevelAccesses(e.buffers[l])],
     !.tile_sizes = [l \in Storage |-> e.buffers[l].tile_size],
     !.utilized_capacities = [l \in Storage |-> e.buffers[l].utilized_capacity],
     !.utilized_instances =
        [l \in Storage |-> [pv \in DataSpaces |-> QTrunc(e.buffers[l].utilized_instances[pv])]]]

CollectStats ==
  /\ pc = "stats"
  /\ engine' = [e \in Engines |-> [engine[e] EXCEPT !.topology = ComputeStats(engine[e])]]
  /\ pc' = "idle"
  /\ UNCHANGED <<specced, mapping, precheck, success, at, occupancy, search, evaluations>>

Evaluating ==
  \/ EvaluateArithmeticLevel
  \/ SettleOccupancy \/ TryConfidence \/ EndSearch
  \/ EvaluateStorageLevel \/ FinalizeEnergy \/ EvaluateNetworks \/ CollectStats

Next == Evaluating \/ \E m \in Mappings : BeginEvaluate(m)

\* The loop of the search runs until its condition fails.
Spec == Init /\ [][Next]_vars /\ WF_vars(TryConfidence \/ EndSearch)

Evaluated == pc = "idle" /\ evaluations > 0

------------------------------------------------------------------------------
(* Properties *)

\* What a network of the used engine still holds of earlier mappings: no network's
\* statistics are reset.  A legacy network adds to the entries of its sink that cannot
\* reduce, which is what a DRAM is unless it says otherwise, and keeps those of factors
\* the mapping in hand does not use; a reduction tree adds up its reductions; and a
\* simple multicast network keeps its energy where nothing is transferred.
LeftBehind(network, used, fresh) ==
  CASE network.type = "Legacy" ->
         /\ ~network.sink_reduces /\ network.cType # {"ReadFill"}
         /\ \E pv \in ReadWrite :
              \/ DOMAIN used.ingresses[pv] # DOMAIN fresh.ingresses[pv]
              \/ DOMAIN used.distributed_ingresses[pv] # DOMAIN fresh.distributed_ingresses[pv]
    [] network.type = "ReductionTree" ->
         \E pv \in ReadWrite : used.spatial_reductions[pv] # fresh.spatial_reductions[pv]
    [] OTHER ->
         \E pv \in DataSpaces : Transferred(fresh.ingresses[pv]) = {} /\ used.energy[pv] # Zero

NetworksForget(used, fresh) ==
  \A n \in used.evaluated \cap fresh.evaluated :
    \/ LeftBehind(specced.networks[n], used.networks[n], fresh.networks[n])
    \/ NetworkEnergies(used)[n] = NetworkEnergies(fresh)[n]

ReportForgets(used, fresh) ==
  /\ \A stat \in DOMAIN NoTopologyStats \ {"energy"} : used.topology[stat] = fresh.topology[stat]
  /\ NetworkEnergies(used) = NetworkEnergies(fresh) => used.topology = fresh.topology

\* What an engine reports of a mapping depends on the mapping alone, not on those
\* evaluated before on the same engine (Topology::Evaluate resets no more than the flags
\* of the levels and networks), except for the energy: that of a network with something
\* left behind, or of one that the loop over the connections did not come to when the
\* status it breaks on was never assigned.
EvaluationForgets ==
  LET used == engine["used"]  fresh == engine["fresh"]
  IN  Evaluated /\ success => ReportForgets(used, fresh) /\ NetworksForget(used, fresh)

\* A level with a size holds the tiles it is to keep, and each of them with the
\* confidence asked for.
Holds(l) ==
  LET stats == engine["used"].buffers[l]
  IN  /\ Specs[l].size # {} => SumOver(stats.utilized_capacity) <= The(Specs[l].effective_size)
      /\ \A pv \in DataSpaces : QLeq(mapping.thresholds[l], stats.tile_confidence[pv])

\* Capacity is judged right, in the end: an accepted mapping fits every level
\* (the checks of ComputeScalarAccesses, one level after another).
TilesFit == Evaluated /\ success => \A l \in Storage : Holds(l)

\* And from the start: no level was too small for an accepted mapping in the
\* pre-evaluation check, "use a very loose filter and fail this check only if
\* there's no chance that this mapping can fit".  Of a tile with metadata that is
\* not compressed the check counts all elements, the evaluation the nonzeros.
CapacityIsJudged ==
  /\ TilesFit
  /\ Evaluated /\ success =>
       \A l \in Storage :
         precheck[l] = "too large" =>
           \E pv \in mapping.masks[l] : mapping.tiles[l][pv].has_metadata /\ ~mapping.tiles[l][pv].compressed

\* The cycles of an accepted mapping are enough to move the words of an average
\* instance of each level over its ports, shared or not.
BandwidthHonoured ==
  Evaluated /\ success =>
    \A l \in Storage :
      LET stats == engine["used"].buffers[l]
          cycles == Int2Q(engine["used"].topology.cycles)
          words(kinds) == QSum([pv \in DataSpaces |->
                                  Times(AverageWords(Specs[l], stats, pv, kinds),
                                        Specs[l].bandwidth_consumption_scale[pv])], DataSpaces)
          carries(bandwidth, kinds) ==
            bandwidth # {} => QLeq(words(kinds), QMul(The(bandwidth), cycles))
      IN  /\ carries(Specs[l].read_bandwidth, {"read"})
          /\ carries(Specs[l].write_bandwidth, Writes)
          /\ Specs[l].shared_bandwidth # {}
               => QLeq(QAdd(words({"read"}), words(Writes)), QMul(The(Specs[l].shared_bandwidth), cycles))

\* What is asked of a layout: the words read in parallel within one cycle, and the next
\* tile within the cycles of the current one.
RequestsOf(l) ==
  {[asked |-> Parallelism(l), cycles |-> 1], [asked |-> Subtile(l), cycles |-> SubtileCycles(l)]}

LaidOutAt(l) == UNION {{layouts[l][pv] : pv \in mapping.masks[l]} : layouts \in mapping.layouts}

Product(f) == FoldFunction(LAMBDA a, b : a * b, 1, f)

\* Where a request can start in a line, along each rank of which it asks for more than one word.
Placements(layout, asked) ==
  {p \in [Requested(layout, asked) -> 0 .. MaxOver({rank.factor : rank \in ToSet(layout.ranks)}) - 1] :
     \A i \in DOMAIN p : p[i] < layout.ranks[i].factor}

\* The lines of a request, when those before it followed one another.
LinesAt(layout, asked, placement) ==
  Product([i \in DOMAIN placement |->
             LET words == RankRequest(layout.ranks[i], asked)
                 line(word) == word \div layout.ranks[i].factor
             IN  line((placement[i] + 1) * words - 1) - line(placement[i] * words) + 1])

CyclesAt(layout, request, placement) ==
  Larger(request.cycles, CeilingDiv(LinesAt(layout, request.asked, placement), layout.ports))

\* The lines and the cycles counted for a layout are those of requests that really follow
\* one another along each of its ranks: of all the ways a request can lie across lines, as
\* many take one line more as the layout makes so (a comment of the code doubts it:
\* "Wrong equation when C=3, H=7").
LinesMatchPlacement ==
  Evaluated =>
    \A l \in Storage : \A layout \in LaidOutAt(l), request \in RequestsOf(l) :
      LET placements == Placements(layout, request.asked)
          counted(weight(_), total) ==
            MapThenSumSet(weight, placements) * Requests(layout, request.asked) = total * Cardinality(placements)
      IN  /\ counted(LAMBDA p : LinesAt(layout, request.asked, p), LinesTouched(layout, request.asked))
          /\ counted(LAMBDA p : CyclesAt(layout, request, p), CriticalPath(layout, request.asked, request.cycles))

\* The computes wait for the lines: a request follows another as often as the cycles it may
\* take go into those of the computes, and takes what it does on average over its placements.
LinesAreFetched ==
  Evaluated /\ success =>
    \A l \in Storage : \A layout \in LaidOutAt(l), request \in RequestsOf(l) :
      LET placements == Placements(layout, request.asked)
      IN  engine["used"].arithmetic.cycles * MapThenSumSet(LAMBDA p : CyclesAt(layout, request, p), placements)
            <= engine["used"].topology.cycles * request.cycles * Cardinality(placements)

\* The arithmetic units are never reported busier than they can be.
UtilizationIsAShare ==
  Evaluated /\ success => QLeq(engine["used"].topology.utilization, Int2Q(1))

\* The cycles counted for an accepted mapping are enough for what it does: to
\* move its words, to fetch its lines and to compute.
CyclesAreEnough == BandwidthHonoured /\ LinesMatchPlacement /\ LinesAreFetched /\ UtilizationIsAShare

\* Once started, the search for a confidence ends, or it has met a tile exactly
\* as large as what is set aside for it: the loop's condition holds on for
\* that one, though its comment says "stop when find the exact confidence value".
ConfidenceIsFound == search.active ~> (~search.active \/ FitsExactly(search.best))

------------------------------------------------------------------------------
(***************************************************************************)
(* Proofs.  That evaluations forget: Reusable says how far the used and    *)
(* the fresh engine agree at each point of an evaluation; each function of *)
(* a level or network has a lemma of what it makes of two that agree.      *)
(* That tiles fit: Fitting says which levels have been judged so far, and  *)
(* nothing that follows assigns what was judged.  That the check before an *)
(* evaluation agrees: Sizing, with the arithmetic it takes, at the end.    *)
(***************************************************************************)

BufferFields == DOMAIN NoBufferStats

\* Statistics of two levels that agree on the fields in F.
Alike(F, a, b) ==
  /\ a = [field \in BufferFields |-> a[field]]
  /\ b = [field \in BufferFields |-> b[field]]
  /\ \A field \in F : a[field] = b[field]

\* What ComputeScalarAccesses assigns.
ScalarFields ==
  {"keep", "tile_size", "utilized_instances", "utilized_expansion", "utilized_clusters",
   "utilized_capacity", "tile_confidence", "accesses", "fine_grained_scalar_accesses",
   "temporal_reductions", "address_generations", "addr_gen_bits"}

VectorFields == {"fine_grained_vector_accesses", "fine_grained_format_accesses_bits"}

EnergyFields ==
  {"cluster_access_energy", "cluster_access_energy_due_to_overflow", "temporal_reduction_energy",
   "addr_gen_energy"}

\* What Evaluate assigns from the mapping in hand.
EvaluatedFields == ScalarFields \cup VectorFields \cup EnergyFields \cup {"slowdown", "cycles"}

\* What is assigned when the energy is finalized.
FinalFields == {"energy", "leakage_energy", "leaks_per_cycle"}

LEMMA FieldsAre ==
  BufferFields = EvaluatedFields \cup FinalFields \cup {"metadata_tile_size"}
BY DEF BufferFields, NoBufferStats, EvaluatedFields, ScalarFields, VectorFields, EnergyFields, FinalFields

\* The ranks of the metadata are the only statistics that a level carries over.
LEMMA ScalarAlike ==
  ASSUME NEW a, NEW b, Alike({}, a, b), NEW specs, NEW tiles, NEW mask, NEW occ
  PROVE  Alike(ScalarFields, ComputeScalarAccesses(specs, a, tiles, mask, occ),
                             ComputeScalarAccesses(specs, b, tiles, mask, occ))
<1> DEFINE usage(s) ==
             [s EXCEPT
                !.keep = mask,
                !.tile_size = [pv \in DataSpaces |-> tiles[pv].size],
                !.utilized_instances = [pv \in DataSpaces |-> tiles[pv].avg_replication_factor],
                !.utilized_expansion = [pv \in DataSpaces |-> tiles[pv].max_x_expansion * tiles[pv].max_y_expansion]]
           sizes(s, ranks) ==
             [s EXCEPT
                !.utilized_clusters = [pv \in DataSpaces |-> UtilizedClusters(specs, tiles[pv])],
                !.utilized_capacity = [pv \in DataSpaces |-> occ[pv].data_tile_size],
                !.tile_confidence = [pv \in DataSpaces |-> occ[pv].confidence],
                !.metadata_tile_size = ranks]
           accesses(s) ==
             [s EXCEPT
                !.accesses = [pv \in DataSpaces |-> tiles[pv].reads + tiles[pv].updates + tiles[pv].fills],
                !.fine_grained_scalar_accesses = [pv \in DataSpaces |-> tiles[pv].data_accesses],
                !.temporal_reductions = [pv \in DataSpaces |-> tiles[pv].temporal_reductions],
                !.address_generations = [pv \in DataSpaces |-> AddressGenerations(tiles[pv], pv)],
                !.addr_gen_bits = AddrGenBits(specs, occ)]
           Ranks(s) ==
             [pv \in DataSpaces |->
                s.metadata_tile_size[pv]
                  \o [r \in DOMAIN occ[pv].metadata |-> occ[pv].metadata[r].units]]
<1>1. /\ ComputeScalarAccesses(specs, a, tiles, mask, occ) = accesses(sizes(usage(a), Ranks(a)))
      /\ ComputeScalarAccesses(specs, b, tiles, mask, occ) = accesses(sizes(usage(b), Ranks(b)))
  BY Zenon DEF ComputeScalarAccesses
<1> HIDE DEF Ranks
<1> USE FieldsAre DEF EvaluatedFields, ScalarFields, Alike
<1>2. Alike({"keep", "tile_size", "utilized_instances", "utilized_expansion"}, usage(a), usage(b))
  OBVIOUS
<1> HIDE DEF usage
<1>3. Alike({"keep", "tile_size", "utilized_instances", "utilized_expansion", "utilized_clusters",
             "utilized_capacity", "tile_confidence"}, sizes(usage(a), Ranks(a)), sizes(usage(b), Ranks(b)))
  BY <1>2
<1> HIDE DEF sizes
<1>4. Alike(ScalarFields, accesses(sizes(usage(a), Ranks(a))), accesses(sizes(usage(b), Ranks(b))))
  BY <1>3
<1> HIDE DEF accesses, Alike
<1> QED BY <1>1, <1>4

LEMMA VectorAlike ==
  ASSUME NEW a, NEW b, Alike(ScalarFields, a, b), NEW specs, NEW tiles, NEW ratios
  PROVE  Alike(ScalarFields \cup VectorFields, ComputeVectorAccesses(specs, a, tiles, ratios),
                                               ComputeVectorAccesses(specs, b, tiles, ratios))
BY FieldsAre DEF Alike, ComputeVectorAccesses, EvaluatedFields, ScalarFields, VectorFields

LEMMA GenerationsAlike ==
  ASSUME NEW x, NEW y, NEW specs,
         Alike(ScalarFields \cup VectorFields \cup (EnergyFields \ {"addr_gen_energy"}), x, y)
  PROVE  Alike(ScalarFields \cup VectorFields \cup EnergyFields,
               ComputeAddrGenEnergy(specs, x), ComputeAddrGenEnergy(specs, y))
<1> DEFINE Energy(s) == [pv \in DataSpaces |->
                           Times(s.address_generations[pv],
                                 Or(specs.addr_gen_energy, AdderEnergy(s.addr_gen_bits, s.addr_gen_bits)))]
           Generated(s) == [s EXCEPT !.addr_gen_energy = Energy(s)]
<1>1. x.address_generations = y.address_generations /\ x.addr_gen_bits = y.addr_gen_bits
  BY DEF Alike, ScalarFields
<1>2. Energy(x) = Energy(y)
  BY <1>1
<1>3. ComputeAddrGenEnergy(specs, x) = Generated(x) /\ ComputeAddrGenEnergy(specs, y) = Generated(y)
  BY DEF ComputeAddrGenEnergy
<1> HIDE DEF Energy
<1>4. /\ Generated(x) = [field \in BufferFields |-> Generated(x)[field]]
      /\ Generated(y) = [field \in BufferFields |-> Generated(y)[field]]
  BY DEF Alike
<1>5. "addr_gen_energy" \in BufferFields
  BY FieldsAre DEF EvaluatedFields, EnergyFields
<1>6. Generated(x).addr_gen_energy = Generated(y).addr_gen_energy
  BY <1>2, <1>5 DEF Alike
<1>7. ASSUME NEW field \in ScalarFields \cup VectorFields \cup EnergyFields, field # "addr_gen_energy"
      PROVE  Generated(x)[field] = Generated(y)[field]
  BY <1>7, FieldsAre DEF Alike, EvaluatedFields
<1> QED BY <1>3, <1>4, <1>6, <1>7 DEF Alike

LEMMA EnergyAlike ==
  ASSUME NEW a, NEW b, Alike(ScalarFields \cup VectorFields, a, b), NEW specs, NEW bits
  PROVE  Alike(ScalarFields \cup VectorFields \cup EnergyFields,
           ComputeAddrGenEnergy(specs, ComputeReductionEnergy(specs, ComputeBufferEnergy(specs, a), bits)),
           ComputeAddrGenEnergy(specs, ComputeReductionEnergy(specs, ComputeBufferEnergy(specs, b), bits)))
<1> USE FieldsAre DEF EvaluatedFields, ScalarFields, VectorFields, EnergyFields, Alike
<1> DEFINE Charges(s) == ComputeBufferEnergy(specs, s)
           Reductions(s) == ComputeReductionEnergy(specs, s, bits)
<1>1. Alike(ScalarFields \cup VectorFields \cup {"cluster_access_energy", "cluster_access_energy_due_to_overflow"},
            Charges(a), Charges(b))
  BY DEF ComputeBufferEnergy
<1> HIDE DEF Charges
<1>2. Alike(ScalarFields \cup VectorFields \cup (EnergyFields \ {"addr_gen_energy"}),
            Reductions(Charges(a)), Reductions(Charges(b)))
  BY <1>1 DEF ComputeReductionEnergy
<1> HIDE DEF Reductions
<1>3. Alike(ScalarFields \cup VectorFields \cup EnergyFields,
            ComputeAddrGenEnergy(specs, Reductions(Charges(a))),
            ComputeAddrGenEnergy(specs, Reductions(Charges(b))))
  BY <1>2, GenerationsAlike
<1> HIDE DEF Alike
<1> QED BY <1>3 DEF Charges, Reductions

LEMMA DemandAlike ==
  ASSUME NEW a, NEW b, Alike(ScalarFields \cup VectorFields, a, b), NEW specs, NEW kinds, NEW cycles
  PROVE  TotalDemand(specs, a, kinds, cycles) = TotalDemand(specs, b, kinds, cycles)
<1>1. ASSUME NEW pv PROVE Words(specs, a, pv, kinds) = Words(specs, b, pv, kinds)
  BY DEF Words, Alike, ScalarFields, VectorFields
<1>2. a.utilized_instances = b.utilized_instances /\ a.utilized_expansion = b.utilized_expansion
  BY DEF Alike, ScalarFields
<1>3. ASSUME NEW pv PROVE Demand(specs, a, pv, kinds, cycles) = Demand(specs, b, pv, kinds, cycles)
  BY <1>1, <1>2 DEF Demand, AverageWords
<1>4. [pv \in DataSpaces |-> Demand(specs, a, pv, kinds, cycles)] =
        [pv \in DataSpaces |-> Demand(specs, b, pv, kinds, cycles)]
  BY <1>3
<1> QED BY <1>4 DEF TotalDemand

\* A level evaluated anew has the statistics of the mapping in hand, but for
\* the ranks of the metadata and what is finalized later.
LEMMA LevelAlike ==
  ASSUME NEW a, NEW b, Alike({}, a, b), NEW specs, NEW tiles, NEW mask, NEW occ, NEW ratios, NEW overall,
         NEW bits, NEW cycles
  PROVE  Alike(EvaluatedFields, EvaluateBuffer(specs, a, tiles, mask, occ, ratios, overall, bits, cycles),
                                EvaluateBuffer(specs, b, tiles, mask, occ, ratios, overall, bits, cycles))
<1> DEFINE Scalar(s) == ComputeScalarAccesses(specs, s, tiles, mask, occ)
           Vector(s) == ComputeVectorAccesses(specs, s, tiles, ratios)
           Energy(s) ==
             ComputeAddrGenEnergy(specs, ComputeReductionEnergy(specs, ComputeBufferEnergy(specs, s), bits))
           All(s) == Energy(Vector(Scalar(s)))
<1>1. Alike(ScalarFields, Scalar(a), Scalar(b))
  BY ScalarAlike
<1>2. Alike(ScalarFields \cup VectorFields, Vector(Scalar(a)), Vector(Scalar(b)))
  <2> HIDE DEF Scalar
  <2> QED BY <1>1, VectorAlike
<1>3. Alike(ScalarFields \cup VectorFields \cup EnergyFields, All(a), All(b))
  <2> HIDE DEF Scalar, Vector
  <2> QED BY <1>2, EnergyAlike
<1> HIDE DEF All
<1>4. ASSUME NEW kinds PROVE TotalDemand(specs, All(a), kinds, cycles) = TotalDemand(specs, All(b), kinds, cycles)
  <2>1. Alike(ScalarFields \cup VectorFields, All(a), All(b))
    BY <1>3 DEF Alike
  <2> QED BY <2>1, DemandAlike
<1>5. Alike(EvaluatedFields, ComputePerformance(specs, All(a), cycles, overall),
                             ComputePerformance(specs, All(b), cycles, overall))
  <2> DEFINE slow(s) == QMul(BandwidthSlowdown(specs, TotalDemand(specs, s, {"read"}, cycles),
                                               TotalDemand(specs, s, Writes, cycles)), overall)
             cost(s) == QCeil(QDiv(Int2Q(cycles), slow(s)))
  <2>1. slow(All(a)) = slow(All(b))
    BY <1>4
  <2>2. /\ ComputePerformance(specs, All(a), cycles, overall)
             = [All(a) EXCEPT !.slowdown = slow(All(a)), !.cycles = cost(All(a))]
        /\ ComputePerformance(specs, All(b), cycles, overall)
             = [All(b) EXCEPT !.slowdown = slow(All(b)), !.cycles = cost(All(b))]
    BY Zenon DEF ComputePerformance
  <2> HIDE DEF slow
  <2>3. cost(All(a)) = cost(All(b))
    BY <2>1
  <2> HIDE DEF cost
  <2>4. ASSUME NEW x, NEW y, NEW after_a, NEW after_b,
               after_a = [All(a) EXCEPT !.slowdown = x, !.cycles = y],
               after_b = [All(b) EXCEPT !.slowdown = x, !.cycles = y]
        PROVE  Alike(EvaluatedFields, after_a, after_b)
    BY <1>3, <2>4, FieldsAre DEF EvaluatedFields, ScalarFields, VectorFields, EnergyFields, Alike
  <2>5. PICK x, y : x = slow(All(a)) /\ y = cost(All(a))
    OBVIOUS
  <2>6. /\ ComputePerformance(specs, All(a), cycles, overall) = [All(a) EXCEPT !.slowdown = x, !.cycles = y]
        /\ ComputePerformance(specs, All(b), cycles, overall) = [All(b) EXCEPT !.slowdown = x, !.cycles = y]
    BY Zenon, <2>1, <2>2, <2>3, <2>5
  <2> QED BY <2>4, <2>6
<1> QED BY <1>5 DEF EvaluateBuffer, All

\* An engine's levels agree on the fields in F.
LevelsAlike(F, a, b) ==
  /\ a = [l \in Storage |-> a[l]] /\ b = [l \in Storage |-> b[l]]
  /\ \A l \in Storage : Alike(F, a[l], b[l])

LEMMA ChargedAlike ==
  ASSUME NEW a, NEW b, LevelsAlike(EvaluatedFields, a, b)
  PROVE  LevelsAlike(EvaluatedFields, Charged(a), Charged(b))
<1>1. ASSUME NEW l, NEW pv PROVE Overflowing(a, l, pv) = Overflowing(b, l, pv)
  BY DEF Overflowing, LevelsAlike, Alike, EvaluatedFields, ScalarFields
<1>2. ASSUME NEW l, NEW c \in Storage, NEW pv
      PROVE  OverflowEnergy(Specs[l], a[c], pv) = OverflowEnergy(Specs[l], b[c], pv)
  BY DEF OverflowEnergy, LevelsAlike, Alike, EvaluatedFields, ScalarFields, VectorFields
<1> DEFINE Extra(l, s) ==
             [pv \in DataSpaces |-> QSum([c \in Storage |-> OverflowEnergy(Specs[l], s[c], pv)],
                                         Overflowing(s, l, pv))]
<1>3. ASSUME NEW l \in Storage PROVE Extra(l, a) = Extra(l, b)
  <2>1. ASSUME NEW pv
        PROVE  [c \in Storage |-> OverflowEnergy(Specs[l], a[c], pv)] =
                 [c \in Storage |-> OverflowEnergy(Specs[l], b[c], pv)]
    BY <1>2
  <2> QED BY <1>1, <2>1
<1>4. /\ Charged(a) = [l \in Storage |-> ComputeEnergyDueToChildLevelOverflow(Specs[l], a[l], Extra(l, a))]
      /\ Charged(b) = [l \in Storage |-> ComputeEnergyDueToChildLevelOverflow(Specs[l], b[l], Extra(l, b))]
  BY Zenon DEF Charged
<1> HIDE DEF Extra
<1>5. ASSUME NEW l \in Storage, NEW extra
      PROVE  Alike(EvaluatedFields, ComputeEnergyDueToChildLevelOverflow(Specs[l], a[l], extra),
                                    ComputeEnergyDueToChildLevelOverflow(Specs[l], b[l], extra))
  <2> DEFINE due(s) == [pv \in DataSpaces |-> QAdd(s.cluster_access_energy[pv], extra[pv])]
             over(s) == [pv \in DataSpaces |-> QAdd(s.cluster_access_energy_due_to_overflow[pv], extra[pv])]
  <2>1. Alike(EvaluatedFields, a[l], b[l]) /\ due(a[l]) = due(b[l]) /\ over(a[l]) = over(b[l])
    BY DEF LevelsAlike, Alike, EvaluatedFields, EnergyFields
  <2>2. /\ ComputeEnergyDueToChildLevelOverflow(Specs[l], a[l], extra)
             = [a[l] EXCEPT !.cluster_access_energy = due(a[l]), !.cluster_access_energy_due_to_overflow = over(a[l])]
        /\ ComputeEnergyDueToChildLevelOverflow(Specs[l], b[l], extra)
             = [b[l] EXCEPT !.cluster_access_energy = due(b[l]), !.cluster_access_energy_due_to_overflow = over(b[l])]
    BY Zenon DEF ComputeEnergyDueToChildLevelOverflow
  <2>3. ASSUME NEW x, NEW y, NEW after_a, NEW after_b,
               after_a = [a[l] EXCEPT !.cluster_access_energy = x, !.cluster_access_energy_due_to_overflow = y],
               after_b = [b[l] EXCEPT !.cluster_access_energy = x, !.cluster_access_energy_due_to_overflow = y]
        PROVE  Alike(EvaluatedFields, after_a, after_b)
    BY <2>1, <2>3, FieldsAre DEF Alike, EvaluatedFields, EnergyFields
  <2> HIDE DEF due, over
  <2> QED BY <2>1, <2>2, <2>3
<1> QED BY <1>3, <1>4, <1>5 DEF LevelsAlike

LEMMA GateIsLevel ==
  ASSUME specced = Topology, NEW l \in Storage
  PROVE  specced.power_gate[l] \in Storage
<1>1. ASSUME NEW k \in Storage
      PROVE  LET parsed == ParseSpecs(StorageAttributes[k], Elements(k))
             IN  /\ Specs[k].name = parsed.name
                 /\ Specs[k].power_gated_at_name = parsed.power_gated_at_name
  <2>1. PICK parsed : parsed = ParseSpecs(StorageAttributes[k], Elements(k))
    OBVIOUS
  <2>2. /\ "name" \in DOMAIN parsed /\ "power_gated_at_name" \in DOMAIN parsed
        /\ parsed = [field \in DOMAIN parsed |-> parsed[field]]
    BY <2>1 DEF ParseSpecs
  <2>3. ASSUME NEW ert
        PROVE  LET priced == UpdateOpEnergyViaERT(parsed, ert)
               IN  /\ DOMAIN priced = DOMAIN parsed /\ priced.name = parsed.name
                   /\ priced.power_gated_at_name = parsed.power_gated_at_name
    BY <2>2 DEF UpdateOpEnergyViaERT
  <2>4. /\ StorageWithTables(parsed).name = parsed.name
        /\ StorageWithTables(parsed).power_gated_at_name = parsed.power_gated_at_name
    BY <2>2, <2>3 DEF StorageWithTables
  <2>5. Specs[k] = StorageWithTables(parsed)
    <3>1. k # Arithmetic
      BY LevelsAssumption DEF LevelsAssumption, Storage, Arithmetic
    <3> QED BY <2>1, <3>1 DEF Specs, Topology, Specced, Connected
  <2> QED BY <2>1, <2>4, <2>5
<1>2. specced.power_gate[l] = PowerGate(Specs, l)
  BY DEF Topology, Specced, Connected, Specs
<1>3. Specs[l].power_gated_at_name = {} \/ \E k \in Storage : {Specs[k].name} = Specs[l].power_gated_at_name
  BY <1>1, ArchitectureAssumption DEF ArchitectureAssumption
<1> QED BY <1>2, <1>3 DEF PowerGate, The

LEMMA LeakingAlike ==
  ASSUME specced = Topology, NEW a, NEW b, LevelsAlike(EvaluatedFields, a, b)
  PROVE  LevelsAlike(EvaluatedFields \cup {"leaks_per_cycle"}, Leaking(a), Leaking(b))
<1>1. ASSUME NEW l \in Storage PROVE MostUtilized(a[l]) = MostUtilized(b[l])
  BY DEF MostUtilized, LevelsAlike, Alike, EvaluatedFields, ScalarFields
<1>2. ASSUME NEW l \in Storage
      PROVE  Alike(EvaluatedFields \cup {"leaks_per_cycle"}, Leaking(a)[l], Leaking(b)[l])
  <2> DEFINE gate == specced.power_gate[l]
             leaks(s) == IF Specs[l].instances > (IF Specs[gate].instances > 0 THEN Specs[gate].instances ELSE 1)
                           THEN QMul(Q(Specs[l].instances, IF Specs[gate].instances > 0 THEN Specs[gate].instances ELSE 1),
                                     MostUtilized(s[gate]))
                         ELSE MostUtilized(s[l])
  <2>1. gate \in Storage
    BY GateIsLevel
  <2>2. /\ Leaking(a)[l] = [a[l] EXCEPT !.leaks_per_cycle = leaks(a)]
        /\ Leaking(b)[l] = [b[l] EXCEPT !.leaks_per_cycle = leaks(b)]
    BY DEF Leaking, ComputeLeaksPerCycle
  <2>3. leaks(a) = leaks(b)
    BY <1>1, <2>1
  <2> HIDE DEF leaks
  <2> QED BY <2>2, <2>3, FieldsAre DEF LevelsAlike, Alike, EvaluatedFields, FinalFields
<1> QED BY <1>2 DEF LevelsAlike, Leaking

LEMMA FinalizedAlike ==
  ASSUME NEW a, NEW b, LevelsAlike(EvaluatedFields \cup {"leaks_per_cycle"}, a, b), NEW cycles
  PROVE  LevelsAlike(EvaluatedFields \cup FinalFields, Finalized(a, cycles), Finalized(b, cycles))
<1>1. ASSUME NEW l \in Storage
      PROVE  Alike(EvaluatedFields \cup FinalFields, FinalizeBufferEnergy(Specs[l], a[l], cycles),
                                                     FinalizeBufferEnergy(Specs[l], b[l], cycles))
  <2> DEFINE leakage(s) == QMul(Times(cycles, Specs[l].op_energy_map[Leak]), s.leaks_per_cycle)
             shared(s) ==
               [pv \in DataSpaces |->
                  IF s.utilized_instances[pv] = Zero THEN Zero
                  ELSE QDiv(s.cluster_access_energy[pv], Q(s.utilized_expansion[pv], s.utilized_clusters[pv]))]
  <2>1. /\ Alike(EvaluatedFields \cup {"leaks_per_cycle"}, a[l], b[l])
        /\ leakage(a[l]) = leakage(b[l]) /\ shared(a[l]) = shared(b[l])
    BY DEF LevelsAlike, Alike, EvaluatedFields, ScalarFields, EnergyFields
  <2>2. /\ FinalizeBufferEnergy(Specs[l], a[l], cycles)
             = [a[l] EXCEPT !.leakage_energy = leakage(a[l]), !.energy = shared(a[l])]
        /\ FinalizeBufferEnergy(Specs[l], b[l], cycles)
             = [b[l] EXCEPT !.leakage_energy = leakage(b[l]), !.energy = shared(b[l])]
    BY Zenon DEF FinalizeBufferEnergy
  <2>3. ASSUME NEW x, NEW y, NEW after_a, NEW after_b,
               after_a = [a[l] EXCEPT !.leakage_energy = x, !.energy = y],
               after_b = [b[l] EXCEPT !.leakage_energy = x, !.energy = y]
        PROVE  Alike(EvaluatedFields \cup FinalFields, after_a, after_b)
    BY <2>1, <2>3, FieldsAre DEF Alike, EvaluatedFields, FinalFields
  <2> HIDE DEF leakage, shared
  <2> QED BY <2>1, <2>2, <2>3
<1> QED BY <1>1 DEF LevelsAlike, Finalized

------------------------------------------------------------------------------
\* No network of the used engine starts anew.  What a network never assigns is as it
\* was specified; what it assigns from the mapping alone agrees; and where it adds to
\* what it holds, or keeps it, the energies agree as long as nothing was left behind.
NetworkFields == DOMAIN NoNetworkStats

NetworkAlike(F, a, b) ==
  /\ a = [field \in NetworkFields |-> a[field]]
  /\ b = [field \in NetworkFields |-> b[field]]
  /\ \A field \in F : a[field] = b[field]

TransferFields ==
  {"ingresses", "distributed_ingresses", "spatial_reductions", "multicast_factor", "utilized_instances",
   "link_transfers"}

LEMMA NetworkFieldsAre ==
  NetworkFields = TransferFields \cup {"energy", "link_transfer_energy", "spatial_reduction_energy"}
BY DEF NetworkFields, NoNetworkStats, TransferFields

\* What a network of a type never assigns.
Untouched(network, s) ==
  /\ network.type # "Legacy" => \A pv \in DataSpaces : s.link_transfer_energy[pv] = Zero
  /\ network.type = "ReductionTree" =>
       \A pv \in DataSpaces \ ReadWrite : s.energy[pv] = Zero /\ s.spatial_reduction_energy[pv] = Zero
  /\ network.type \notin {"Legacy", "ReductionTree"} =>
       \A pv \in DataSpaces : s.spatial_reduction_energy[pv] = Zero

\* What the accessors of a network's energy read.
SameEnergy(a, b) ==
  \A pv \in DataSpaces :
    /\ a.energy[pv] = b.energy[pv] /\ a.link_transfer_energy[pv] = b.link_transfer_energy[pv]
    /\ a.spatial_reduction_energy[pv] = b.spatial_reduction_energy[pv]
    /\ a.utilized_instances[pv] = b.utilized_instances[pv]

LEMMA SameEnergyCounts ==
  ASSUME NEW network, NEW a, NEW b, SameEnergy(a, b)
  PROVE  NetworkEnergy(network, a) = NetworkEnergy(network, b)
<1> DEFINE each(s) ==
             [pv \in DataSpaces |->
                LET instance == QAdd(QAdd(s.energy[pv], s.link_transfer_energy[pv]), s.spatial_reduction_energy[pv])
                IN  IF network.type = "ReductionTree" THEN instance
                    ELSE Times(s.utilized_instances[pv], instance)]
<1>1. each(a) = each(b)
  BY DEF SameEnergy
<1> QED BY <1>1 DEF NetworkEnergy

\* What a legacy network assigns.
RegularIngresses(network, s, tiles) ==
  [pv \in DataSpaces |-> LegacyIngresses(network, s.ingresses[pv], tiles[pv].access_stats, pv,
                                         tiles[pv].partition_size, network.sink_reduces)]

DistributedIngresses(network, s, tiles) ==
  [pv \in DataSpaces |-> LegacyIngresses(network, s.distributed_ingresses[pv], tiles[pv].distributed_access_stats, pv,
                                         tiles[pv].partition_size, network.sink_reduces)]

Added(network, s, tiles) ==
  [pv \in DataSpaces |-> SpatialReductions(network, s, RegularIngresses(network, s, tiles)[pv],
                                           DistributedIngresses(network, s, tiles)[pv], pv)]

Replicated(tiles) == [pv \in DataSpaces |-> tiles[pv].replication_factor]

Linked(tiles) == [pv \in DataSpaces |-> tiles[pv].link_transfers]

LEMMA LegacyAccesses ==
  ASSUME NEW network, NEW tiles, NEW s, NetworkAlike({}, s, s)
  PROVE  LET after == LegacyComputeAccesses(network, s, tiles, network.sink_reduces)
         IN  /\ NetworkAlike({}, after, after)
             /\ after.ingresses = RegularIngresses(network, s, tiles)
             /\ after.distributed_ingresses = DistributedIngresses(network, s, tiles)
             /\ after.utilized_instances = Replicated(tiles) /\ after.link_transfers = Linked(tiles)
             /\ after.spatial_reductions = Added(network, s, tiles)
<1> DEFINE regular == RegularIngresses(network, s, tiles)
           multicast == [pv \in DataSpaces |-> HighestFactor(regular[pv])]
<1>1. LegacyComputeAccesses(network, s, tiles, network.sink_reduces) =
        [s EXCEPT !.utilized_instances = Replicated(tiles), !.ingresses = regular,
                  !.distributed_ingresses = DistributedIngresses(network, s, tiles), !.link_transfers = Linked(tiles),
                  !.multicast_factor = multicast, !.spatial_reductions = Added(network, s, tiles)]
  BY Zenon DEF LegacyComputeAccesses, RegularIngresses, DistributedIngresses, Added, Replicated, Linked
<1>2. PICK i, r, d, l, m, a :
        /\ i = Replicated(tiles) /\ r = regular /\ d = DistributedIngresses(network, s, tiles)
        /\ l = Linked(tiles) /\ m = multicast /\ a = Added(network, s, tiles)
  OBVIOUS
<1>3. LegacyComputeAccesses(network, s, tiles, network.sink_reduces) =
        [s EXCEPT !.utilized_instances = i, !.ingresses = r, !.distributed_ingresses = d,
                  !.link_transfers = l, !.multicast_factor = m, !.spatial_reductions = a]
  <2> HIDE DEF regular, multicast
  <2> QED BY <1>1, <1>2, Zenon
<1>4. PICK after : after = LegacyComputeAccesses(network, s, tiles, network.sink_reduces)
  OBVIOUS
<1>5. /\ NetworkAlike({}, after, after) /\ after.ingresses = r /\ after.distributed_ingresses = d
      /\ after.utilized_instances = i /\ after.link_transfers = l /\ after.spatial_reductions = a
  BY <1>3, <1>4, NetworkFieldsAre DEF NetworkAlike, TransferFields
<1> QED BY <1>2, <1>4, <1>5

LEMMA LegacyEnergy ==
  ASSUME NEW network, NEW s, NetworkAlike({}, s, s)
  PROVE  LET after == LegacyComputeEnergy(network, s)
         IN  /\ NetworkAlike({}, after, after)
             /\ after.ingresses = s.ingresses /\ after.distributed_ingresses = s.distributed_ingresses
             /\ after.utilized_instances = s.utilized_instances
             /\ \A pv \in DataSpaces :
                  /\ after.energy[pv] = QAdd(TransferEnergy(network, s.ingresses[pv]),
                                             TransferEnergy(network, s.distributed_ingresses[pv]))
                  /\ after.link_transfer_energy[pv] =
                       Times(s.link_transfers[pv], QAdd(Or(network.energy_per_hop, EnergyPerHop(network)),
                                                        Times(2, network.router_energy)))
                  /\ after.spatial_reduction_energy[pv] =
                       Times(s.spatial_reductions[pv], AdderEnergy(network.word_bits, network.word_bits))
BY NetworkFieldsAre DEF NetworkAlike, TransferFields, LegacyComputeEnergy

\* Of the same entries, or when all are assigned, the same ingresses are made.
LEMMA IngressesForget ==
  ASSUME NEW network, NEW transfers, NEW pv, NEW size, NEW old, NEW reduces,
         LET after == LegacyIngresses(network, old, transfers, pv, size, reduces)
             anew == LegacyIngresses(network, NoTransfers, transfers, pv, size, reduces)
         IN  pv \in ReadWrite /\ ~reduces /\ network.cType # {"ReadFill"} => DOMAIN after = DOMAIN anew
  PROVE  LegacyIngresses(network, old, transfers, pv, size, reduces)
           = LegacyIngresses(network, NoTransfers, transfers, pv, size, reduces)
<1>1. CASE ~(pv \in ReadWrite /\ ~reduces /\ network.cType # {"ReadFill"})
  BY <1>1 DEF LegacyIngresses
<1>2. CASE pv \in ReadWrite /\ ~reduces /\ network.cType # {"ReadFill"}
  <2>1. DOMAIN NoTransfers = {}
    BY DEF NoTransfers
  <2>2. DOMAIN ReadModifyWrite(old, transfers, size) = DOMAIN ReadModifyWrite(NoTransfers, transfers, size)
    BY <1>2 DEF LegacyIngresses
  <2>3. DOMAIN old \subseteq DOMAIN transfers
    BY <2>1, <2>2 DEF ReadModifyWrite
  <2>4. ReadModifyWrite(old, transfers, size) = ReadModifyWrite(NoTransfers, transfers, size)
    BY <2>1, <2>3 DEF ReadModifyWrite
  <2> QED BY <1>2, <2>4 DEF LegacyIngresses
<1> QED BY <1>1, <1>2

LEMMA LegacyForgets ==
  ASSUME NEW network, network.type = "Legacy", NEW s, NetworkAlike({}, s, s), NEW tiles,
         ~LeftBehind(network, EvaluateNetwork(network, s, tiles), EvaluateNetwork(network, NoNetworkStats, tiles))
  PROVE  SameEnergy(EvaluateNetwork(network, s, tiles), EvaluateNetwork(network, NoNetworkStats, tiles))
<1> DEFINE after(o) == EvaluateNetwork(network, o, tiles)
           regular(o) == RegularIngresses(network, o, tiles)
           scattered(o) == DistributedIngresses(network, o, tiles)
<1>1. NetworkAlike({}, NoNetworkStats, NoNetworkStats)
  BY DEF NetworkAlike, NetworkFields, NoNetworkStats
<1>2. ASSUME NEW o, NetworkAlike({}, o, o)
      PROVE  /\ after(o).ingresses = regular(o) /\ after(o).distributed_ingresses = scattered(o)
             /\ after(o).utilized_instances = Replicated(tiles)
             /\ \A pv \in DataSpaces :
                  /\ after(o).energy[pv] = QAdd(TransferEnergy(network, regular(o)[pv]),
                                                TransferEnergy(network, scattered(o)[pv]))
                  /\ after(o).link_transfer_energy[pv] =
                       Times(Linked(tiles)[pv], QAdd(Or(network.energy_per_hop, EnergyPerHop(network)),
                                                     Times(2, network.router_energy)))
                  /\ after(o).spatial_reduction_energy[pv] =
                       Times(Added(network, o, tiles)[pv], AdderEnergy(network.word_bits, network.word_bits))
  <2>1. PICK accessed : accessed = LegacyComputeAccesses(network, o, tiles, network.sink_reduces)
    OBVIOUS
  <2>2. /\ NetworkAlike({}, accessed, accessed)
        /\ accessed.ingresses = regular(o) /\ accessed.distributed_ingresses = scattered(o)
        /\ accessed.utilized_instances = Replicated(tiles) /\ accessed.link_transfers = Linked(tiles)
        /\ accessed.spatial_reductions = Added(network, o, tiles)
    BY <1>2, <2>1, LegacyAccesses
  <2>3. after(o) = LegacyComputeEnergy(network, accessed)
    BY <2>1 DEF EvaluateNetwork, LegacyEvaluate
  <2> HIDE DEF after
  <2> QED BY <2>2, <2>3, LegacyEnergy
<1> HIDE DEF after
<1>3. ASSUME NEW pv \in DataSpaces
      PROVE  /\ regular(s)[pv] = regular(NoNetworkStats)[pv] /\ scattered(s)[pv] = scattered(NoNetworkStats)[pv]
             /\ Added(network, s, tiles)[pv] = Added(network, NoNetworkStats, tiles)[pv]
  <2>1. pv \in ReadWrite /\ ~network.sink_reduces /\ network.cType # {"ReadFill"} =>
          /\ DOMAIN regular(s)[pv] = DOMAIN regular(NoNetworkStats)[pv]
          /\ DOMAIN scattered(s)[pv] = DOMAIN scattered(NoNetworkStats)[pv]
    BY <1>1, <1>2 DEF LeftBehind, after
  <2>2. /\ NoNetworkStats.ingresses[pv] = NoTransfers
        /\ NoNetworkStats.distributed_ingresses[pv] = NoTransfers
    BY DEF NoNetworkStats
  <2>3. regular(s)[pv] = regular(NoNetworkStats)[pv]
    BY <2>1, <2>2, IngressesForget DEF RegularIngresses
  <2>4. scattered(s)[pv] = scattered(NoNetworkStats)[pv]
    BY <2>1, <2>2, IngressesForget DEF DistributedIngresses
  <2> QED BY <2>3, <2>4 DEF Added, SpatialReductions
<1>4. SameEnergy(after(s), after(NoNetworkStats))
  BY <1>1, <1>2, <1>3 DEF SameEnergy
<1> QED BY <1>4 DEF after

LEMMA TreeForgets ==
  ASSUME NEW network, network.type = "ReductionTree", NEW s, NetworkAlike({}, s, s), Untouched(network, s), NEW tiles
  PROVE  LET after == EvaluateNetwork(network, s, tiles)
             anew == EvaluateNetwork(network, NoNetworkStats, tiles)
         IN  /\ NetworkAlike({}, after, after) /\ Untouched(network, after)
             /\ ~LeftBehind(network, after, anew) => SameEnergy(after, anew)
<1> DEFINE adder == IF network.adder_energy # Zero THEN network.adder_energy
                    ELSE AdderEnergy(network.word_bits, network.word_bits)
           ingresses == [pv \in DataSpaces |-> IF pv \in ReadWrite THEN tiles[pv].access_stats ELSE NoTransfers]
           added(o) == [pv \in DataSpaces |->
                          IF pv \in ReadWrite THEN o.spatial_reductions[pv] + ReductionsIn(tiles[pv].access_stats)
                          ELSE o.spatial_reductions[pv]]
           hops(x, o) == [pv \in DataSpaces |->
                            IF pv \in ReadWrite THEN QMul(TreeHops(x.ingresses[pv]), EnergyPerHop(network))
                            ELSE o.energy[pv]]
           adding(x, o) == [pv \in DataSpaces |->
                              IF pv \in ReadWrite THEN Times(x.spatial_reductions[pv], adder)
                              ELSE o.spatial_reduction_energy[pv]]
           after(o) == EvaluateNetwork(network, o, tiles)
<1>1. NetworkAlike({}, NoNetworkStats, NoNetworkStats) /\ Untouched(network, NoNetworkStats)
  BY DEF NetworkAlike, NetworkFields, NoNetworkStats, Untouched
<1>2. ASSUME NEW o, NetworkAlike({}, o, o), Untouched(network, o)
      PROVE  /\ NetworkAlike({}, after(o), after(o)) /\ after(o).utilized_instances = Replicated(tiles)
             /\ after(o).spatial_reductions = added(o)
             /\ \A pv \in DataSpaces :
                  /\ after(o).link_transfer_energy[pv] = Zero
                  /\ after(o).energy[pv] =
                       IF pv \in ReadWrite THEN QMul(TreeHops(ingresses[pv]), EnergyPerHop(network)) ELSE Zero
                  /\ after(o).spatial_reduction_energy[pv] =
                       IF pv \in ReadWrite THEN Times(added(o)[pv], adder) ELSE Zero
  <2>1. PICK x : x = ReductionTreeAccesses(o, tiles)
    OBVIOUS
  <2>2. x = [o EXCEPT !.utilized_instances = Replicated(tiles), !.ingresses = ingresses,
                      !.spatial_reductions = added(o)]
    BY <2>1, Zenon DEF ReductionTreeAccesses, Replicated
  <2>3. PICK y : y = after(o)
    OBVIOUS
  <2>4. y = [x EXCEPT !.energy = hops(x, o), !.spatial_reduction_energy = adding(x, o)]
    <3>1. y = ReductionTreeEvaluate(network, o, tiles)
      BY <2>3 DEF EvaluateNetwork
    <3> QED BY <2>1, <3>1, Zenon DEF ReductionTreeEvaluate
  <2>5. PICK i, r, a, e, t : /\ i = Replicated(tiles) /\ r = ingresses /\ a = added(o)
                             /\ e = hops(x, o) /\ t = adding(x, o)
    OBVIOUS
  <2>6. /\ x = [o EXCEPT !.utilized_instances = i, !.ingresses = r, !.spatial_reductions = a]
        /\ y = [x EXCEPT !.energy = e, !.spatial_reduction_energy = t]
    <3> HIDE DEF ingresses, added, hops, adding
    <3> QED BY <2>2, <2>4, <2>5, Zenon
  <2>7. /\ x = [field \in NetworkFields |-> x[field]] /\ x.ingresses = r /\ x.spatial_reductions = a
        /\ x.utilized_instances = i /\ x.link_transfer_energy = o.link_transfer_energy
    BY <1>2, <2>6, NetworkFieldsAre DEF NetworkAlike, TransferFields
  <2>8. /\ y = [field \in NetworkFields |-> y[field]] /\ y.energy = e /\ y.spatial_reduction_energy = t
        /\ y.utilized_instances = i /\ y.spatial_reductions = a /\ y.link_transfer_energy = o.link_transfer_energy
    BY <2>6, <2>7, NetworkFieldsAre DEF TransferFields
  <2>9. ASSUME NEW pv \in DataSpaces
        PROVE  /\ e[pv] = IF pv \in ReadWrite THEN QMul(TreeHops(ingresses[pv]), EnergyPerHop(network)) ELSE Zero
               /\ t[pv] = IF pv \in ReadWrite THEN Times(added(o)[pv], adder) ELSE Zero
    <3> HIDE DEF ingresses, added, adder
    <3> QED BY <1>2, <2>5, <2>7 DEF Untouched
  <2> HIDE DEF ingresses, added, adder, after
  <2> QED BY <1>2, <2>3, <2>5, <2>8, <2>9 DEF Untouched, NetworkAlike
<1> HIDE DEF after, adder, ingresses, added
<1>3. Untouched(network, after(s))
  BY <1>2 DEF Untouched
<1>4. ~LeftBehind(network, after(s), after(NoNetworkStats)) => SameEnergy(after(s), after(NoNetworkStats))
  <2>1. ~LeftBehind(network, after(s), after(NoNetworkStats)) =>
          \A pv \in ReadWrite : after(s).spatial_reductions[pv] = after(NoNetworkStats).spatial_reductions[pv]
    BY DEF LeftBehind
  <2> QED BY <1>1, <1>2, <2>1 DEF SameEnergy
<1> QED BY <1>2, <1>3, <1>4 DEF after

LEMMA MulticastForgets ==
  ASSUME NEW network, network.type \notin {"Legacy", "ReductionTree"},
         NEW s, NetworkAlike({}, s, s), Untouched(network, s), NEW tiles
  PROVE  LET after == EvaluateNetwork(network, s, tiles)
             anew == EvaluateNetwork(network, NoNetworkStats, tiles)
         IN  /\ NetworkAlike({}, after, after) /\ Untouched(network, after)
             /\ ~LeftBehind(network, after, anew) => SameEnergy(after, anew)
<1> DEFINE instances == [pv \in DataSpaces |-> tiles[pv].replication_factor]
           ingresses == [pv \in DataSpaces |-> tiles[pv].access_stats]
           factors == [pv \in DataSpaces |-> IF Transferred(tiles[pv].access_stats) = {} THEN 0
                                             ELSE LastOf(Transferred(tiles[pv].access_stats))[1]]
           sent(pv) == Times(tiles[pv].access_stats[LastOf(Transferred(tiles[pv].access_stats))].accesses,
                             GetMulticastEnergy(network, pv, LastOf(Transferred(tiles[pv].access_stats))[1]))
           spent(o) == [pv \in DataSpaces |->
                          IF Transferred(tiles[pv].access_stats) = {} THEN o.energy[pv] ELSE sent(pv)]
           after(o) == EvaluateNetwork(network, o, tiles)
<1>1. NetworkAlike({}, NoNetworkStats, NoNetworkStats) /\ Untouched(network, NoNetworkStats)
  BY DEF NetworkAlike, NetworkFields, NoNetworkStats, Untouched
<1>2. \A o : after(o) = [o EXCEPT !.utilized_instances = instances, !.ingresses = ingresses,
                                  !.multicast_factor = factors, !.energy = spent(o)]
  <2>1. \A o : after(o) = SimpleMulticastEvaluate(network, o, tiles)
    BY DEF EvaluateNetwork
  <2> HIDE DEF after
  <2> QED BY <2>1, Zenon DEF SimpleMulticastEvaluate
<1> HIDE DEF after, instances, factors, spent, ingresses
<1>3. ASSUME NEW o, NetworkAlike({}, o, o), Untouched(network, o)
      PROVE  /\ NetworkAlike({}, after(o), after(o)) /\ after(o).utilized_instances = instances
             /\ after(o).ingresses = ingresses /\ after(o).energy = spent(o)
             /\ \A pv \in DataSpaces : /\ after(o).link_transfer_energy[pv] = Zero
                                       /\ after(o).spatial_reduction_energy[pv] = Zero
  <2>1. /\ NetworkAlike({}, after(o), after(o)) /\ after(o).utilized_instances = instances
        /\ after(o).ingresses = ingresses /\ after(o).energy = spent(o)
        /\ after(o).link_transfer_energy = o.link_transfer_energy
        /\ after(o).spatial_reduction_energy = o.spatial_reduction_energy
    <3>1. PICK i, r, m, e : i = instances /\ r = ingresses /\ m = factors /\ e = spent(o)
      OBVIOUS
    <3>2. after(o) = [o EXCEPT !.utilized_instances = i, !.ingresses = r, !.multicast_factor = m, !.energy = e]
      BY <1>2, <3>1, Zenon
    <3>3. /\ NetworkAlike({}, after(o), after(o)) /\ after(o).utilized_instances = i /\ after(o).ingresses = r
          /\ after(o).energy = e /\ after(o).link_transfer_energy = o.link_transfer_energy
          /\ after(o).spatial_reduction_energy = o.spatial_reduction_energy
      <4>1. PICK y : y = after(o)
        OBVIOUS
      <4> QED BY <1>3, <3>2, <4>1, NetworkFieldsAre DEF NetworkAlike, TransferFields
    <3> QED BY <3>1, <3>3
  <2> QED BY <1>3, <2>1 DEF Untouched
<1>4. Untouched(network, after(s))
  BY <1>3 DEF Untouched
<1>5. ASSUME ~LeftBehind(network, after(s), after(NoNetworkStats)), NEW pv \in DataSpaces
      PROVE  after(s).energy[pv] = after(NoNetworkStats).energy[pv]
  <2>1. after(NoNetworkStats).ingresses[pv] = tiles[pv].access_stats
    BY <1>1, <1>3 DEF ingresses
  <2>2. CASE Transferred(tiles[pv].access_stats) = {}
    <3>1. after(s).energy[pv] = Zero
      BY <1>5, <2>1, <2>2 DEF LeftBehind
    <3>2. after(NoNetworkStats).energy[pv] = NoNetworkStats.energy[pv]
      BY <1>1, <1>3, <2>2 DEF spent
    <3> QED BY <3>1, <3>2 DEF NoNetworkStats
  <2>3. CASE Transferred(tiles[pv].access_stats) # {}
    <3>1. after(s).energy = spent(s) /\ after(NoNetworkStats).energy = spent(NoNetworkStats)
      BY <1>1, <1>3
    <3>2. ASSUME NEW o PROVE spent(o)[pv] = sent(pv)
      <4> HIDE DEF sent
      <4> QED BY <2>3 DEF spent
    <3> HIDE DEF sent
    <3> QED BY <3>1, <3>2
  <2> QED BY <2>2, <2>3
<1>6. ~LeftBehind(network, after(s), after(NoNetworkStats)) => SameEnergy(after(s), after(NoNetworkStats))
  BY <1>1, <1>3, <1>5 DEF SameEnergy
<1> QED BY <1>3, <1>4, <1>6 DEF after

\* A network of any type, evaluated on what it holds and anew.
LEMMA NetworkForgets ==
  ASSUME NEW network, NEW s, NetworkAlike({}, s, s), Untouched(network, s), NEW tiles
  PROVE  LET after == EvaluateNetwork(network, s, tiles)
             anew == EvaluateNetwork(network, NoNetworkStats, tiles)
         IN  /\ NetworkAlike({}, after, after) /\ Untouched(network, after)
             /\ LeftBehind(network, after, anew) \/ NetworkEnergy(network, after) = NetworkEnergy(network, anew)
<1> DEFINE after == EvaluateNetwork(network, s, tiles)
           anew == EvaluateNetwork(network, NoNetworkStats, tiles)
<1>1. NetworkAlike({}, after, after) /\ Untouched(network, after) /\ (LeftBehind(network, after, anew) \/ SameEnergy(after, anew))
  <2>1. CASE network.type = "Legacy"
    <3> DEFINE accessed == LegacyComputeAccesses(network, s, tiles, network.sink_reduces)
    <3>1. NetworkAlike({}, accessed, accessed)
      BY LegacyAccesses
    <3>2. after = LegacyComputeEnergy(network, accessed)
      BY <2>1 DEF EvaluateNetwork, LegacyEvaluate
    <3> HIDE DEF accessed, after
    <3>3. NetworkAlike({}, after, after)
      BY <3>1, <3>2, LegacyEnergy
    <3>4. Untouched(network, after)
      BY <2>1 DEF Untouched
    <3>5. LeftBehind(network, after, anew) \/ SameEnergy(after, anew)
      BY <2>1, LegacyForgets DEF after
    <3> QED BY <3>3, <3>4, <3>5
  <2>2. CASE network.type = "ReductionTree"
    BY <2>2, TreeForgets
  <2>3. CASE network.type \notin {"Legacy", "ReductionTree"}
    BY <2>3, MulticastForgets
  <2> QED BY <2>1, <2>2, <2>3
<1> HIDE DEF after, anew
<1>2. LeftBehind(network, after, anew) \/ NetworkEnergy(network, after) = NetworkEnergy(network, anew)
  BY <1>1, SameEnergyCounts
<1> QED BY <1>1, <1>2 DEF after, anew

------------------------------------------------------------------------------
LEMMA CyclesAlike ==
  ASSUME NEW a, NEW b, a.arithmetic = b.arithmetic, LevelsAlike(EvaluatedFields, a.buffers, b.buffers)
  PROVE  CyclesOf(a) = CyclesOf(b)
<1>1. \A l \in Storage : a.buffers[l].cycles = b.buffers[l].cycles
  BY DEF LevelsAlike, Alike, EvaluatedFields
<1>2. {a.buffers[l].cycles : l \in Storage} = {b.buffers[l].cycles : l \in Storage}
  BY <1>1
<1> QED BY <1>2 DEF CyclesOf

\* What is reported of two engines that agree on their levels, and of their networks.
LEMMA StatsForget ==
  ASSUME NEW a, NEW b, a.arithmetic = b.arithmetic, a.topology = NoTopologyStats, b.topology = NoTopologyStats,
         LevelsAlike(EvaluatedFields \cup FinalFields, a.buffers, b.buffers)
  PROVE  /\ \A stat \in DOMAIN NoTopologyStats \ {"energy"} : ComputeStats(a)[stat] = ComputeStats(b)[stat]
         /\ NetworkEnergies(a) = NetworkEnergies(b) => ComputeStats(a) = ComputeStats(b)
<1>1. CyclesOf(a) = CyclesOf(b)
  BY CyclesAlike DEF LevelsAlike, Alike
<1>2. ASSUME NEW l \in Storage
      PROVE  /\ BufferEnergy(a.buffers[l]) = BufferEnergy(b.buffers[l])
             /\ \A pv : AccessesOf(a.buffers[l], pv) = AccessesOf(b.buffers[l], pv)
             /\ LevelAccesses(a.buffers[l]) = LevelAccesses(b.buffers[l])
             /\ a.buffers[l].tile_size = b.buffers[l].tile_size
             /\ a.buffers[l].utilized_capacity = b.buffers[l].utilized_capacity
             /\ a.buffers[l].utilized_instances = b.buffers[l].utilized_instances
  <2>1. \A field \in EvaluatedFields \cup FinalFields : a.buffers[l][field] = b.buffers[l][field]
    BY DEF LevelsAlike, Alike
  <2>2. \A pv : AccessesOf(a.buffers[l], pv) = AccessesOf(b.buffers[l], pv)
    BY <2>1 DEF AccessesOf, EvaluatedFields, ScalarFields
  <2>3. LevelAccesses(a.buffers[l]) = LevelAccesses(b.buffers[l])
    <3>1. [pv \in DataSpaces |-> AccessesOf(a.buffers[l], pv)] = [pv \in DataSpaces |-> AccessesOf(b.buffers[l], pv)]
      BY <2>2
    <3> QED BY <3>1 DEF LevelAccesses
  <2>4. BufferEnergy(a.buffers[l]) = BufferEnergy(b.buffers[l])
    <3> DEFINE each(s) ==
                 [pv \in DataSpaces |-> QAdd(QAdd(StorageEnergy(s, pv), TemporalReductionEnergy(s, pv)),
                                             AddrGenEnergy(s, pv))]
    <3>1. each(a.buffers[l]) = each(b.buffers[l])
      <4>1. \A pv : /\ StorageEnergy(a.buffers[l], pv) = StorageEnergy(b.buffers[l], pv)
                    /\ TemporalReductionEnergy(a.buffers[l], pv) = TemporalReductionEnergy(b.buffers[l], pv)
                    /\ AddrGenEnergy(a.buffers[l], pv) = AddrGenEnergy(b.buffers[l], pv)
        BY <2>1 DEF StorageEnergy, TemporalReductionEnergy, AddrGenEnergy, EvaluatedFields, ScalarFields,
                    EnergyFields, FinalFields
      <4> QED BY <4>1
    <3>2. a.buffers[l].leakage_energy = b.buffers[l].leakage_energy
      BY <2>1 DEF FinalFields
    <3> QED BY <3>1, <3>2 DEF BufferEnergy
  <2> QED BY <2>1, <2>2, <2>3, <2>4 DEF EvaluatedFields, ScalarFields
<1>3. NetworkEnergies(a) = NetworkEnergies(b) => EnergyOf(a) = EnergyOf(b)
  <2>1. [l \in Storage |-> BufferEnergy(a.buffers[l])] = [l \in Storage |-> BufferEnergy(b.buffers[l])]
    BY <1>2
  <2>2. NetworkEnergies(a) = NetworkEnergies(b) => a.evaluated = b.evaluated
    <3>1. a.evaluated = DOMAIN NetworkEnergies(a) /\ b.evaluated = DOMAIN NetworkEnergies(b)
      BY DEF NetworkEnergies
    <3> QED BY <3>1
  <2> QED BY <2>1, <2>2 DEF EnergyOf
<1> DEFINE cycles(s) == CyclesOf(s) + specced.total_network_latency
           busy(s) == QDiv(IdealCycles(Specs[Arithmetic], s.arithmetic), Int2Q(cycles(s)))
           last(s) == LevelAccesses(s.buffers[Len(StorageAttributes)])
           tensors(s) == [l \in Storage |-> [pv \in DataSpaces |-> AccessesOf(s.buffers[l], pv)]]
           levels(s) == [l \in Storage |-> LevelAccesses(s.buffers[l])]
           sizes(s) == [l \in Storage |-> s.buffers[l].tile_size]
           capacities(s) == [l \in Storage |-> s.buffers[l].utilized_capacity]
           instances(s) ==
             [l \in Storage |-> [pv \in DataSpaces |-> QTrunc(s.buffers[l].utilized_instances[pv])]]
<1>4. cycles(a) = cycles(b) /\ busy(a) = busy(b)
  BY <1>1
<1>5. /\ last(a) = last(b) /\ tensors(a) = tensors(b) /\ levels(a) = levels(b)
      /\ sizes(a) = sizes(b) /\ capacities(a) = capacities(b) /\ instances(a) = instances(b)
  <2>1. last(a) = last(b)
    <3>1. Len(StorageAttributes) \in Storage
      BY LevelsAssumption DEF LevelsAssumption, Storage
    <3> QED BY <1>2, <3>1
  <2>2. tensors(a) = tensors(b)
    BY <1>2
  <2>3. levels(a) = levels(b) /\ sizes(a) = sizes(b) /\ capacities(a) = capacities(b)
    BY <1>2
  <2>4. instances(a) = instances(b)
    BY <1>2
  <2> QED BY <2>1, <2>2, <2>3, <2>4
<1>6. ASSUME NEW s
      PROVE  ComputeStats(s) =
               [s.topology EXCEPT
                  !.energy = EnergyOf(s), !.cycles = cycles(s), !.utilization = busy(s),
                  !.algorithmic_computes = s.arithmetic.algorithmic_computes,
                  !.actual_computes = s.arithmetic.random_computes,
                  !.last_level_accesses = last(s), !.per_tensor_accesses = tensors(s),
                  !.accesses = levels(s), !.tile_sizes = sizes(s),
                  !.utilized_capacities = capacities(s), !.utilized_instances = instances(s)]
  BY Zenon DEF ComputeStats
<1> HIDE DEF cycles, busy, last, tensors, levels, sizes, capacities, instances
<1> DEFINE filled(energy, s) ==
             [NoTopologyStats EXCEPT
                !.energy = energy, !.cycles = cycles(s), !.utilization = busy(s),
                !.algorithmic_computes = s.arithmetic.algorithmic_computes,
                !.actual_computes = s.arithmetic.random_computes,
                !.last_level_accesses = last(s), !.per_tensor_accesses = tensors(s),
                !.accesses = levels(s), !.tile_sizes = sizes(s),
                !.utilized_capacities = capacities(s), !.utilized_instances = instances(s)]
<1>7. /\ ComputeStats(a) = filled(EnergyOf(a), a) /\ ComputeStats(b) = filled(EnergyOf(b), b)
      /\ \A energy : filled(energy, a) = filled(energy, b)
  BY <1>4, <1>5, <1>6
<1>8. ASSUME NEW x, NEW y, NEW stat \in DOMAIN NoTopologyStats \ {"energy"}
      PROVE  filled(x, a)[stat] = filled(y, a)[stat]
  <2>1. ASSUME NEW c, NEW u, NEW g, NEW n, NEW k, NEW t, NEW v, NEW z, NEW p, NEW i, NEW f, NEW h,
               f = [NoTopologyStats EXCEPT !.energy = x, !.cycles = c, !.utilization = u, !.algorithmic_computes = g,
                      !.actual_computes = n, !.last_level_accesses = k, !.per_tensor_accesses = t, !.accesses = v,
                      !.tile_sizes = z, !.utilized_capacities = p, !.utilized_instances = i],
               h = [NoTopologyStats EXCEPT !.energy = y, !.cycles = c, !.utilization = u, !.algorithmic_computes = g,
                      !.actual_computes = n, !.last_level_accesses = k, !.per_tensor_accesses = t, !.accesses = v,
                      !.tile_sizes = z, !.utilized_capacities = p, !.utilized_instances = i]
        PROVE  f[stat] = h[stat]
    BY <2>1 DEF NoTopologyStats
  <2> QED BY <2>1
<1> HIDE DEF filled
<1> QED BY <1>3, <1>7, <1>8

------------------------------------------------------------------------------
\* An engine with every level of the topology, and with every network.
LevelsOf(e) ==
  /\ e = [part \in {"buffers", "networks", "arithmetic", "evaluated", "topology"} |-> e[part]]
  /\ e.buffers = [l \in Storage |-> e.buffers[l]]
  /\ \A l \in Storage : Alike({}, e.buffers[l], e.buffers[l])

EngineOf(e) ==
  /\ LevelsOf(e)
  /\ e.networks = [n \in Networks |-> e.networks[n]]
  /\ \A n \in Networks : /\ NetworkAlike({}, e.networks[n], e.networks[n])
                         /\ Untouched(specced.networks[n], e.networks[n])

EnginesOf ==
  /\ specced = Topology
  /\ engine = [e \in Engines |-> engine[e]]
  /\ \A e \in Engines : EngineOf(engine[e])

\* How far two engines agree, at each point of an evaluation: on what has been
\* assigned from the mapping in hand.
EnginesAgree ==
  LET used == engine["used"]  fresh == engine["fresh"]
  IN  /\ pc # "idle" => used.topology = NoTopologyStats /\ fresh.topology = NoTopologyStats
      /\ pc \notin {"stats", "idle"} => fresh.networks = [n \in Networks |-> NoNetworkStats]
      /\ pc \in {"occupancy", "overflow", "stats"} \/ (pc = "networks" /\ success)
           => used.arithmetic = fresh.arithmetic
      /\ pc = "occupancy" =>
           /\ at \in Storage
           /\ \A l \in 1 .. at - 1 : Alike(EvaluatedFields, used.buffers[l], fresh.buffers[l])
      /\ pc = "overflow" => LevelsAlike(EvaluatedFields, used.buffers, fresh.buffers)
      /\ pc = "stats" \/ (pc = "networks" /\ success)
           => LevelsAlike(EvaluatedFields \cup FinalFields, used.buffers, fresh.buffers)
      /\ pc = "stats" => success /\ NetworksForget(used, fresh)
      /\ pc = "idle" /\ success => ReportForgets(used, fresh) /\ NetworksForget(used, fresh)

Reusable == EnginesOf /\ EnginesAgree

LEMMA SpeccedIsEngine ==
  ASSUME specced = Topology
  PROVE  EngineOf(SpeccedEngine) /\ EngineOf(Reset(SpeccedEngine))
<1>1. Alike({}, NoBufferStats, NoBufferStats)
  BY DEF Alike, BufferFields, NoBufferStats
<1>2. NetworkAlike({}, NoNetworkStats, NoNetworkStats)
  BY DEF NetworkAlike, NetworkFields, NoNetworkStats
<1>3. ASSUME NEW network PROVE Untouched(network, NoNetworkStats)
  BY DEF Untouched, NoNetworkStats
<1> QED BY <1>1, <1>2, <1>3 DEF EngineOf, LevelsOf, SpeccedEngine, Reset

LEMMA StartReusable == Init => Reusable
<1> SUFFICES ASSUME Init PROVE Reusable
  OBVIOUS
<1>1. EnginesOf
  BY SpeccedIsEngine DEF Init, EnginesOf
<1>2. EnginesAgree
  BY DEF Init, EnginesAgree
<1> QED BY <1>1, <1>2 DEF Reusable

LEMMA BeginReusable ==
  ASSUME Reusable, NEW m \in Mappings, BeginEvaluate(m)
  PROVE  Reusable'
<1>1. /\ engine' = [used |-> Reset(engine["used"]), fresh |-> Reset(SpeccedEngine)]
      /\ pc' = "arithmetic" \/ (pc' = "idle" /\ ~success')
      /\ specced' = specced
  BY DEF BeginEvaluate
<1>2. /\ EngineOf(Reset(engine["used"])) /\ EngineOf(Reset(SpeccedEngine))
      /\ Reset(engine["used"]).topology = NoTopologyStats /\ Reset(SpeccedEngine).topology = NoTopologyStats
      /\ Reset(SpeccedEngine).networks = [n \in Networks |-> NoNetworkStats]
  BY SpeccedIsEngine DEF Reusable, EnginesOf, Engines, EngineOf, LevelsOf, Reset, SpeccedEngine
<1>3. EnginesOf'
  BY <1>1, <1>2 DEF Reusable, EnginesOf, Engines, EngineOf, LevelsOf, Networks
<1>4. EnginesAgree'
  BY <1>1, <1>2 DEF EnginesAgree, Networks
<1> QED BY <1>3, <1>4 DEF Reusable

LEMMA ArithmeticReusable ==
  ASSUME Reusable, EvaluateArithmeticLevel
  PROVE  Reusable'
<1> DEFINE after(e) == [engine[e] EXCEPT !.arithmetic = EvaluateArithmetic(Specs[Arithmetic], @, mapping.compute)]
<1>1. /\ pc = "arithmetic" /\ engine' = [e \in Engines |-> after(e)]
      /\ success' = ArithmeticSucceeds(Specs[Arithmetic], mapping.compute)
      /\ pc' = (IF success' THEN "occupancy" ELSE "idle") /\ at' = 1 /\ specced' = specced
  BY DEF EvaluateArithmeticLevel
<1>2. ASSUME NEW e \in Engines
      PROVE  EngineOf(after(e)) /\ after(e).topology = engine[e].topology /\ after(e).networks = engine[e].networks
  BY DEF Reusable, EnginesOf, EngineOf, LevelsOf
<1>3. success' => after("used").arithmetic = after("fresh").arithmetic
  <2>1. ASSUME NEW a, NEW b, success'
        PROVE  EvaluateArithmetic(Specs[Arithmetic], a, mapping.compute) =
                 EvaluateArithmetic(Specs[Arithmetic], b, mapping.compute)
    BY <1>1, <2>1, Zenon DEF EvaluateArithmetic
  <2>2. \A e \in Engines :
          after(e).arithmetic = EvaluateArithmetic(Specs[Arithmetic], engine[e].arithmetic, mapping.compute)
    BY DEF Reusable, EnginesOf, EngineOf, LevelsOf
  <2> QED BY <2>1, <2>2 DEF Engines
<1> HIDE DEF after
<1>4. EnginesOf'
  BY <1>1, <1>2 DEF Reusable, EnginesOf, EngineOf, LevelsOf, Networks
<1>5. EnginesAgree'
  <2>1. 1 \in Storage
    BY LevelsAssumption DEF LevelsAssumption, Storage
  <2> QED BY <1>1, <1>2, <1>3, <2>1 DEF Reusable, EnginesAgree, Engines, Networks
<1> QED BY <1>4, <1>5 DEF Reusable

LEMMA LevelReusable ==
  ASSUME Reusable, EvaluateStorageLevel
  PROVE  Reusable'
<1>1. PICK conflicts, valid :
        /\ pc = "occupancy"
        /\ engine' = [e \in Engines |-> EvaluatedLevel(engine[e], conflicts, valid)]
        /\ success' = valid /\ valid \in BOOLEAN /\ specced' = specced
        /\ pc' = (IF ~valid THEN "networks" ELSE IF at = Len(StorageAttributes) THEN "overflow" ELSE "occupancy")
        /\ at' = (IF valid /\ at < Len(StorageAttributes) THEN at + 1 ELSE at)
  BY DEF EvaluateStorageLevel, BufferSucceeds
<1> DEFINE full(s, cycles) ==
             EvaluateBuffer(Specs[at], s, Tiles, mapping.masks[at], occupancy,
                            [pv \in DataSpaces |-> conflicts[pv].ratio], OverallSlowdown(conflicts),
                            WordBitsOf(specced.networks[specced.drain_update[at]]), cycles)
           scalar(s) == ComputeScalarAccesses(Specs[at], s, Tiles, mapping.masks[at], occupancy)
           level(s, cycles) == IF valid THEN full(s, cycles) ELSE scalar(s)
           after(e) ==
             [engine[e] EXCEPT !.buffers =
                [@ EXCEPT ![at] = level(engine[e].buffers[at], engine[e].arithmetic.cycles)]]
<1>2. \A e : EvaluatedLevel(engine[e], conflicts, valid) = after(e)
  BY DEF EvaluatedLevel
<1>3. at \in Storage /\ engine["used"].arithmetic = engine["fresh"].arithmetic
  BY <1>1 DEF Reusable, EnginesAgree
<1>4. ASSUME NEW a, NEW b, NEW cycles, Alike({}, a, b)
      PROVE  /\ Alike({}, level(a, cycles), level(b, cycles))
             /\ valid => Alike(EvaluatedFields, level(a, cycles), level(b, cycles))
  <2>1. Alike(EvaluatedFields, full(a, cycles), full(b, cycles))
    BY <1>4, LevelAlike
  <2>2. Alike(ScalarFields, scalar(a), scalar(b))
    BY <1>4, ScalarAlike
  <2> HIDE DEF full, scalar
  <2> QED BY <2>1, <2>2 DEF Alike
<1> HIDE DEF level
<1>5. ASSUME NEW e \in Engines
      PROVE  /\ EngineOf(after(e))
             /\ after(e).topology = engine[e].topology /\ after(e).arithmetic = engine[e].arithmetic
             /\ after(e).networks = engine[e].networks
             /\ \A l \in Storage : after(e).buffers[l] =
                   IF l = at THEN level(engine[e].buffers[at], engine[e].arithmetic.cycles) ELSE engine[e].buffers[l]
  <2>1. EngineOf(engine[e])
    BY DEF Reusable, EnginesOf
  <2>2. Alike({}, level(engine[e].buffers[at], engine[e].arithmetic.cycles),
                  level(engine[e].buffers[at], engine[e].arithmetic.cycles))
    BY <1>3, <1>4, <2>1 DEF EngineOf, LevelsOf
  <2> QED BY <1>3, <2>1, <2>2 DEF EngineOf, LevelsOf
<1> HIDE DEF after
<1>6. EnginesOf'
  <2>1. engine' = [e \in Engines |-> after(e)]
    BY <1>1, <1>2, Zenon
  <2>2. \A e \in Engines : EngineOf(after(e))
    BY <1>5
  <2> QED BY <1>1, <2>1, <2>2 DEF Reusable, EnginesOf, EngineOf, LevelsOf, Networks
<1>7. valid => Alike(EvaluatedFields, after("used").buffers[at], after("fresh").buffers[at])
  <2>1. Alike({}, engine["used"].buffers[at], engine["fresh"].buffers[at])
    BY <1>3 DEF Reusable, EnginesOf, EngineOf, LevelsOf, Engines, Alike
  <2> QED BY <1>3, <1>4, <1>5, <2>1 DEF Engines
<1>8. ASSUME valid, NEW l \in 1 .. at
      PROVE  Alike(EvaluatedFields, after("used").buffers[l], after("fresh").buffers[l])
  <2>1. CASE l = at
    BY <1>7, <1>8, <2>1
  <2>2. CASE l # at
    <3>1. l \in Storage /\ l \in 1 .. at - 1
      BY <1>3, <1>8, <2>2, LevelsAssumption DEF LevelsAssumption, Storage
    <3> QED BY <1>1, <1>5, <2>2, <3>1 DEF Reusable, EnginesAgree, Engines
  <2> QED BY <2>1, <2>2
<1>9. EnginesAgree'
  <2>1. /\ engine'["used"] = after("used") /\ engine'["fresh"] = after("fresh")
        /\ after("used").topology = NoTopologyStats /\ after("fresh").topology = NoTopologyStats
        /\ after("used").arithmetic = after("fresh").arithmetic
        /\ after("fresh").networks = [n \in Networks |-> NoNetworkStats] /\ Networks' = Networks
    BY <1>1, <1>2, <1>3, <1>5 DEF Reusable, EnginesAgree, Engines, Networks
  <2>2. CASE ~valid
    BY <1>1, <2>1, <2>2 DEF EnginesAgree
  <2>3. CASE valid /\ at = Len(StorageAttributes)
    <3>1. LevelsAlike(EvaluatedFields, after("used").buffers, after("fresh").buffers)
      BY <1>5, <1>8, <2>3 DEF LevelsAlike, EngineOf, LevelsOf, Engines, Storage
    <3> QED BY <1>1, <2>1, <2>3, <3>1 DEF EnginesAgree
  <2>4. CASE valid /\ at # Len(StorageAttributes)
    <3>1. at' \in Storage /\ at' - 1 = at /\ pc' = "occupancy"
      BY <1>1, <1>3, <2>4, LevelsAssumption DEF LevelsAssumption, Storage
    <3> QED BY <1>8, <2>1, <2>4, <3>1 DEF EnginesAgree
  <2> QED BY <1>1, <2>2, <2>3, <2>4
<1> QED BY <1>6, <1>9 DEF Reusable

LEMMA FinalizeReusable ==
  ASSUME Reusable, FinalizeEnergy
  PROVE  Reusable'
<1> DEFINE final(e) == Finalized(Leaking(Charged(engine[e].buffers)), CyclesOf(engine[e]))
           after(e) == [engine[e] EXCEPT !.buffers = final(e)]
<1>1. /\ pc = "overflow" /\ pc' = "networks" /\ specced' = specced /\ specced = Topology
      /\ engine' = [e \in Engines |-> after(e)]
  BY DEF FinalizeEnergy, Reusable, EnginesOf
<1>2. /\ LevelsAlike(EvaluatedFields, engine["used"].buffers, engine["fresh"].buffers)
      /\ engine["used"].arithmetic = engine["fresh"].arithmetic
  BY <1>1 DEF Reusable, EnginesAgree
<1>3. CyclesOf(engine["used"]) = CyclesOf(engine["fresh"])
  BY <1>2, CyclesAlike
<1>4. LevelsAlike(EvaluatedFields \cup FinalFields, final("used"), final("fresh"))
  <2>1. LevelsAlike(EvaluatedFields, Charged(engine["used"].buffers), Charged(engine["fresh"].buffers))
    BY <1>2, ChargedAlike
  <2>2. LevelsAlike(EvaluatedFields \cup {"leaks_per_cycle"},
                    Leaking(Charged(engine["used"].buffers)), Leaking(Charged(engine["fresh"].buffers)))
    BY <1>1, <2>1, LeakingAlike
  <2> QED BY <1>3, <2>2, FinalizedAlike
<1> HIDE DEF final
<1>5. ASSUME NEW e \in Engines
      PROVE  /\ EngineOf(after(e)) /\ after(e).buffers = final(e) /\ after(e).networks = engine[e].networks
             /\ after(e).topology = engine[e].topology /\ after(e).arithmetic = engine[e].arithmetic
  <2>1. EngineOf(engine[e])
    BY DEF Reusable, EnginesOf
  <2>2. final(e) = [l \in Storage |-> final(e)[l]] /\ \A l \in Storage : Alike({}, final(e)[l], final(e)[l])
    BY <1>4 DEF LevelsAlike, Alike, Engines
  <2> QED BY <2>1, <2>2 DEF EngineOf, LevelsOf
<1> HIDE DEF after
<1>6. EnginesOf'
  BY <1>1, <1>5 DEF Reusable, EnginesOf, EngineOf, LevelsOf, Networks
<1>7. EnginesAgree'
  BY <1>1, <1>2, <1>4, <1>5 DEF Reusable, EnginesAgree, Engines, Networks
<1> QED BY <1>6, <1>7 DEF Reusable

LEMMA NetworksReusable ==
  ASSUME Reusable, EvaluateNetworks
  PROVE  Reusable'
<1>1. PICK stop \in [Engines -> Stops] :
        /\ engine' = [e \in Engines |-> EvaluatedNetworks(engine[e], stop[e])]
        /\ pc = "networks" /\ pc' = (IF success THEN "stats" ELSE "idle")
        /\ specced' = specced /\ specced = Topology /\ success' = success
  BY DEF EvaluateNetworks, Reusable, EnginesOf
<1> DEFINE met(e) == {n \in Networks : specced.networks[n].source < stop[e]}
           evaluated(s, n) == EvaluateNetwork(specced.networks[n], s, mapping.tiles[specced.networks[n].source])
           after(e) == EvaluatedNetworks(engine[e], stop[e])
           networks(e) == [n \in Networks |-> IF n \in met(e) THEN evaluated(engine[e].networks[n], n)
                                              ELSE engine[e].networks[n]]
<1>2. ASSUME NEW e \in Engines
      PROVE  after(e) = [engine[e] EXCEPT !.networks = networks(e), !.evaluated = met(e)]
  BY Zenon DEF EvaluatedNetworks
<1> HIDE DEF met, after
<1>3. ASSUME NEW e \in Engines, NEW n \in Networks
      PROVE  /\ NetworkAlike({}, networks(e)[n], networks(e)[n])
             /\ Untouched(specced.networks[n], networks(e)[n])
  <2>1. NetworkAlike({}, engine[e].networks[n], engine[e].networks[n]) /\ Untouched(specced.networks[n], engine[e].networks[n])
    BY DEF Reusable, EnginesOf, EngineOf
  <2>2. /\ NetworkAlike({}, evaluated(engine[e].networks[n], n), evaluated(engine[e].networks[n], n))
        /\ Untouched(specced.networks[n], evaluated(engine[e].networks[n], n))
    BY <2>1, NetworkForgets
  <2> HIDE DEF evaluated
  <2> QED BY <2>1, <2>2
<1>4. ASSUME NEW e \in Engines
      PROVE  /\ EngineOf(after(e)) /\ after(e).networks = networks(e) /\ after(e).buffers = engine[e].buffers
             /\ after(e).evaluated = met(e)
             /\ after(e).topology = engine[e].topology /\ after(e).arithmetic = engine[e].arithmetic
  <2>1. EngineOf(engine[e])
    BY DEF Reusable, EnginesOf
  <2>2. networks(e) = [n \in Networks |-> networks(e)[n]]
    OBVIOUS
  <2> HIDE DEF networks
  <2> QED BY <1>2, <1>3, <2>1, <2>2 DEF EngineOf, LevelsOf
<1>5. NetworksForget(after("used"), after("fresh"))
  <2> SUFFICES ASSUME NEW n \in met("used") \cap met("fresh")
               PROVE  \/ LeftBehind(specced.networks[n], networks("used")[n], networks("fresh")[n])
                      \/ NetworkEnergies(after("used"))[n] = NetworkEnergies(after("fresh"))[n]
    BY <1>4 DEF NetworksForget, Engines
  <2>1. n \in Networks /\ "used" \in Engines /\ "fresh" \in Engines
    BY DEF met, Engines
  <2>2. /\ networks("used")[n] = evaluated(engine["used"].networks[n], n)
        /\ networks("fresh")[n] = evaluated(NoNetworkStats, n)
    BY <1>1, <2>1 DEF Reusable, EnginesAgree
  <2>3. NetworkAlike({}, engine["used"].networks[n], engine["used"].networks[n])
        /\ Untouched(specced.networks[n], engine["used"].networks[n])
    BY <2>1 DEF Reusable, EnginesOf, EngineOf
  <2>4. \/ LeftBehind(specced.networks[n], networks("used")[n], networks("fresh")[n])
        \/ NetworkEnergy(specced.networks[n], networks("used")[n])
             = NetworkEnergy(specced.networks[n], networks("fresh")[n])
    BY <2>2, <2>3, NetworkForgets
  <2> HIDE DEF networks, evaluated
  <2>5. /\ NetworkEnergies(after("used"))[n] = NetworkEnergy(specced.networks[n], networks("used")[n])
        /\ NetworkEnergies(after("fresh"))[n] = NetworkEnergy(specced.networks[n], networks("fresh")[n])
    BY <1>4, <2>1 DEF NetworkEnergies
  <2> QED BY <2>4, <2>5
<1> HIDE DEF networks
<1>6. engine' = [e \in Engines |-> after(e)]
  BY <1>1 DEF after
<1>7. EnginesOf'
  BY <1>1, <1>4, <1>6 DEF Reusable, EnginesOf, EngineOf, LevelsOf, Networks
<1>8. EnginesAgree'
  <2>2. engine'["used"] = after("used") /\ engine'["fresh"] = after("fresh")
    BY <1>6 DEF Engines
  <2>3. NetworksForget(engine["used"], engine["fresh"])'
    BY <1>1, <1>5, <2>2 DEF NetworksForget, NetworkEnergies
  <2> QED BY <1>1, <1>4, <2>2, <2>3 DEF Reusable, EnginesAgree, Engines
<1> QED BY <1>7, <1>8 DEF Reusable

LEMMA CollectReusable ==
  ASSUME Reusable, CollectStats
  PROVE  Reusable'
<1> DEFINE after(e) == [engine[e] EXCEPT !.topology = ComputeStats(engine[e])]
<1>1. /\ pc = "stats" /\ pc' = "idle" /\ specced' = specced
      /\ engine' = [e \in Engines |-> after(e)]
  BY DEF CollectStats
<1>2. ASSUME NEW e \in Engines
      PROVE  /\ EngineOf(after(e)) /\ after(e).topology = ComputeStats(engine[e])
             /\ after(e).networks = engine[e].networks /\ after(e).evaluated = engine[e].evaluated
  <2>1. EngineOf(engine[e])
    BY DEF Reusable, EnginesOf
  <2> QED BY <2>1 DEF EngineOf, LevelsOf
<1>3. /\ \A stat \in DOMAIN NoTopologyStats \ {"energy"} :
           ComputeStats(engine["used"])[stat] = ComputeStats(engine["fresh"])[stat]
      /\ NetworkEnergies(engine["used"]) = NetworkEnergies(engine["fresh"])
           => ComputeStats(engine["used"]) = ComputeStats(engine["fresh"])
      /\ NetworksForget(engine["used"], engine["fresh"])
  BY <1>1, StatsForget DEF Reusable, EnginesAgree
<1> HIDE DEF after
<1>4. EnginesOf'
  BY <1>1, <1>2 DEF Reusable, EnginesOf, EngineOf, LevelsOf, Networks
<1>5. EnginesAgree'
  <2>1. engine'["used"] = after("used") /\ engine'["fresh"] = after("fresh")
    BY <1>1 DEF Engines
  <2>2. ASSUME NEW e \in Engines PROVE NetworkEnergies(engine[e])' = NetworkEnergies(engine[e])
    BY <1>1, <1>2 DEF NetworkEnergies
  <2>3. ReportForgets(engine["used"], engine["fresh"])'
    BY <1>2, <1>3, <2>1, <2>2 DEF ReportForgets, Engines
  <2>4. NetworksForget(engine["used"], engine["fresh"])'
    BY <1>1, <1>2, <1>3, <2>1, <2>2 DEF NetworksForget, Engines
  <2> QED BY <1>1, <2>3, <2>4 DEF EnginesAgree
<1> QED BY <1>4, <1>5 DEF Reusable

\* The steps that settle what a level keeps touch no engine.
LEMMA UnchangedReusable ==
  ASSUME Reusable, UNCHANGED <<specced, pc, success, at, engine>>
  PROVE  Reusable'
BY DEF Reusable, EnginesOf, EnginesAgree, EngineOf, LevelsOf, Networks, NetworksForget, ReportForgets, NetworkEnergies

\* Whatever the architecture and the mappings, what an engine reports does not depend on
\* the mappings it evaluated before (Topology::Evaluate and ::ComputeStats on the
\* engine of a mapper thread), but for the energy of networks that keep some of it.
THEOREM MappingsAreForgotten == Spec => []EvaluationForgets
<1>1. Reusable /\ [Next]_vars => Reusable'
  <2> SUFFICES ASSUME Reusable, [Next]_vars
               PROVE  Reusable'
    OBVIOUS
  <2>1. ASSUME NEW m \in Mappings, BeginEvaluate(m)
        PROVE  Reusable'
    BY <2>1, BeginReusable
  <2>2. CASE EvaluateArithmeticLevel
    BY <2>2, ArithmeticReusable
  <2>3. CASE SettleOccupancy \/ TryConfidence \/ EndSearch
    BY <2>3, UnchangedReusable DEF SettleOccupancy, TryConfidence, EndSearch
  <2>4. CASE EvaluateStorageLevel
    BY <2>4, LevelReusable
  <2>5. CASE FinalizeEnergy
    BY <2>5, FinalizeReusable
  <2>6. CASE EvaluateNetworks
    BY <2>6, NetworksReusable
  <2>7. CASE CollectStats
    BY <2>7, CollectReusable
  <2>8. CASE UNCHANGED vars
    BY <2>8, UnchangedReusable DEF vars
  <2> QED BY <2>1, <2>2, <2>3, <2>4, <2>5, <2>6, <2>7, <2>8 DEF Next, Evaluating
<1>2. Reusable => EvaluationForgets
  BY DEF Reusable, EnginesAgree, EvaluationForgets, Evaluated
<1> QED BY StartReusable, <1>1, <1>2, PTL DEF Spec

------------------------------------------------------------------------------
\* What is judged of a level: nothing after ComputeScalarAccesses assigns it.
JudgedFields == {"utilized_capacity", "tile_confidence"}

LEMMA ScalarJudged ==
  ASSUME NEW s, Alike({}, s, s), NEW specs, NEW tiles, NEW mask, NEW occ
  PROVE  LET after == ComputeScalarAccesses(specs, s, tiles, mask, occ)
         IN  /\ Alike({}, after, after)
             /\ after.utilized_capacity = [pv \in DataSpaces |-> occ[pv].data_tile_size]
             /\ after.tile_confidence = [pv \in DataSpaces |-> occ[pv].confidence]
<1>1. Alike(ScalarFields, ComputeScalarAccesses(specs, s, tiles, mask, occ),
                          ComputeScalarAccesses(specs, s, tiles, mask, occ))
  BY ScalarAlike
<1> DEFINE usage ==
             [s EXCEPT
                !.keep = mask,
                !.tile_size = [pv \in DataSpaces |-> tiles[pv].size],
                !.utilized_instances = [pv \in DataSpaces |-> tiles[pv].avg_replication_factor],
                !.utilized_expansion = [pv \in DataSpaces |-> tiles[pv].max_x_expansion * tiles[pv].max_y_expansion]]
           ranks ==
             [pv \in DataSpaces |->
                s.metadata_tile_size[pv] \o [r \in DOMAIN occ[pv].metadata |-> occ[pv].metadata[r].units]]
           sizes(x, m) ==
             [x EXCEPT
                !.utilized_clusters = [pv \in DataSpaces |-> UtilizedClusters(specs, tiles[pv])],
                !.utilized_capacity = [pv \in DataSpaces |-> occ[pv].data_tile_size],
                !.tile_confidence = [pv \in DataSpaces |-> occ[pv].confidence],
                !.metadata_tile_size = m]
           accesses(x) ==
             [x EXCEPT
                !.accesses = [pv \in DataSpaces |-> tiles[pv].reads + tiles[pv].updates + tiles[pv].fills],
                !.fine_grained_scalar_accesses = [pv \in DataSpaces |-> tiles[pv].data_accesses],
                !.temporal_reductions = [pv \in DataSpaces |-> tiles[pv].temporal_reductions],
                !.address_generations = [pv \in DataSpaces |-> AddressGenerations(tiles[pv], pv)],
                !.addr_gen_bits = AddrGenBits(specs, occ)]
<1>2. ComputeScalarAccesses(specs, s, tiles, mask, occ) = accesses(sizes(usage, ranks))
  BY Zenon DEF ComputeScalarAccesses
<1> HIDE DEF ranks
<1>3. Alike({}, usage, usage)
  BY FieldsAre DEF Alike, EvaluatedFields, ScalarFields
<1> HIDE DEF usage
<1>4. ASSUME NEW x, Alike({}, x, x), NEW m, NEW after, after = sizes(x, m)
      PROVE  /\ Alike({}, after, after)
             /\ after.utilized_capacity = [pv \in DataSpaces |-> occ[pv].data_tile_size]
             /\ after.tile_confidence = [pv \in DataSpaces |-> occ[pv].confidence]
  BY <1>4, FieldsAre DEF Alike, EvaluatedFields, ScalarFields
<1> HIDE DEF sizes
<1>5. ASSUME NEW x, Alike({}, x, x), NEW after, after = accesses(x)
      PROVE  after.utilized_capacity = x.utilized_capacity /\ after.tile_confidence = x.tile_confidence
  BY <1>5, FieldsAre DEF Alike, EvaluatedFields, ScalarFields
<1> HIDE DEF accesses
<1> QED BY <1>1, <1>2, <1>3, <1>4, <1>5 DEF Alike

LEMMA LevelJudged ==
  ASSUME NEW s, Alike({}, s, s), NEW specs, NEW tiles, NEW mask, NEW occ, NEW ratios, NEW overall,
         NEW bits, NEW cycles
  PROVE  LET after == EvaluateBuffer(specs, s, tiles, mask, occ, ratios, overall, bits, cycles)
         IN  /\ after.utilized_capacity = [pv \in DataSpaces |-> occ[pv].data_tile_size]
             /\ after.tile_confidence = [pv \in DataSpaces |-> occ[pv].confidence]
<1> DEFINE Scalar == ComputeScalarAccesses(specs, s, tiles, mask, occ)
           Vector == ComputeVectorAccesses(specs, Scalar, tiles, ratios)
           Energy == ComputeBufferEnergy(specs, Vector)
           Reduction == ComputeReductionEnergy(specs, Energy, bits)
           AddrGen == ComputeAddrGenEnergy(specs, Reduction)
           Performance == ComputePerformance(specs, AddrGen, cycles, overall)
<1>1. Alike({}, Scalar, Scalar)
  BY ScalarJudged
<1>9. /\ Scalar.utilized_capacity = [pv \in DataSpaces |-> occ[pv].data_tile_size]
      /\ Scalar.tile_confidence = [pv \in DataSpaces |-> occ[pv].confidence]
  BY ScalarJudged
<1> HIDE DEF Scalar
<1> USE FieldsAre DEF Alike, EvaluatedFields, ScalarFields, VectorFields, EnergyFields, JudgedFields
<1>2. Alike(JudgedFields, Scalar, Vector)
  BY <1>1 DEF ComputeVectorAccesses
<1> HIDE DEF Vector
<1>3. Alike(JudgedFields, Vector, Energy)
  BY <1>2 DEF ComputeBufferEnergy
<1> HIDE DEF Energy
<1>4. Alike(JudgedFields, Energy, Reduction)
  BY <1>3 DEF ComputeReductionEnergy
<1> HIDE DEF Reduction
<1>5. Alike(JudgedFields, Reduction, AddrGen)
  BY <1>4 DEF ComputeAddrGenEnergy
<1> HIDE DEF AddrGen
<1>6. Alike(JudgedFields, AddrGen, Performance)
  BY <1>5 DEF ComputePerformance
<1> HIDE DEF Performance
<1>7. Scalar.utilized_capacity = Performance.utilized_capacity /\ Scalar.tile_confidence = Performance.tile_confidence
  BY <1>2, <1>3, <1>4, <1>5, <1>6
<1>8. EvaluateBuffer(specs, s, tiles, mask, occ, ratios, overall, bits, cycles) = Performance
  BY Zenon DEF EvaluateBuffer, Performance, AddrGen, Reduction, Energy, Vector, Scalar
<1> QED BY <1>7, <1>8, <1>9

LEMMA FinalJudged ==
  ASSUME NEW buffers, LevelsAlike({}, buffers, buffers), NEW cycles
  PROVE  LevelsAlike(JudgedFields, buffers, Finalized(Leaking(Charged(buffers)), cycles))
<1>1. ASSUME NEW x, Alike({}, x, x), NEW specs, NEW extra
      PROVE  Alike(JudgedFields, x, ComputeEnergyDueToChildLevelOverflow(specs, x, extra))
  BY <1>1, FieldsAre DEF Alike, EvaluatedFields, ScalarFields, EnergyFields, JudgedFields,
     ComputeEnergyDueToChildLevelOverflow
<1>2. ASSUME NEW x, Alike({}, x, x), NEW specs, NEW gate_specs, NEW gate
      PROVE  Alike(JudgedFields, x, ComputeLeaksPerCycle(specs, x, gate_specs, gate))
  BY <1>2, FieldsAre DEF Alike, EvaluatedFields, ScalarFields, FinalFields, JudgedFields, ComputeLeaksPerCycle
<1>3. ASSUME NEW x, Alike({}, x, x), NEW specs
      PROVE  Alike(JudgedFields, x, FinalizeBufferEnergy(specs, x, cycles))
  BY <1>3, FieldsAre DEF Alike, EvaluatedFields, ScalarFields, FinalFields, JudgedFields, FinalizeBufferEnergy
<1>4. ASSUME NEW F, NEW x, NEW y, NEW z, Alike(F, x, y), Alike(F, y, z)
      PROVE  Alike({}, y, y) /\ Alike(F, x, z)
  BY <1>4 DEF Alike
<1> DEFINE charged == Charged(buffers)
           leaking == Leaking(charged)
           final == Finalized(leaking, cycles)
<1>5. ASSUME NEW l \in Storage
      PROVE  Alike(JudgedFields, buffers[l], charged[l]) /\ Alike({}, charged[l], charged[l])
  <2>1. Alike(JudgedFields, buffers[l], charged[l])
    BY <1>1 DEF Charged, LevelsAlike
  <2> QED BY <2>1 DEF Alike
<1> HIDE DEF charged
<1>6. ASSUME NEW l \in Storage
      PROVE  Alike(JudgedFields, charged[l], leaking[l]) /\ Alike({}, leaking[l], leaking[l])
  <2>1. Alike(JudgedFields, charged[l], leaking[l])
    BY <1>2, <1>5 DEF Leaking
  <2> QED BY <2>1 DEF Alike
<1> HIDE DEF leaking
<1>7. ASSUME NEW l \in Storage
      PROVE  Alike(JudgedFields, leaking[l], final[l])
  BY <1>3, <1>6 DEF Finalized
<1>8. final = [l \in Storage |-> final[l]]
  BY DEF Finalized
<1> HIDE DEF final
<1>9. \A l \in Storage : Alike(JudgedFields, buffers[l], final[l])
  BY <1>4, <1>5, <1>6, <1>7
<1> QED BY <1>8, <1>9 DEF LevelsAlike, final, leaking, charged

\* The engine in use has all its levels, whatever its networks.
UsedLevels == engine = [e \in Engines |-> engine[e]] /\ \A e \in Engines : LevelsOf(engine[e])

\* An evaluation that is still successful has judged the levels inside of the
\* one it has reached, and all of them once it is through with the levels.
HeldSoFar ==
  /\ pc = "occupancy" => at \in Storage /\ \A l \in 1 .. at - 1 : Holds(l)
  /\ pc \in {"overflow", "stats"} \/ (pc \in {"networks", "idle"} /\ success)
       => \A l \in Storage : Holds(l)

Fitting == UsedLevels /\ HeldSoFar

LEMMA StaysHeld ==
  ASSUME NEW l, Holds(l), specced' = specced, mapping' = mapping,
         \A field \in JudgedFields : engine'["used"].buffers[l][field] = engine["used"].buffers[l][field]
  PROVE  Holds(l)'
BY DEF Holds, Specs, JudgedFields

LEMMA StartFitting == Init => Fitting
<1> SUFFICES ASSUME Init PROVE Fitting
  OBVIOUS
<1>1. UsedLevels
  BY SpeccedIsEngine DEF Init, UsedLevels, EngineOf
<1>2. HeldSoFar
  BY DEF Init, HeldSoFar
<1> QED BY <1>1, <1>2 DEF Fitting

LEMMA BeginFitting ==
  ASSUME Fitting, NEW m \in Mappings, BeginEvaluate(m)
  PROVE  Fitting'
<1>1. /\ engine' = [used |-> Reset(engine["used"]), fresh |-> Reset(SpeccedEngine)]
      /\ pc' = "arithmetic" \/ (pc' = "idle" /\ ~success')
  BY DEF BeginEvaluate
<1>2. LevelsOf(Reset(engine["used"]))
  BY DEF Fitting, UsedLevels, Engines, LevelsOf, Reset
<1>3. LevelsOf(Reset(SpeccedEngine))
  <2>1. Alike({}, NoBufferStats, NoBufferStats)
    BY DEF Alike, BufferFields, NoBufferStats
  <2> QED BY <2>1 DEF LevelsOf, Reset, SpeccedEngine
<1>4. UsedLevels'
  BY <1>1, <1>2, <1>3 DEF UsedLevels, Engines
<1>5. HeldSoFar'
  BY <1>1 DEF HeldSoFar
<1> QED BY <1>4, <1>5 DEF Fitting

LEMMA LevelFitting ==
  ASSUME Fitting, EvaluateStorageLevel
  PROVE  Fitting'
<1>1. PICK conflicts, valid :
        /\ pc = "occupancy" /\ specced' = specced /\ mapping' = mapping
        /\ valid = BufferSucceeds(Specs[at], Tiles, occupancy, mapping.thresholds[at])
        /\ engine' = [e \in Engines |-> EvaluatedLevel(engine[e], conflicts, valid)]
        /\ success' = valid
        /\ pc' = (IF ~valid THEN "networks" ELSE IF at = Len(StorageAttributes) THEN "overflow" ELSE "occupancy")
        /\ at' = (IF valid /\ at < Len(StorageAttributes) THEN at + 1 ELSE at)
  BY DEF EvaluateStorageLevel
<1> DEFINE level(s, cycles) ==
             IF valid
               THEN EvaluateBuffer(Specs[at], s, Tiles, mapping.masks[at], occupancy,
                                   [pv \in DataSpaces |-> conflicts[pv].ratio], OverallSlowdown(conflicts),
                                   WordBitsOf(specced.networks[specced.drain_update[at]]), cycles)
               ELSE ComputeScalarAccesses(Specs[at], s, Tiles, mapping.masks[at], occupancy)
           after(e) ==
             [engine[e] EXCEPT !.buffers =
                [@ EXCEPT ![at] = level(engine[e].buffers[at], engine[e].arithmetic.cycles)]]
<1>2. \A e : EvaluatedLevel(engine[e], conflicts, valid) = after(e)
  BY DEF EvaluatedLevel
<1>3. at \in Storage /\ \A l \in 1 .. at - 1 : Holds(l)
  BY <1>1 DEF Fitting, HeldSoFar
<1>4. ASSUME NEW s, Alike({}, s, s), NEW cycles
      PROVE  /\ Alike({}, level(s, cycles), level(s, cycles))
             /\ level(s, cycles).utilized_capacity = [pv \in DataSpaces |-> occupancy[pv].data_tile_size]
             /\ level(s, cycles).tile_confidence = [pv \in DataSpaces |-> occupancy[pv].confidence]
  <2>1. CASE valid
    BY <1>4, <2>1, LevelAlike, LevelJudged DEF Alike
  <2>2. CASE ~valid
    BY <1>4, <2>2, ScalarJudged
  <2> QED BY <2>1, <2>2
<1> HIDE DEF level
<1>5. ASSUME NEW e \in Engines
      PROVE  /\ LevelsOf(after(e))
             /\ after(e).buffers[at].utilized_capacity = [pv \in DataSpaces |-> occupancy[pv].data_tile_size]
             /\ after(e).buffers[at].tile_confidence = [pv \in DataSpaces |-> occupancy[pv].confidence]
             /\ \A l \in Storage : l # at => after(e).buffers[l] = engine[e].buffers[l]
  <2>1. LevelsOf(engine[e])
    BY DEF Fitting, UsedLevels
  <2>2. PICK new : new = level(engine[e].buffers[at], engine[e].arithmetic.cycles)
    OBVIOUS
  <2>3. /\ Alike({}, new, new)
        /\ new.utilized_capacity = [pv \in DataSpaces |-> occupancy[pv].data_tile_size]
        /\ new.tile_confidence = [pv \in DataSpaces |-> occupancy[pv].confidence]
    BY <1>3, <1>4, <2>1, <2>2 DEF LevelsOf
  <2> QED BY <1>3, <2>1, <2>2, <2>3 DEF LevelsOf
<1> HIDE DEF after
<1>6. engine' = [e \in Engines |-> after(e)] /\ engine'["used"] = after("used")
  BY <1>1, <1>2, Zenon DEF Engines
<1>7. UsedLevels'
  BY <1>5, <1>6 DEF UsedLevels
<1>8. ASSUME valid, NEW l, l = at PROVE Holds(l)'
  <2>1. BufferSucceeds(Specs[l], Tiles, occupancy, mapping.thresholds[l])
    BY <1>1, <1>8
  <2>2. /\ Specs[l].size # {} => CapacityOf(occupancy) <= The(Specs[l].effective_size)
        /\ \A pv \in DataSpaces : QLeq(mapping.thresholds[l], occupancy[pv].confidence)
    BY <2>1 DEF BufferSucceeds, CapacityFits, ConfidenceSuffices
  <2>3. PICK stats : stats = engine'["used"].buffers[l]
    OBVIOUS
  <2>4. /\ SumOver(stats.utilized_capacity) = CapacityOf(occupancy)
        /\ \A pv \in DataSpaces : stats.tile_confidence[pv] = occupancy[pv].confidence
    BY <1>5, <1>6, <1>8, <2>3 DEF CapacityOf, Engines
  <2>5. Specs' = Specs /\ mapping' = mapping
    BY <1>1 DEF Specs
  <2> QED BY <2>2, <2>3, <2>4, <2>5 DEF Holds
<1>9. ASSUME NEW l \in Storage, l < at PROVE Holds(l)'
  <2>1. Holds(l) /\ l # at
    BY <1>3, <1>9, LevelsAssumption DEF LevelsAssumption, Storage
  <2> QED BY <1>1, <1>5, <1>6, <2>1, StaysHeld DEF Engines
<1>10. ASSUME valid, NEW l \in 1 .. at PROVE Holds(l)'
  BY <1>3, <1>8, <1>9, <1>10, LevelsAssumption DEF LevelsAssumption, Storage
<1>11. HeldSoFar'
  <2>1. CASE ~valid
    BY <1>1, <2>1 DEF HeldSoFar
  <2>2. CASE valid /\ at = Len(StorageAttributes)
    <3>1. \A l \in Storage : Holds(l)'
      BY <1>10, <2>2 DEF Storage
    <3> QED BY <1>1, <2>2, <3>1 DEF HeldSoFar
  <2>3. CASE valid /\ at # Len(StorageAttributes)
    <3>1. at' \in Storage /\ at' - 1 = at /\ pc' = "occupancy"
      BY <1>1, <1>3, <2>3, LevelsAssumption DEF LevelsAssumption, Storage
    <3>2. \A l \in 1 .. at' - 1 : Holds(l)'
      BY <1>10, <2>3, <3>1
    <3> QED BY <3>1, <3>2 DEF HeldSoFar
  <2> QED BY <1>1, <2>1, <2>2, <2>3
<1> QED BY <1>7, <1>11 DEF Fitting

LEMMA FinalizeFitting ==
  ASSUME Fitting, FinalizeEnergy
  PROVE  Fitting'
<1> DEFINE final(e) == Finalized(Leaking(Charged(engine[e].buffers)), CyclesOf(engine[e]))
           after(e) == [engine[e] EXCEPT !.buffers = final(e)]
<1>1. /\ pc = "overflow" /\ pc' = "networks" /\ specced' = specced /\ mapping' = mapping
      /\ engine' = [e \in Engines |-> after(e)]
  BY DEF FinalizeEnergy
<1>2. ASSUME NEW e \in Engines
      PROVE  LevelsAlike(JudgedFields, engine[e].buffers, final(e))
  BY FinalJudged DEF Fitting, UsedLevels, LevelsOf, LevelsAlike
<1> HIDE DEF final
<1>3. ASSUME NEW e \in Engines
      PROVE  LevelsOf(after(e)) /\ after(e).buffers = final(e)
  BY <1>2 DEF Fitting, UsedLevels, LevelsOf, LevelsAlike, Alike
<1> HIDE DEF after
<1>4. UsedLevels'
  BY <1>1, <1>3 DEF UsedLevels
<1>5. ASSUME NEW l \in Storage PROVE Holds(l)'
  <2>1. Holds(l)
    BY <1>1 DEF Fitting, HeldSoFar
  <2>2. \A field \in JudgedFields : engine'["used"].buffers[l][field] = engine["used"].buffers[l][field]
    <3>1. Alike(JudgedFields, engine["used"].buffers[l], final("used")[l])
      BY <1>2 DEF LevelsAlike, Engines
    <3>2. engine'["used"].buffers = final("used")
      BY <1>1, <1>3 DEF Engines
    <3> QED BY <3>1, <3>2 DEF Alike
  <2> QED BY <1>1, <2>1, <2>2, StaysHeld
<1>6. HeldSoFar'
  BY <1>1, <1>5 DEF HeldSoFar
<1> QED BY <1>4, <1>6 DEF Fitting

\* The other steps assign no statistics of a level.
LEMMA BuffersFitting ==
  ASSUME Fitting, specced' = specced, mapping' = mapping, UsedLevels',
         \A l \in Storage : engine'["used"].buffers[l] = engine["used"].buffers[l],
         \/ pc' = pc /\ at' = at /\ success' = success
         \/ pc = "arithmetic" /\ at' = 1 /\ (pc' = "occupancy" \/ (pc' = "idle" /\ ~success'))
         \/ pc = "networks" /\ success' = success /\ pc' = (IF success THEN "stats" ELSE "idle")
         \/ pc = "stats" /\ pc' = "idle"
  PROVE  Fitting'
<1>1. ASSUME NEW l \in Storage, Holds(l) PROVE Holds(l)'
  BY <1>1, StaysHeld
<1>2. 1 \in Storage /\ \A l \in Storage : 1 .. l - 1 \subseteq Storage
  BY LevelsAssumption DEF LevelsAssumption, Storage
<1>3. HeldSoFar'
  BY <1>1, <1>2 DEF Fitting, HeldSoFar
<1> QED BY <1>3 DEF Fitting

LEMMA RestFitting ==
  ASSUME Fitting, EvaluateArithmeticLevel \/ EvaluateNetworks \/ CollectStats
  PROVE  Fitting'
<1>1. ASSUME NEW e \in Engines, NEW x, NEW new,
             \/ new = [engine[e] EXCEPT !.arithmetic = x]
             \/ new = [engine[e] EXCEPT !.networks = x]
             \/ new = [engine[e] EXCEPT !.topology = x]
      PROVE  LevelsOf(new) /\ new.buffers = engine[e].buffers
  <2>1. LevelsOf(engine[e])
    BY DEF Fitting, UsedLevels
  <2> QED BY <1>1, <2>1 DEF LevelsOf
<1>2. ASSUME NEW after, engine' = [e \in Engines |-> after[e]],
             \A e \in Engines : LevelsOf(after[e]) /\ after[e].buffers = engine[e].buffers
      PROVE  UsedLevels' /\ \A l \in Storage : engine'["used"].buffers[l] = engine["used"].buffers[l]
  BY <1>2 DEF UsedLevels, Engines
<1>3. CASE EvaluateArithmeticLevel
  <2>1. PICK after :
          after = [e \in Engines |->
                     [engine[e] EXCEPT !.arithmetic = EvaluateArithmetic(Specs[Arithmetic], @, mapping.compute)]]
    OBVIOUS
  <2>2. \A e \in Engines : LevelsOf(after[e]) /\ after[e].buffers = engine[e].buffers
    BY <1>1, <2>1
  <2>3. engine' = [e \in Engines |-> after[e]]
    BY <1>3, <2>1 DEF EvaluateArithmeticLevel
  <2> QED BY <1>2, <1>3, <2>2, <2>3, BuffersFitting DEF EvaluateArithmeticLevel
<1>4. CASE EvaluateNetworks
  <2>1. PICK stop : engine' = [e \in Engines |-> EvaluatedNetworks(engine[e], stop[e])]
    BY <1>4 DEF EvaluateNetworks
  <2>2. ASSUME NEW e \in Engines, NEW s, NEW new, new = EvaluatedNetworks(engine[e], s)
        PROVE  LevelsOf(new) /\ new.buffers = engine[e].buffers
    <3>1. PICK networks, met : new = [engine[e] EXCEPT !.networks = networks, !.evaluated = met]
      BY <2>2 DEF EvaluatedNetworks
    <3>2. LevelsOf(engine[e])
      BY DEF Fitting, UsedLevels
    <3> QED BY <3>1, <3>2 DEF LevelsOf
  <2>3. engine' = [e \in Engines |-> engine'[e]]
        /\ \A e \in Engines : LevelsOf(engine'[e]) /\ engine'[e].buffers = engine[e].buffers
    BY <2>1, <2>2
  <2> QED BY <1>2, <1>4, <2>3, BuffersFitting DEF EvaluateNetworks
<1>5. CASE CollectStats
  <2>1. engine' = [e \in Engines |-> [engine[e] EXCEPT !.topology = ComputeStats(engine[e])]]
    BY <1>5 DEF CollectStats
  <2>2. \A e \in Engines : LevelsOf(engine'[e]) /\ engine'[e].buffers = engine[e].buffers
    BY <1>1, <2>1
  <2>3. engine' = [e \in Engines |-> engine'[e]]
    BY <2>1
  <2>4. UsedLevels' /\ \A l \in Storage : engine'["used"].buffers[l] = engine["used"].buffers[l]
    BY <1>2, <2>2, <2>3
  <2>5. pc = "stats" /\ pc' = "idle" /\ specced' = specced /\ mapping' = mapping
    BY <1>5 DEF CollectStats
  <2> QED BY <2>4, <2>5, BuffersFitting
<1> QED BY <1>3, <1>4, <1>5

\* Whatever the topology and the mappings, no level of an accepted mapping is
\* overfull or has a tile below the confidence asked for, though the energy and
\* the networks are evaluated after it was judged, and rejected mappings before.
THEOREM AcceptedTilesFit == Spec => []TilesFit
<1>1. Fitting /\ [Next]_vars => Fitting'
  <2> SUFFICES ASSUME Fitting, [Next]_vars
               PROVE  Fitting'
    OBVIOUS
  <2>1. ASSUME NEW m \in Mappings, BeginEvaluate(m)
        PROVE  Fitting'
    BY <2>1, BeginFitting
  <2>2. CASE EvaluateArithmeticLevel \/ EvaluateNetworks \/ CollectStats
    BY <2>2, RestFitting
  <2>3. CASE SettleOccupancy \/ TryConfidence \/ EndSearch \/ UNCHANGED vars
    <3>1. UNCHANGED <<specced, pc, mapping, success, at, engine>>
      BY <2>3 DEF SettleOccupancy, TryConfidence, EndSearch, vars
    <3>2. UsedLevels'
      BY <3>1 DEF Fitting, UsedLevels
    <3> QED BY <3>1, <3>2, BuffersFitting
  <2>4. CASE EvaluateStorageLevel
    BY <2>4, LevelFitting
  <2>5. CASE FinalizeEnergy
    BY <2>5, FinalizeFitting
  <2> QED BY <2>1, <2>2, <2>3, <2>4, <2>5 DEF Next, Evaluating
<1>2. Fitting => TilesFit
  BY DEF Fitting, HeldSoFar, TilesFit, Evaluated
<1> QED BY StartFitting, <1>1, <1>2, PTL DEF Spec

------------------------------------------------------------------------------
(***************************************************************************)
(* That capacity is judged: the pre-evaluation check sums what it counts   *)
(* of the tiles at the confidence asked for, the evaluation what the tiles *)
(* hold at the confidence found.  First the rational numbers the shares of *)
(* the tiles are: how Euclid's algorithm, lowest terms and rounding up     *)
(* behave; then the sums over the data spaces; last the invariant, Sizing: *)
(* what is settled or found for a tile of the level in hand is no less     *)
(* than the check counts, and the levels evaluated have room for that.     *)
(***************************************************************************)

\* Induction, over a set of numbers.  A least number missing is found by way of
\* the sets 0 .. n, which are well-founded by inclusion.
LEMMA NaturalsByInduction ==
  ASSUME NEW S, 0 \in S, \A n \in Nat : n \in S => n + 1 \in S
  PROVE  Nat \subseteq S
<1> DEFINE Upto(n) == 0 .. n
           Missing == {n \in Nat : n \notin S}
           Below == {Upto(n) : n \in Missing}
<1> SUFFICES ASSUME Missing # {} PROVE FALSE
  OBVIOUS
<1>1. \A n \in Nat : Upto(n) \in SUBSET Nat /\ IsFiniteSet(Upto(n))
  BY FS_Interval
<1>2. \A m, n \in Nat : m < n => <<Upto(m), Upto(n)>> \in StrictSubsetOrdering(Nat)
  <2> SUFFICES ASSUME NEW m \in Nat, NEW n \in Nat, m < n
               PROVE  <<Upto(m), Upto(n)>> \in StrictSubsetOrdering(Nat)
    OBVIOUS
  <2>1. Upto(m) \subseteq Upto(n) /\ Upto(m) # Upto(n)
    OBVIOUS
  <2> HIDE DEF Upto
  <2> QED BY <1>1, <2>1 DEF StrictSubsetOrdering
<1>3. Missing \subseteq Nat
  OBVIOUS
<1>4. \A n \in Missing : n \in Nat /\ n - 1 \in Nat /\ n - 1 \in Missing
  OBVIOUS
<1> HIDE DEF Upto, Missing
<1>5. Below \subseteq FiniteSubsetsOf(Nat)
  BY <1>1, <1>3 DEF FiniteSubsetsOf
<1>6. Below # {}
  OBVIOUS
<1> HIDE DEF Below
<1>7. PICK x \in Below : \A y \in Below : ~(<<y, x>> \in StrictSubsetOrdering(Nat))
  BY <1>5, <1>6, FS_StrictSubsetOrderingWellFounded, WFMin
<1>8. PICK n \in Missing : x = Upto(n)
  BY <1>7 DEF Below
<1>9. Upto(n - 1) \in Below /\ <<Upto(n - 1), Upto(n)>> \in StrictSubsetOrdering(Nat)
  BY <1>2, <1>4 DEF Below
<1> QED BY <1>7, <1>8, <1>9

\* Products of integers, which the provers know little of.
LEMMA Products ==
  ASSUME NEW a \in Int, NEW b \in Int, NEW c \in Int
  PROVE  /\ a * b \in Int /\ a * b = b * a
         /\ a * (b * c) = (a * b) * c
         /\ (a + b) * c = a * c + b * c /\ (a - b) * c = a * c - b * c
BY Z3

\* Their signs.
LEMMA Signs ==
  ASSUME NEW a \in Int, NEW b \in Int
  PROVE  /\ a >= 0 /\ b >= 0 => a * b >= 0
         /\ a > 0 /\ b > 0 => a * b > 0
         /\ a <= 0 /\ b >= 0 => a * b <= 0
BY Z3

\* A positive factor cancels.
LEMMA CancelLeq ==
  ASSUME NEW a \in Int, NEW b \in Int, NEW c \in Nat \ {0}
  PROVE  /\ a * c <= b * c <=> a <= b
         /\ a * c < b * c <=> a < b
         /\ a * c = b * c <=> a = b
BY Z3

\* x is a multiple of e.
Divides(e, x) == \E k \in Nat : x = k * e

\* Euclid's algorithm.
Euclid(f) == f = [p \in Nat \X Nat |-> IF p[2] = 0 THEN p[1] ELSE f[<<p[2], p[1] % p[2]>>]]

CommonDivisors(x, y) == {e \in Nat : Divides(e, x) /\ Divides(e, y)}

\* What divides a number and its divisor is what divides the divisor and the rest.
LEMMA DividesRemainder ==
  ASSUME NEW x \in Nat, NEW y \in Nat \ {0}, NEW e \in Nat
  PROVE  Divides(e, x) /\ Divides(e, y) <=> Divides(e, y) /\ Divides(e, x % y)
<1> DEFINE q == x \div y  r == x % y
<1>1. q \in Nat /\ r \in Nat /\ x = q * y + r
  OBVIOUS
<1> HIDE DEF q, r
<1>2. ASSUME NEW j \in Nat, y = j * e, NEW k \in Nat, r = k * e PROVE Divides(e, x)
  <2>1. q * j \in Nat /\ q * y = (q * j) * e
    BY <1>1, <1>2, Products, Signs
  <2>2. x = (q * j + k) * e
    BY <1>1, <1>2, <2>1, Products
  <2> QED BY <2>1, <2>2 DEF Divides
<1>3. ASSUME NEW j \in Nat, y = j * e, NEW k \in Nat, x = k * e PROVE Divides(e, r)
  <2>1. q * j \in Nat /\ q * y = (q * j) * e
    BY <1>1, <1>3, Products, Signs
  <2>2. r = (k - q * j) * e
    BY <1>1, <1>3, <2>1, Products
  <2>3. CASE k - q * j >= 0
    BY <2>1, <2>2, <2>3 DEF Divides
  <2>4. CASE k - q * j < 0
    <3>1. (k - q * j) * e <= 0
      BY <2>1, <2>4, Signs
    <3>2. r = 0 * e
      BY <3>1, <2>2, <1>1
    <3> QED BY <3>2 DEF Divides
  <2> QED BY <2>1, <2>3, <2>4
<1> QED BY <1>2, <1>3 DEF Divides, r

\* Numbers that divide each other are the same.
LEMMA DividesEachOther ==
  ASSUME NEW x \in Nat, NEW y \in Nat, Divides(x, y), Divides(y, x)
  PROVE  x = y
<1>1. PICK j \in Nat, k \in Nat : y = j * x /\ x = k * y
  BY DEF Divides
<1>2. CASE x = 0
  BY <1>1, <1>2
<1>3. CASE x # 0 /\ y # 0
  <2>1. j # 0 /\ k # 0
    BY <1>1, <1>3
  <2>2. 1 * x <= j * x /\ 1 * y <= k * y
    BY <1>3, <2>1, CancelLeq
  <2> QED BY <1>1, <2>2
<1>4. CASE y = 0
  BY <1>1, <1>4
<1> QED BY <1>2, <1>3, <1>4

\* Euclid's algorithm ends: a function that satisfies its recursion is the one
\* that finds the number with the common divisors of the two.
LEMMA EuclidExists == \E f : Euclid(f)
<1> DEFINE f == [p \in Nat \X Nat |-> CHOOSE n \in Nat : CommonDivisors(n, 0) = CommonDivisors(p[1], p[2])]
<1>1. ASSUME NEW x \in Nat PROVE Divides(x, 0) /\ Divides(x, x)
  <2>1. 0 = 0 * x /\ x = 1 * x
    OBVIOUS
  <2> QED BY <2>1 DEF Divides
<1>2. ASSUME NEW x \in Nat, NEW n \in Nat, CommonDivisors(n, 0) = CommonDivisors(x, 0) PROVE n = x
  <2>1. x \in CommonDivisors(x, 0) /\ n \in CommonDivisors(n, 0)
    BY <1>1 DEF CommonDivisors
  <2>2. Divides(x, n) /\ Divides(n, x)
    BY <1>2, <2>1 DEF CommonDivisors
  <2> QED BY <2>2, DividesEachOther
<1>3. ASSUME NEW x \in Nat PROVE f[<<x, 0>>] = x
  <2>1. f[<<x, 0>>] = CHOOSE n \in Nat : CommonDivisors(n, 0) = CommonDivisors(x, 0)
    OBVIOUS
  <2> QED BY <1>2, <2>1
<1>4. ASSUME NEW x \in Nat, NEW y \in Nat \ {0} PROVE x % y \in Nat /\ f[<<x, y>>] = f[<<y, x % y>>]
  <2>1. CommonDivisors(x, y) = CommonDivisors(y, x % y)
    BY DividesRemainder DEF CommonDivisors
  <2>2. x % y \in Nat
    OBVIOUS
  <2>3. /\ f[<<x, y>>] = CHOOSE n \in Nat : CommonDivisors(n, 0) = CommonDivisors(x, y)
        /\ f[<<y, x % y>>] = CHOOSE n \in Nat : CommonDivisors(n, 0) = CommonDivisors(y, x % y)
    BY <2>2
  <2> QED BY <2>1, <2>2, <2>3
<1> DEFINE e == [p \in Nat \X Nat |-> IF p[2] = 0 THEN p[1] ELSE f[<<p[2], p[1] % p[2]>>]]
<1>5. f = [p \in Nat \X Nat |-> f[p]]
  OBVIOUS
<1> HIDE DEF f
<1>6. ASSUME NEW p \in Nat \X Nat PROVE f[p] = e[p]
  <2>1. PICK x \in Nat, y \in Nat : p = <<x, y>>
    OBVIOUS
  <2> QED BY <2>1, <1>3, <1>4
<1>7. f = e
  BY <1>5, <1>6
<1> QED BY <1>7 DEF Euclid

\* It finds a common divisor.
LEMMA EuclidDivides ==
  ASSUME NEW f, Euclid(f), NEW x \in Nat, NEW y \in Nat \ {0}
  PROVE  f[<<x, y>>] \in Nat \ {0} /\ Divides(f[<<x, y>>], x) /\ Divides(f[<<x, y>>], y)
<1> DEFINE Right(a, b) == f[<<a, b>>] \in Nat \ {0} /\ Divides(f[<<a, b>>], a) /\ Divides(f[<<a, b>>], b)
           S == {n \in Nat : \A a \in Nat, b \in 1 .. n : Right(a, b)}
<1>0. \A a \in Nat, b \in Nat : f[<<a, b>>] = IF b = 0 THEN a ELSE f[<<b, a % b>>]
  BY DEF Euclid
<1>1. 0 \in S
  OBVIOUS
<1>2. ASSUME NEW n \in Nat, n \in S PROVE n + 1 \in S
  <2> SUFFICES ASSUME NEW a \in Nat, NEW b \in 1 .. n + 1 PROVE Right(a, b)
    OBVIOUS
  <2>1. a % b \in 0 .. n /\ f[<<a, b>>] = f[<<b, a % b>>] /\ b \in Nat \ {0}
    BY <1>0
  <2>2. CASE a % b = 0
    <3>0. 0 \in Nat /\ f[<<b, 0>>] = b
      BY <2>1, <1>0
    <3>1. f[<<a, b>>] = b
      BY <2>1, <2>2, <3>0
    <3>2. b = 1 * b /\ 0 = 0 * b
      OBVIOUS
    <3>3. Divides(b, b) /\ Divides(b, a % b)
      BY <3>2, <2>2 DEF Divides
    <3>4. Divides(b, a)
      BY <2>1, <3>3, DividesRemainder
    <3> QED BY <2>1, <3>1, <3>3, <3>4
  <2>3. CASE a % b # 0
    <3>1. Right(b, a % b)
      BY <1>2, <2>1, <2>3
    <3>2. Divides(f[<<a, b>>], a)
      BY <2>1, <3>1, DividesRemainder
    <3> QED BY <2>1, <3>1, <3>2
  <2> QED BY <2>2, <2>3
<1> HIDE DEF S
<1>3. y \in S
  BY <1>1, <1>2, NaturalsByInduction
<1> QED BY <1>3 DEF S

\* And so does Gcd, which is the algorithm on magnitudes.
LEMMA GcdDivides ==
  ASSUME NEW a \in Int, NEW b \in Nat \ {0}
  PROVE  /\ Gcd(a, b) \in Nat \ {0}
         /\ \E j \in Int : a = j * Gcd(a, b)
         /\ \E k \in Nat : b = k * Gcd(a, b)
<1> DEFINE x == IF a < 0 THEN -a ELSE a
<1>1. x \in Nat
  OBVIOUS
<1>2. Euclid(CHOOSE f : f = [p \in Nat \X Nat |-> IF p[2] = 0 THEN p[1] ELSE f[<<p[2], p[1] % p[2]>>]])
  BY EuclidExists, Zenon DEF Euclid
<1>3. PICK f : Euclid(f) /\ Gcd(a, b) = f[<<x, b>>]
  BY <1>2, Zenon DEF Gcd
<1> HIDE DEF x
<1>4. Gcd(a, b) \in Nat \ {0} /\ Divides(Gcd(a, b), x) /\ Divides(Gcd(a, b), b)
  BY <1>1, <1>3, EuclidDivides
<1>5. PICK j \in Nat : x = j * Gcd(a, b)
  BY <1>4 DEF Divides
<1>6. PICK g \in Nat \ {0} : g = Gcd(a, b)
  BY <1>4
<1>7. a = j * g \/ a = (-j) * g
  BY <1>5, <1>6 DEF x
<1>8. j \in Int /\ -j \in Int
  OBVIOUS
<1> QED BY <1>4, <1>6, <1>7, <1>8 DEF Divides

\* A number in lowest terms is the same number.
LEMMA LowestTerms ==
  ASSUME NEW n \in Int, NEW d \in Nat \ {0}
  PROVE  Q(n, d) \in Rationals /\ Q(n, d)[1] * d = n * Q(n, d)[2]
<1> DEFINE g == Gcd(n, d)
<1>1. g \in Nat \ {0}
  BY GcdDivides
<1>2a. PICK j \in Int : n = j * g
  BY GcdDivides
<1>2b. PICK k \in Nat : d = k * g
  BY GcdDivides
<1>2. n = j * g /\ d = k * g
  BY <1>2a, <1>2b
<1>3. Q(n, d) = <<n \div g, d \div g>>
  BY DEF Q
<1> HIDE DEF g
<1>4. n \div g = j /\ d \div g = k
  <2>1. \A i \in Int : (i * g) \div g = i
    <3> SUFFICES ASSUME NEW i \in Int PROVE (i * g) \div g = i
      OBVIOUS
    <3>1. i * g \in Int /\ (i * g) % g \in 0 .. g - 1 /\ (i * g) \div g \in Int
          /\ i * g = ((i * g) \div g) * g + ((i * g) % g)
      BY <1>1, Products
    <3> QED BY <1>1, <3>1, Z3
  <2> QED BY <1>2, <2>1
<1>5. k # 0
  BY <1>1, <1>2
<1>6. j * d = n * k
  BY <1>1, <1>2, Products
<1> QED BY <1>3, <1>4, <1>5, <1>6 DEF Rationals

\* The same, by its numerator and denominator.
LEMMA InLowestTerms ==
  ASSUME NEW n \in Int, NEW d \in Nat \ {0}, NEW q, q = Q(n, d)
  PROVE  \E s \in Int, t \in Nat \ {0} : q = <<s, t>> /\ s * d = n * t
<1>1. q \in Rationals /\ q[1] * d = n * q[2]
  BY LowestTerms
<1>2. PICK s \in Int, t \in Nat \ {0} : q = <<s, t>>
  BY <1>1 DEF Rationals
<1> QED BY <1>1, <1>2

\* The product of an integer and a number.
LEMMA TimesIs ==
  ASSUME NEW n \in Int, NEW q \in Rationals
  PROVE  Times(n, q) \in Rationals /\ Times(n, q)[1] * q[2] = (n * q[1]) * Times(n, q)[2]
<1>1. PICK a \in Int, b \in Nat \ {0} : q = <<a, b>>
  BY DEF Rationals
<1>2. Times(n, q) = Q(n * a, 1 * b)
  BY <1>1 DEF Times, QMul, Int2Q
<1>3. n * a \in Int /\ 1 * b = b
  BY Products
<1>4. Q(n * a, b) \in Rationals /\ Q(n * a, b)[1] * b = (n * a) * Q(n * a, b)[2]
  BY <1>3, LowestTerms
<1> QED BY <1>1, <1>2, <1>3, <1>4

\* The least integer not below a number.
LEMMA CeilIs ==
  ASSUME NEW q \in Rationals
  PROVE  QCeil(q) \in Int /\ q[1] <= QCeil(q) * q[2] /\ (QCeil(q) - 1) * q[2] < q[1]
<1>1. PICK a \in Int, b \in Nat \ {0} : q = <<a, b>>
  BY DEF Rationals
<1>2. PICK c \in Int : c = (-a) \div b
  BY <1>1
<1>3. -a = c * b + ((-a) % b) /\ (-a) % b \in 0 .. b - 1
  BY <1>1, <1>2
<1>4. QCeil(q) = -c
  BY <1>1, <1>2 DEF QCeil
<1>5. (-c) * b = -(c * b) /\ (-c - 1) * b = -(c * b) - b
  BY <1>1, Z3
<1> QED BY <1>1, <1>3, <1>4, <1>5, Products

\* A count scaled by a number and rounded up, by products of integers alone.
LEMMA CeilTimesIs ==
  ASSUME NEW n \in Int, NEW q \in Rationals, NEW c, c = QCeil(Times(n, q))
  PROVE  c \in Int /\ n * q[1] <= c * q[2] /\ (c - 1) * q[2] < n * q[1]
<1>1. PICK a \in Int, b \in Nat \ {0} : q = <<a, b>>
  BY DEF Rationals
<1>2. PICK s \in Int, t \in Nat \ {0} : Times(n, q) = <<s, t>> /\ s * b = (n * a) * t
  BY <1>1, TimesIs DEF Rationals
<1>3. c \in Int /\ s <= c * t /\ (c - 1) * t < s
  BY <1>2, CeilIs DEF Rationals
<1>4. n * a \in Int /\ c * b \in Int /\ (c - 1) * b \in Int /\ c * t \in Int /\ (c - 1) * t \in Int
  BY <1>1, <1>2, <1>3, Products
<1>5. s * b <= (c * t) * b /\ ((c - 1) * t) * b < s * b
  BY <1>1, <1>3, <1>4, CancelLeq
<1>6. \A e \in Int : (e * t) * b = (e * b) * t
  BY <1>1, <1>2, Products
<1>7. (n * a) * t <= (c * b) * t /\ ((c - 1) * b) * t < (n * a) * t
  BY <1>2, <1>3, <1>5, <1>6
<1>8. n * a <= c * b /\ (c - 1) * b < n * a
  BY <1>4, <1>7, CancelLeq
<1> QED BY <1>1, <1>3, <1>8

\* A share of a count, rounded up, is at most the count.
LEMMA ShareIsLess ==
  ASSUME NEW n \in Nat, NEW q \in Shares
  PROVE  QCeil(Times(n, q)) \in 0 .. n
<1>1. PICK a \in Int, b \in Nat \ {0} : q = <<a, b>> /\ 0 <= a /\ a <= b
  BY DEF Rationals, Shares
<1>2. PICK c : c = QCeil(Times(n, q))
  OBVIOUS
<1>3. c \in Int /\ n * a <= c * b /\ (c - 1) * b < n * a
  BY <1>1, <1>2, CeilTimesIs DEF Shares
<1>4. n * a >= 0 /\ n * a <= n * b /\ 0 * b = 0
  BY <1>1, Z3
<1>5. 0 * b <= c * b /\ (c - 1) * b < n * b
  BY <1>1, <1>3, <1>4, Products
<1>6. 0 <= c /\ c - 1 < n
  BY <1>1, <1>3, <1>5, CancelLeq
<1> QED BY <1>2, <1>3, <1>6

\* A larger share is no less of it.
LEMMA ShareGrows ==
  ASSUME NEW n \in Nat, NEW q \in Rationals, NEW r \in Rationals, QLeq(q, r)
  PROVE  QCeil(Times(n, q)) <= QCeil(Times(n, r))
<1>1. PICK a \in Int, b \in Nat \ {0} : q = <<a, b>>
  BY DEF Rationals
<1>2. PICK u \in Int, v \in Nat \ {0} : r = <<u, v>>
  BY DEF Rationals
<1>3. a * v <= u * b
  BY <1>1, <1>2, Products DEF QLeq, QLess
<1>4. PICK c, d : c = QCeil(Times(n, q)) /\ d = QCeil(Times(n, r))
  OBVIOUS
<1>5. c \in Int /\ (c - 1) * b < n * a /\ d \in Int /\ n * u <= d * v
  BY <1>1, <1>2, <1>4, CeilTimesIs
<1>6. /\ (c - 1) * b \in Int /\ n * a \in Int /\ n * u \in Int /\ d * v \in Int
      /\ a * v \in Int /\ u * b \in Int
  BY <1>1, <1>2, <1>5, Products
<1>7. ((c - 1) * b) * v < (n * a) * v
  BY <1>2, <1>5, <1>6, CancelLeq
<1>8. (n * a) * v <= (n * u) * b
  <2>1. (n * a) * v = (a * v) * n /\ (n * u) * b = (u * b) * n
    BY <1>1, <1>2, Products
  <2>2. (a * v) * n <= (u * b) * n
    BY <1>3, <1>6, Z3
  <2> QED BY <2>1, <2>2
<1>9. (n * u) * b <= (d * v) * b
  BY <1>1, <1>5, <1>6, CancelLeq
<1>10. ((c - 1) * b) * v < (d * v) * b
  BY <1>1, <1>2, <1>6, <1>7, <1>8, <1>9, Products
<1>11. b * v \in Nat \ {0} /\ ((c - 1) * b) * v = (c - 1) * (b * v) /\ (d * v) * b = d * (b * v)
  BY <1>1, <1>2, <1>5, Products, Signs
<1>12. c - 1 < d
  BY <1>5, <1>10, <1>11, CancelLeq
<1> QED BY <1>4, <1>5, <1>12

\* The middle of two shares is a share between them.
LEMMA MiddleBetween ==
  ASSUME NEW l \in Shares, NEW u \in Shares, QLeq(l, u)
  PROVE  LET m == QMul(QAdd(l, u), Q(1, 2))
         IN  m \in Shares /\ QLeq(l, m) /\ QLeq(m, u)
<1>1. PICK a \in Int, b \in Nat \ {0} : l = <<a, b>> /\ 0 <= a /\ a <= b
  BY DEF Rationals, Shares
<1>2. PICK c \in Int, d \in Nat \ {0} : u = <<c, d>> /\ 0 <= c /\ c <= d
  BY DEF Rationals, Shares
<1>3. a * d \in Int /\ c * b \in Int /\ b * d \in Nat \ {0} /\ a * d <= c * b
  BY <1>1, <1>2, Products, Signs DEF QLeq, QLess
<1>4. PICK s \in Int, t \in Nat \ {0} : QAdd(l, u) = <<s, t>> /\ s * (b * d) = (a * d + c * b) * t
  <2>1. QAdd(l, u) = Q(a * d + c * b, b * d)
    BY <1>1, <1>2 DEF QAdd
  <2>2. PICK n \in Int, e \in Nat \ {0} : n = a * d + c * b /\ e = b * d
    BY <1>3
  <2>3. QAdd(l, u) = Q(n, e)
    BY <2>1, <2>2
  <2>4. PICK s \in Int, t \in Nat \ {0} : QAdd(l, u) = <<s, t>> /\ s * e = n * t
    BY <2>2, <2>3, InLowestTerms
  <2> QED BY <2>2, <2>4
<1>5. PICK h \in Int, k \in Nat \ {0} : Q(1, 2) = <<h, k>> /\ h * 2 = k
  BY LowestTerms DEF Rationals
<1>6. s * h \in Int /\ t * k \in Nat \ {0}
  BY <1>4, <1>5, Products, Signs
<1>7. PICK x \in Int, y \in Nat \ {0} : QMul(QAdd(l, u), Q(1, 2)) = <<x, y>> /\ x * (t * k) = (s * h) * y
  <2>1. QMul(QAdd(l, u), Q(1, 2)) = Q(s * h, t * k)
    BY <1>4, <1>5 DEF QMul
  <2>2. PICK n \in Int, e \in Nat \ {0} : n = s * h /\ e = t * k
    BY <1>6
  <2>3. QMul(QAdd(l, u), Q(1, 2)) = Q(n, e)
    BY <2>1, <2>2
  <2>4. PICK x \in Int, y \in Nat \ {0} : QMul(QAdd(l, u), Q(1, 2)) = <<x, y>> /\ x * e = n * y
    BY <2>2, <2>3, InLowestTerms
  <2> QED BY <2>2, <2>4
\* the halves cancel
<1>8. (2 * x) * t = s * y
  <2>1. h \in Nat \ {0}
    BY <1>5
  <2>2. x * (t * k) = ((2 * x) * t) * h /\ (s * h) * y = (s * y) * h
    BY <1>4, <1>5, <1>7, Products
  <2>3. (2 * x) * t \in Int /\ s * y \in Int
    BY <1>4, <1>7, Products
  <2> QED BY <1>7, <2>1, <2>2, <2>3, CancelLeq
<1>9. (2 * x) * (b * d) = (a * d + c * b) * y
  <2>1. ((2 * x) * t) * (b * d) = (s * y) * (b * d)
    BY <1>8
  <2>2. ((2 * x) * t) * (b * d) = ((2 * x) * (b * d)) * t
    BY <1>3, <1>4, <1>7, Products
  <2>3. (s * y) * (b * d) = (s * (b * d)) * y
    BY <1>3, <1>4, <1>7, Products
  <2>4. ((a * d + c * b) * t) * y = ((a * d + c * b) * y) * t
    BY <1>3, <1>4, <1>7, Products
  <2>5. (2 * x) * (b * d) \in Int /\ (a * d + c * b) * y \in Int
    BY <1>3, <1>7, Products
  <2> QED BY <1>4, <2>1, <2>2, <2>3, <2>4, <2>5, CancelLeq
<1>10. (a * d) * y <= x * (b * d) /\ x * (b * d) <= (c * b) * y
  <2>1. (a * d + c * b) * y = (a * d) * y + (c * b) * y /\ (a * d) * y <= (c * b) * y
    BY <1>3, <1>7, Products, CancelLeq
  <2>2. (2 * x) * (b * d) = 2 * (x * (b * d))
    BY <1>3, <1>7, Products
  <2>3. x * (b * d) \in Int /\ (a * d) * y \in Int /\ (c * b) * y \in Int
    BY <1>3, <1>7, Products
  <2> QED BY <1>9, <2>1, <2>2, <2>3
<1>11. a * y <= x * b
  <2>1. (a * d) * y = (a * y) * d /\ x * (b * d) = (x * b) * d
    BY <1>1, <1>2, <1>7, Products
  <2> QED BY <1>1, <1>2, <1>7, <1>10, <2>1, Products, CancelLeq
<1>12. x * d <= c * y
  <2>1. (c * b) * y = (c * y) * b /\ x * (b * d) = (x * d) * b
    BY <1>1, <1>2, <1>7, Products
  <2> QED BY <1>1, <1>2, <1>7, <1>10, <2>1, Products, CancelLeq
<1>13. 0 <= x
  <2>1. 0 <= a * y /\ 0 * b = 0
    BY <1>1, <1>7, Signs
  <2>2. 0 * b <= x * b
    BY <1>1, <1>7, <1>11, <2>1, Products
  <2> QED BY <1>1, <1>7, <2>2, CancelLeq
<1>14. x <= y
  <2>1. c * y <= d * y /\ d * y = y * d
    BY <1>2, <1>7, Products, CancelLeq
  <2>2. x * d <= y * d
    BY <1>2, <1>7, <1>12, <2>1, Products
  <2> QED BY <1>2, <1>7, <2>2, CancelLeq
<1>15. PICK m : m = <<x, y>>
  OBVIOUS
<1>16. m \in Shares /\ QLeq(l, m) /\ QLeq(m, u)
  BY <1>1, <1>2, <1>7, <1>11, <1>12, <1>13, <1>14, <1>15, Products DEF Shares, Rationals, QLeq, QLess
<1> QED BY <1>7, <1>15, <1>16

\* The element a sum over a set is continued with, as the folds choose it.
Some(s) == CHOOSE x \in s : TRUE

\* The recursion of a sum: h maps the parts of S to the sums of F over them.
Summed(h, S, F) ==
  h = [s \in SUBSET S |-> IF s = {} THEN 0 ELSE F[Some(s)] + h[s \ {Some(s)}]]

\* It is one of the set.
LEMMA SomeIs == ASSUME NEW s, s # {} PROVE Some(s) \in s
BY DEF Some

\* The sum goes on over a smaller set.
LEMMA Smaller ==
  ASSUME NEW S, IsFiniteSet(S), NEW s \in SUBSET S, NEW x \in s
  PROVE  /\ IsFiniteSet(s) /\ Cardinality(s) \in Nat \ {0}
         /\ s \ {x} \in SUBSET S /\ Cardinality(s \ {x}) = Cardinality(s) - 1
<1>1. IsFiniteSet(s) /\ Cardinality(s) \in Nat
  BY FS_Subset, FS_CardinalityType
<1>2. Cardinality(s) # 0
  BY <1>1, FS_EmptySet
<1> QED BY <1>1, <1>2, FS_RemoveElement

\* Only the empty set has no elements.
LEMMA Counted ==
  ASSUME NEW S, IsFiniteSet(S), NEW s \in SUBSET S
  PROVE  Cardinality(s) \in Nat /\ (Cardinality(s) <= 0 <=> s = {})
<1>1. IsFiniteSet(s)
  BY FS_Subset
<1> QED BY <1>1, FS_CardinalityType, FS_EmptySet

\* A finite sum is defined, by induction on the size of the parts ...
LEMMA SummedExists ==
  ASSUME NEW S, IsFiniteSet(S), NEW F, \A x \in S : F[x] \in Nat
  PROVE  \E h : Summed(h, S, F)
<1> DEFINE Upto(n) == {s \in SUBSET S : Cardinality(s) <= n}
           Sums(h, n) == h = [s \in Upto(n) |-> IF s = {} THEN 0 ELSE F[Some(s)] + h[s \ {Some(s)}]]
           N == {n \in Nat : \E h : Sums(h, n)}
<1>1. ASSUME NEW s \in SUBSET S, s # {}
      PROVE  /\ Some(s) \in s /\ s \ {Some(s)} \in SUBSET S
             /\ Cardinality(s) \in Nat \ {0} /\ Cardinality(s \ {Some(s)}) = Cardinality(s) - 1
  BY <1>1, SomeIs, Smaller
<1>2. Cardinality({}) = 0
  BY FS_EmptySet
<1>3. 0 \in N
  <2>1. Upto(0) = {{}}
    <3>1. \A s \in SUBSET S : Cardinality(s) <= 0 <=> s = {}
      BY Counted
    <3> QED BY <3>1
  <2> DEFINE h == [s \in Upto(0) |-> 0]
  <2>2. \A s \in Upto(0) : s = {}
    BY <2>1
  <2> HIDE DEF Upto
  <2>3. h = [s \in Upto(0) |-> IF s = {} THEN 0 ELSE F[Some(s)] + h[s \ {Some(s)}]]
    BY <2>2
  <2> QED BY <2>3
<1>4. ASSUME NEW n \in Nat, n \in N PROVE n + 1 \in N
  <2>1. PICK h : Sums(h, n)
    BY <1>4
  <2> DEFINE Once(s) == IF s = {} THEN 0 ELSE F[Some(s)] + h[s \ {Some(s)}]
             g == [s \in Upto(n + 1) |-> IF s \in Upto(n) THEN h[s] ELSE Once(s)]
  <2>2. \A s \in Upto(n) : h[s] = Once(s)
    BY <2>1
  <2>3. \A s \in Upto(n + 1) : s # {} => s \ {Some(s)} \in Upto(n)
    BY <1>1
  <2>4. Upto(n) \subseteq Upto(n + 1)
    <3> SUFFICES ASSUME NEW s \in Upto(n) PROVE s \in Upto(n + 1)
      OBVIOUS
    <3>1. Cardinality(s) \in Nat
      BY Counted
    <3> QED BY <3>1
  <2> HIDE DEF Upto
  <2>5. \A s \in Upto(n) : g[s] = h[s]
    BY <2>4
  <2>6. \A s \in Upto(n + 1) : g[s] = Once(s)
    BY <2>2
  <2>7. \A s \in Upto(n + 1) : g[s] = IF s = {} THEN 0 ELSE F[Some(s)] + g[s \ {Some(s)}]
    <3> SUFFICES ASSUME NEW s \in Upto(n + 1), s # {}
                 PROVE  g[s] = F[Some(s)] + g[s \ {Some(s)}]
      BY <2>6
    <3>1. g[s \ {Some(s)}] = h[s \ {Some(s)}]
      BY <2>3, <2>5
    <3> HIDE DEF g
    <3> QED BY <2>6, <3>1
  <2>8. g = [s \in Upto(n + 1) |-> g[s]]
    OBVIOUS
  <2> HIDE DEF g
  <2>9. Sums(g, n + 1)
    BY <2>7, <2>8
  <2> QED BY <2>9
<1> HIDE DEF N
<1>5. Cardinality(S) \in N
  BY <1>3, <1>4, NaturalsByInduction, FS_CardinalityType
<1>6. Upto(Cardinality(S)) = SUBSET S
  BY FS_Subset
<1> HIDE DEF Upto
<1> QED BY <1>5, <1>6 DEF N, Summed

\* ... and it is the same whichever element it is continued with.
LEMMA SummedIs ==
  ASSUME NEW S, IsFiniteSet(S), NEW F, \A x \in S : F[x] \in Nat, NEW h, Summed(h, S, F)
  PROVE  h[{}] = 0 /\ \A s \in SUBSET S : h[s] \in Nat /\ \A x \in s : h[s] = F[x] + h[s \ {x}]
<1> DEFINE Right(s) == h[s] \in Nat /\ \A x \in s : h[s] = F[x] + h[s \ {x}]
           N == {n \in Nat : \A s \in SUBSET S : Cardinality(s) <= n => Right(s)}
<1>1. \A s \in SUBSET S : h[s] = IF s = {} THEN 0 ELSE F[Some(s)] + h[s \ {Some(s)}]
  BY DEF Summed
<1>2. h[{}] = 0 /\ Right({})
  <2>1. {} \in SUBSET S
    OBVIOUS
  <2>2. h[{}] = 0
    BY <1>1, <2>1
  <2> QED BY <2>2
<1>3. \A s \in SUBSET S : Cardinality(s) \in Nat /\ (Cardinality(s) <= 0 => s = {})
  BY Counted
<1>4. 0 \in N
  BY <1>2, <1>3
<1>5. ASSUME NEW n \in Nat, n \in N PROVE n + 1 \in N
  <2> SUFFICES ASSUME NEW s \in SUBSET S, Cardinality(s) <= n + 1, s # {} PROVE Right(s)
    <3> HIDE DEF Right
    <3> QED BY <1>2
  <2>1. PICK c : c = Some(s)
    OBVIOUS
  <2>2. c \in s /\ h[s] = F[c] + h[s \ {c}]
    BY <1>1, <2>1, SomeIs
  <2>3. \A x \in s : s \ {x} \in SUBSET S /\ Cardinality(s \ {x}) <= n
    BY <1>3, Smaller
  <2>4. \A x \in s : Right(s \ {x})
    BY <1>5, <2>3
  <2>5. h[s] \in Nat
    BY <2>2, <2>4
  <2>6. ASSUME NEW x \in s, x # c PROVE h[s] = F[x] + h[s \ {x}]
    <3>1. h[s \ {c}] = F[x] + h[(s \ {c}) \ {x}] /\ h[s \ {x}] = F[c] + h[(s \ {x}) \ {c}]
      BY <2>2, <2>4, <2>6
    <3>2. (s \ {c}) \ {x} = (s \ {x}) \ {c}
      OBVIOUS
    <3>3. PICK r : r = h[(s \ {c}) \ {x}]
      OBVIOUS
    <3>4. r \in Nat
      <4>1. (s \ {c}) \ {x} \in SUBSET (s \ {c}) /\ IsFiniteSet(s \ {c})
        BY <2>2, FS_Subset
      <4>2. (s \ {c}) \ {x} \in SUBSET S /\ Cardinality((s \ {c}) \ {x}) <= Cardinality(s \ {c})
        BY <4>1, FS_Subset
      <4>3. Cardinality(s \ {c}) <= n /\ Cardinality(s \ {c}) \in Nat /\ Cardinality((s \ {c}) \ {x}) \in Nat
        BY <1>3, <2>2, <2>3, <4>2
      <4>4. Cardinality((s \ {c}) \ {x}) <= n
        BY <4>2, <4>3
      <4> QED BY <1>5, <3>3, <4>2, <4>4
    <3>5. F[x] \in Nat /\ F[c] \in Nat
      BY <2>2
    <3>6. PICK a, b : a = h[s \ {c}] /\ b = h[s \ {x}]
      OBVIOUS
    <3>7. a = F[x] + r /\ b = F[c] + r /\ h[s] = F[c] + a
      BY <2>2, <3>1, <3>2, <3>3, <3>6
    <3>8. h[s] = F[x] + b
      BY <3>4, <3>5, <3>7
    <3> QED BY <3>6, <3>8
  <2> QED BY <2>2, <2>5, <2>6
<1> HIDE DEF N
<1>6. Cardinality(S) \in N /\ \A s \in SUBSET S : Cardinality(s) <= Cardinality(S)
  BY <1>4, <1>5, NaturalsByInduction, FS_CardinalityType, FS_Subset
<1> QED BY <1>2, <1>6 DEF N

\* A sum over fewer things, none of which is more, is not more.
LEMMA SumsCompare ==
  ASSUME NEW S, IsFiniteSet(S), NEW T \in SUBSET S,
         NEW F, \A x \in T : F[x] \in Nat, NEW f, Summed(f, T, F),
         NEW G, \A x \in S : G[x] \in Nat, NEW g, Summed(g, S, G),
         \A x \in T : F[x] <= G[x]
  PROVE  f[T] <= g[S]
<1> DEFINE N == {n \in Nat : \A s \in SUBSET S : Cardinality(s) <= n => f[s \cap T] <= g[s]}
<1>1. IsFiniteSet(T)
  BY FS_Subset
<1>2. /\ f[{}] = 0 /\ g[{}] = 0
      /\ \A s \in SUBSET T : f[s] \in Nat /\ \A x \in s : f[s] = F[x] + f[s \ {x}]
  BY <1>1, SummedIs
<1>3. \A s \in SUBSET S : g[s] \in Nat /\ \A x \in s : g[s] = G[x] + g[s \ {x}]
  BY SummedIs
<1>4. 0 \in N
  <2> SUFFICES ASSUME NEW s \in SUBSET S, Cardinality(s) <= 0 PROVE f[s \cap T] <= g[s]
    OBVIOUS
  <2>1. s = {} /\ s \cap T = {}
    BY Counted
  <2> QED BY <1>2, <2>1
<1>5. ASSUME NEW n \in Nat, n \in N PROVE n + 1 \in N
  <2> SUFFICES ASSUME NEW s \in SUBSET S, Cardinality(s) <= n + 1 PROVE f[s \cap T] <= g[s]
    OBVIOUS
  <2>0. CASE s = {}
    <3>1. s \cap T = {}
      BY <2>0
    <3> QED BY <1>2, <2>0, <3>1
  <2> SUFFICES ASSUME s # {} PROVE f[s \cap T] <= g[s]
    BY <2>0
  <2>1. PICK x : x \in s
    OBVIOUS
  <2>2. s \ {x} \in SUBSET S /\ Cardinality(s \ {x}) <= n
    BY <2>1, Smaller
  <2>3. f[(s \ {x}) \cap T] <= g[s \ {x}]
    BY <1>5, <2>2
  <2>4. g[s] = G[x] + g[s \ {x}] /\ g[s \ {x}] \in Nat /\ G[x] \in Nat
    BY <1>3, <2>1, <2>2
  <2>5. CASE x \in T
    <3>1. x \in s \cap T /\ (s \cap T) \ {x} = (s \ {x}) \cap T /\ s \cap T \in SUBSET T
      BY <2>1, <2>5
    <3>2. f[s \cap T] = F[x] + f[(s \ {x}) \cap T]
      BY <1>2, <3>1
    <3>3. (s \ {x}) \cap T \in SUBSET T
      OBVIOUS
    <3>4. f[(s \ {x}) \cap T] \in Nat /\ F[x] \in Nat /\ F[x] <= G[x]
      BY <1>2, <2>5, <3>3
    <3> QED BY <2>3, <2>4, <3>2, <3>4
  <2>6. CASE x \notin T
    <3>1. s \cap T = (s \ {x}) \cap T /\ s \cap T \in SUBSET T
      BY <2>6
    <3>2. PICK a, b : a = f[s \cap T] /\ b = g[s \ {x}]
      OBVIOUS
    <3>3. a \in Nat /\ a <= b /\ b \in Nat /\ g[s] = G[x] + b
      BY <1>2, <2>3, <2>4, <3>1, <3>2
    <3> QED BY <2>4, <3>2, <3>3
  <2> QED BY <2>5, <2>6
<1> HIDE DEF N
<1>6. Cardinality(S) \in N
  BY <1>4, <1>5, NaturalsByInduction, FS_CardinalityType
<1>7. S \cap T = T /\ Cardinality(S) <= Cardinality(S)
  BY FS_CardinalityType
<1> QED BY <1>6, <1>7 DEF N

\* The check counts the zeros of such a tile, the evaluation does not.
Exempt(tile) == tile.has_metadata /\ ~tile.compressed

\* What the pre-evaluation check counts of a tile.
Required(tile, confidence) ==
  IF tile.compressed THEN GetMaxDataTileOccupancyByConfidence(tile, confidence)
  ELSE QCeil(Times(tile.shape, confidence))

\* Shares are ordered, up to the whole.
LEMMA SharesCompare ==
  ASSUME NEW q \in Shares
  PROVE  /\ Int2Q(1) \in Shares /\ QLeq(q, q) /\ QLeq(q, Int2Q(1))
         /\ \A r \in Shares, s \in Shares : QLeq(q, r) /\ QLeq(r, s) => QLeq(q, s)
<1>1. PICK a \in Int, b \in Nat \ {0} : q = <<a, b>> /\ 0 <= a /\ a <= b
  BY DEF Rationals, Shares
<1>2. Int2Q(1) \in Shares
  BY DEF Int2Q, Rationals, Shares
<1>3. QLeq(q, q) /\ QLeq(q, Int2Q(1))
  BY <1>1 DEF QLeq, QLess, Int2Q
<1>4. ASSUME NEW r \in Shares, NEW s \in Shares, QLeq(q, r), QLeq(r, s) PROVE QLeq(q, s)
  <2>1. PICK c \in Int, d \in Nat \ {0} : r = <<c, d>>
    BY DEF Rationals, Shares
  <2>2. PICK e \in Int, f \in Nat \ {0} : s = <<e, f>>
    BY DEF Rationals, Shares
  <2>3. a * d <= c * b /\ c * f <= e * d
    BY <1>1, <1>4, <2>1, <2>2, Products DEF QLeq, QLess
  <2>4. /\ a * d \in Int /\ c * b \in Int /\ c * f \in Int /\ e * d \in Int
        /\ a * f \in Int /\ e * b \in Int
    BY <1>1, <2>1, <2>2, Products
  <2>5. (a * d) * f <= (c * b) * f /\ (c * f) * b <= (e * d) * b
    BY <1>1, <2>2, <2>3, <2>4, CancelLeq
  <2>6. (a * d) * f = (a * f) * d /\ (c * b) * f = (c * f) * b /\ (e * d) * b = (e * b) * d
    BY <1>1, <2>1, <2>2, Products
  <2>7. (a * f) * d <= (e * b) * d
    BY <2>4, <2>5, <2>6, <1>1, <2>1, <2>2, Products
  <2>8. a * f <= e * b
    BY <2>1, <2>4, <2>7, CancelLeq
  <2> QED BY <1>1, <2>2, <2>4, <2>8, Products DEF QLeq, QLess
<1> QED BY <1>2, <1>3, <1>4

\* A tile holds no less with a higher confidence.
LEMMA TileGrows ==
  ASSUME NEW tile, IsTile(tile), NEW q \in Shares, NEW r \in Shares, QLeq(q, r)
  PROVE  /\ GetMaxDataTileOccupancyByConfidence(tile, q) \in Nat
         /\ GetMaxDataTileOccupancyByConfidence(tile, q) <= GetMaxDataTileOccupancyByConfidence(tile, r)
<1>1. CASE ~tile.compressed /\ ~tile.has_metadata
  BY <1>1 DEF GetMaxDataTileOccupancyByConfidence, IsTile
<1>2. CASE tile.compressed \/ tile.has_metadata
  <2>1. PICK n \in Nat \ {0} : n = Len(tile.occupancies) /\ DOMAIN tile.occupancies = 1 .. n
    BY <1>2 DEF IsTile
  <2> DEFINE index(s) == LET rank == QCeil(Times(n, s)) IN IF rank < 1 THEN 1 ELSE rank
  <2>2. /\ GetMaxDataTileOccupancyByConfidence(tile, q) = tile.occupancies[index(q)]
        /\ GetMaxDataTileOccupancyByConfidence(tile, r) = tile.occupancies[index(r)]
    BY <1>2, <2>1 DEF GetMaxDataTileOccupancyByConfidence
  <2>3. PICK j, k : j = QCeil(Times(n, q)) /\ k = QCeil(Times(n, r))
    OBVIOUS
  <2>4. j \in 0 .. n /\ k \in 0 .. n /\ j <= k
    BY <2>1, <2>3, ShareIsLess, ShareGrows DEF Shares
  <2>5. index(q) \in 1 .. n /\ index(r) \in 1 .. n /\ index(q) <= index(r)
    BY <2>1, <2>3, <2>4
  <2> HIDE DEF index
  <2>6. tile.occupancies[index(q)] \in Nat
    BY <1>2, <2>1, <2>5 DEF IsTile
  <2>7. tile.occupancies[index(q)] <= tile.occupancies[index(r)]
    BY <1>2, <2>1, <2>5 DEF IsTile
  <2> QED BY <2>2, <2>6, <2>7
<1> QED BY <1>1, <1>2

\* What the check counts of a tile is no more than it holds with a confidence
\* no lower, unless it is exempt.
LEMMA RequiredIsHeld ==
  ASSUME NEW tile, IsTile(tile), NEW q \in Shares, NEW r \in Shares, QLeq(q, r)
  PROVE  /\ Required(tile, q) \in Nat
         /\ ~Exempt(tile) => Required(tile, q) <= GetMaxDataTileOccupancyByConfidence(tile, r)
<1>1. CASE tile.compressed
  BY <1>1, TileGrows DEF Required, Exempt
<1>2. CASE ~tile.compressed
  <2>1. PICK n \in Nat : n = tile.shape
    BY DEF IsTile
  <2>2. Required(tile, q) \in 0 .. n
    BY <1>2, <2>1, ShareIsLess DEF Required
  <2>3. ~Exempt(tile) => GetMaxDataTileOccupancyByConfidence(tile, r) = n
    BY <1>2, <2>1 DEF Exempt, GetMaxDataTileOccupancyByConfidence
  <2> QED BY <2>1, <2>2, <2>3
<1> QED BY <1>1, <1>2

\* The confidence asked for is a share, of one mapping or the whole.
LEMMA ConstraintIsShare ==
  ASSUME NEW m \in Mappings, NEW l \in Storage, NEW specs
  PROVE  ConfidenceConstraint(specs, m.thresholds[l]) \in Shares
BY MappingsAssumption, SharesCompare DEF MappingsAssumption, ConfidenceConstraint

\* The capacity the check requires is the sum over the data spaces kept.
LEMMA RequiredSummed ==
  ASSUME NEW specs, NEW tiles, NEW mask, IsFiniteSet(mask), NEW threshold, NEW F,
         \A pv \in mask : F[pv] = Required(tiles[pv], ConfidenceConstraint(specs, threshold)) /\ F[pv] \in Nat
  PROVE  \E h : Summed(h, mask, F) /\ RequiredCapacity(specs, tiles, mask, threshold) = h[mask]
<1> DEFINE D == mask
           R(pv) == IF tiles[pv].compressed
                      THEN GetMaxDataTileOccupancyByConfidence(tiles[pv], ConfidenceConstraint(specs, threshold))
                      ELSE QCeil(Times(tiles[pv].shape, ConfidenceConstraint(specs, threshold)))
           Is(h) == h = [s \in SUBSET D |-> IF s = {} THEN 0 ELSE R(CHOOSE x \in s : TRUE)
                                                                   + h[s \ {CHOOSE x \in s : TRUE}]]
<1>0. \A pv \in mask : F[pv] = R(pv)
  BY DEF Required
<1>1. PICK h : Summed(h, D, F)
  BY SummedExists
<1>4. RequiredCapacity(specs, tiles, mask, threshold) = (CHOOSE f : Is(f))[D]
  BY Zenon DEF RequiredCapacity, MapThenSumSet, MapThenFoldSet
<1> HIDE DEF R
<1>2. \A f : Is(f) <=> Summed(f, D, F)
  <2>1. \A s \in SUBSET D : s # {} => (CHOOSE x \in s : TRUE) \in D
    OBVIOUS
  <2>2. \A s \in SUBSET D : s # {} => R(CHOOSE x \in s : TRUE) = F[Some(s)]
    BY <1>0, <2>1 DEF Some
  <2>3. ASSUME NEW f PROVE [s \in SUBSET D |-> IF s = {} THEN 0 ELSE R(CHOOSE x \in s : TRUE)
                                                                   + f[s \ {CHOOSE x \in s : TRUE}]]
                         = [s \in SUBSET D |-> IF s = {} THEN 0 ELSE F[Some(s)] + f[s \ {Some(s)}]]
    BY <2>2 DEF Some
  <2> QED BY <2>3 DEF Summed
<1>3. Is(CHOOSE f : Is(f))
  <2>1. Is(h)
    BY <1>1, <1>2
  <2> QED BY <2>1, Zenon
<1>5. Summed(CHOOSE f : Is(f), D, F)
  BY <1>2, <1>3
<1> QED BY <1>4, <1>5

\* The capacity and metadata of the evaluation are sums over all data spaces.
LEMMA SumOverIs ==
  ASSUME IsFiniteSet(DataSpaces), NEW F, \A x \in DataSpaces : F[x] \in Nat
  PROVE \E h : Summed(h, DataSpaces, F) /\ SumOver(F) = h[DataSpaces]
<1> DEFINE D == DataSpaces
           Is(h) == h = [s \in SUBSET D |-> IF s = {} THEN 0 ELSE F[CHOOSE x \in s : TRUE]
                                                                   + h[s \ {CHOOSE x \in s : TRUE}]]
<1>1. PICK h : Summed(h, D, F)
  BY SummedExists
<1>2. Is(h)
  BY <1>1 DEF Summed, Some
<1>3. Is(CHOOSE f : Is(f))
  BY <1>2, Zenon
<1>4. SumOver(F) = (CHOOSE f : Is(f))[D]
  BY Zenon DEF SumOver, SumFunctionOnSet, FoldFunctionOnSet, MapThenFoldSet
<1>5. Summed(CHOOSE f : Is(f), D, F)
  BY <1>3 DEF Summed, Some
<1> QED BY <1>4, <1>5

\* The topology keeps the counts of the attributes: tables price a level only.
LEMMA LevelsCount ==
  ASSUME NEW l \in Storage
  PROVE  /\ Topology.levels[l].instances \in Nat \ {0}
         /\ Topology.levels[l].size # {} => The(Topology.levels[l].effective_size) \in Int
<1> DEFINE a == StorageAttributes[l]
           specs == Topology.levels[l]
<1>1. l # Arithmetic /\ Attributes(l) = a
  BY LevelsAssumption DEF LevelsAssumption, Storage, Arithmetic, Attributes
<1>2. specs = StorageWithTables(ParseSpecs(a, Elements(l)))
  <2>1. Topology.levels = [k \in {Arithmetic} \cup Storage |->
          IF k = Arithmetic THEN ArithmeticWithTables(ArithmeticSpecs(ArithmeticAttributes, Elements(k)))
          ELSE StorageWithTables(ParseSpecs(StorageAttributes[k], Elements(k)))]
    BY DEF Topology, Specced, Connected
  <2> QED BY <1>1, <2>1
<1>3. /\ specs.size = Size(a)
      /\ specs.effective_size = {Effective(n, a) : n \in Size(a)}
      /\ specs.instances = Instances(a, Elements(l))
  <2>1. PICK parsed : parsed = ParseSpecs(a, Elements(l))
    OBVIOUS
  <2>2. /\ parsed.size = Size(a)
        /\ parsed.effective_size = {Effective(n, a) : n \in Size(a)}
        /\ parsed.instances = Instances(a, Elements(l))
        /\ {"size", "effective_size", "instances"} \subseteq DOMAIN parsed
    BY <2>1 DEF ParseSpecs
  <2>3. PICK tabled : /\ tabled = IF parsed.name \in DOMAIN EnergyTables
                                    THEN UpdateOpEnergyViaERT(parsed, ERTOf(parsed.name)) ELSE parsed
    OBVIOUS
  <2>4. /\ \A field \in {"size", "effective_size", "instances"} :
              field \in DOMAIN tabled /\ tabled[field] = parsed[field]
    BY <2>2, <2>3 DEF UpdateOpEnergyViaERT
  <2>5. specs = [tabled EXCEPT !.storage_area = Or(Look(AreaTables, <<parsed.name>>), @)]
    BY <1>2, <2>1, <2>3 DEF StorageWithTables
  <2> QED BY <2>2, <2>4, <2>5
<1>4. /\ Size(a) \subseteq Nat /\ Buffering(a) \in Rationals /\ Buffering(a)[1] > 0
      /\ Instances(a, Elements(l)) \in Nat \ {0}
  BY <1>1, SizesAssumption DEF SizesAssumption
<1>5. ASSUME NEW n \in Nat PROVE Effective(n, a) \in Int
  <2>1. PICK c \in Nat \ {0}, d \in Nat \ {0} : Buffering(a) = <<c, d>>
    BY <1>4 DEF Rationals
  <2>2. QDiv(Int2Q(n), Buffering(a)) = Q(n * d, 1 * c)
    BY <2>1 DEF QDiv, Int2Q
  <2>3. n * d \in Int /\ 1 * c = c
    BY <2>1, Products
  <2>4. PICK s \in Int, t \in Nat \ {0} : QDiv(Int2Q(n), Buffering(a)) = <<s, t>>
    BY <2>1, <2>2, <2>3, InLowestTerms
  <2> QED BY <2>4 DEF Effective, QTrunc
<1>6. ASSUME specs.size # {} PROVE The(specs.effective_size) \in specs.effective_size
  <2>1. specs.effective_size # {}
    BY <1>3, <1>6
  <2> QED BY <2>1 DEF The
<1> QED BY <1>3, <1>4, <1>5, <1>6

\* A level that holds what the evaluation settled on has room for what the
\* check counts.
LEMMA HeldIsRoomy ==
  ASSUME NEW specs, specs.size # {}, The(specs.effective_size) \in Int,
         NEW m \in Mappings, NEW l \in Storage, NEW occ,
         CapacityFits(specs, occ), ConfidenceSuffices(specs, occ, m.thresholds[l]),
         \A pv \in DataSpaces :
           /\ occ[pv].data_tile_size \in Nat
           /\ ~Exempt(m.tiles[l][pv])
                => Required(m.tiles[l][pv], ConfidenceConstraint(specs, m.thresholds[l])) <= occ[pv].data_tile_size,
         \A pv \in m.masks[l] : ~Exempt(m.tiles[l][pv])
  PROVE  RequiredCapacity(specs, m.tiles[l], m.masks[l], m.thresholds[l]) \in Nat
         /\ RequiredCapacity(specs, m.tiles[l], m.masks[l], m.thresholds[l]) <= The(specs.effective_size)
<1> DEFINE confidence == ConfidenceConstraint(specs, m.thresholds[l])
           G == [pv \in DataSpaces |-> occ[pv].data_tile_size]
           F == [pv \in m.masks[l] |-> Required(m.tiles[l][pv], confidence)]
<1>1. /\ IsFiniteSet(DataSpaces) /\ m.masks[l] \subseteq DataSpaces
      /\ \A pv \in DataSpaces : IsTile(m.tiles[l][pv])
  BY MappingsAssumption DEF MappingsAssumption
<1>2. IsFiniteSet(m.masks[l])
  BY <1>1, FS_Subset
<1>3. confidence \in Shares /\ QLeq(confidence, confidence)
  BY ConstraintIsShare, SharesCompare
<1>4. \A pv \in m.masks[l] : F[pv] \in Nat /\ F[pv] = Required(m.tiles[l][pv], confidence) /\ F[pv] <= G[pv]
  BY <1>1, <1>3, RequiredIsHeld
<1>5. \A pv \in DataSpaces : G[pv] \in Nat
  OBVIOUS
<1>6. CapacityOf(occ) = SumOver(G)
  BY DEF CapacityOf
<1> HIDE DEF F, G
<1>7. PICK f : /\ Summed(f, m.masks[l], F)
               /\ RequiredCapacity(specs, m.tiles[l], m.masks[l], m.thresholds[l]) = f[m.masks[l]]
  BY <1>2, <1>4, RequiredSummed
<1>8. PICK g : Summed(g, DataSpaces, G) /\ SumOver(G) = g[DataSpaces]
  BY <1>1, <1>5, SumOverIs
<1>9. f[m.masks[l]] <= g[DataSpaces]
  BY <1>1, <1>4, <1>5, <1>7, <1>8, SumsCompare
<1>10. f[m.masks[l]] \in Nat /\ g[DataSpaces] \in Nat
  <2>1. f[m.masks[l]] \in Nat
    BY <1>2, <1>4, <1>7, SummedIs
  <2>2. g[DataSpaces] \in Nat
    BY <1>1, <1>5, <1>8, SummedIs
  <2> QED BY <2>1, <2>2
<1>11. CapacityOf(occ) <= The(specs.effective_size)
  BY DEF CapacityFits, ConfidenceSuffices
<1> QED BY <1>6, <1>7, <1>8, <1>9, <1>10, <1>11

\* More instances have more capacity, unless there is none.
LEMMA Multiplied ==
  ASSUME NEW a \in Int, NEW n \in Nat \ {0}
  PROVE  a * n \in Int /\ (a >= 0 => a <= a * n)
<1>1. a >= 0 => a * (n - 1) >= 0
  BY Signs
<1>2. a * n \in Int /\ a * (n - 1) = a * n - a
  BY Z3
<1> QED BY <1>1, <1>2

\* More than the instances together have is more than one of them has.
LEMMA CapacityExceeded ==
  ASSUME NEW required \in Nat, NEW effective \in Int, NEW n \in Nat \ {0}, NEW distributed,
         required > (IF distributed THEN effective * n ELSE effective)
  PROVE  required > effective
<1>1. effective * n \in Int /\ (effective >= 0 => effective <= effective * n)
  BY Multiplied
<1>2. CASE effective >= 0
  BY <1>1, <1>2
<1>3. CASE effective < 0
  BY <1>3
<1> QED BY <1>2, <1>3

\* What the check finds too large is more than the level has room for.
LEMMA TooLargeIs ==
  ASSUME NEW specs, NEW tiles, NEW mask, NEW threshold, NEW distributed,
         specs.instances \in Nat \ {0}, specs.size # {} => The(specs.effective_size) \in Int,
         RequiredCapacity(specs, tiles, mask, threshold) \in Nat,
         PreEvaluationCheck(specs, tiles, mask, threshold, distributed) = "too large"
  PROVE  specs.size # {} /\ RequiredCapacity(specs, tiles, mask, threshold) > The(specs.effective_size)
<1>1. PICK required, effective, n, small :
        /\ required = RequiredCapacity(specs, tiles, mask, threshold) /\ n = specs.instances
        /\ effective = The(specs.effective_size)
        /\ small = IF QLeq(Times(effective, specs.min_utilization), Int2Q(required)) THEN "passed" ELSE "too small"
  OBVIOUS
<1>2. "too large" =
        CASE specs.size = {} -> "passed"
          [] specs.size # {} /\ required > (IF distributed THEN effective * n ELSE effective) -> "too large"
          [] OTHER -> small
  BY <1>1, Zenon DEF PreEvaluationCheck
<1>3. specs.size # {}
  BY <1>2
<1>4. required \in Nat /\ effective \in Int /\ n \in Nat \ {0}
  BY <1>1, <1>3
<1>5. PICK available : available = IF distributed THEN effective * n ELSE effective
  OBVIOUS
<1>6. available \in Int
  BY <1>4, <1>5, Multiplied
<1>7. small \in {"passed", "too small"}
  BY <1>1
<1>8. required > available
  BY <1>2, <1>5, <1>7
<1>9. required > effective
  BY <1>4, <1>5, <1>8, CapacityExceeded
<1> QED BY <1>1, <1>3, <1>9

\* What is settled on for a tile of the level: no less than the check counts.
Enough(pv, o) ==
  /\ "data_tile_size" \in DOMAIN o /\ o.data_tile_size \in Nat
  /\ Specs[at].size # {} /\ ~Exempt(Tiles[pv]) => Required(Tiles[pv], Constraint) <= o.data_tile_size

\* A search keeps above the confidence it starts from, what it has found with it.
SearchAbove ==
  /\ search.pv \in Unsettled /\ {"active", "pv", "lower", "upper", "best"} \subseteq DOMAIN search
  /\ search.lower \in Shares /\ search.upper \in Shares
  /\ QLeq(Constraint, search.lower) /\ QLeq(search.lower, search.upper)
  /\ Enough(search.pv, search.best)
  /\ Specs[at].size # {}

SettledEnough ==
  /\ DOMAIN occupancy \subseteq DataSpaces
  /\ \A pv \in DOMAIN occupancy : Enough(pv, occupancy[pv])

\* A level has room for what the check asks of it.
Roomy(l) ==
  LET required == RequiredCapacity(Specs[l], mapping.tiles[l], mapping.masks[l], mapping.thresholds[l])
  IN  Specs[l].size # {} /\ (\A pv \in mapping.masks[l] : ~Exempt(mapping.tiles[l][pv]))
        => required \in Nat /\ required <= The(Specs[l].effective_size)

\* As far as the evaluation has come.
RoomySoFar ==
  /\ pc = "occupancy" => at \in Storage /\ \A l \in 1 .. at - 1 : Roomy(l)
  /\ pc \in {"overflow", "stats"} \/ (pc \in {"networks", "idle"} /\ success)
       => \A l \in Storage : Roomy(l)

Sizing ==
  /\ specced = Topology /\ mapping \in Mappings
  /\ pc # "idle" \/ success => precheck = PreChecked(mapping)
  /\ search.active => pc = "occupancy" /\ SearchAbove
  /\ pc = "occupancy" => SettledEnough
  /\ RoomySoFar

\* The tiles and the confidence the evaluation works with.
LEMMA AtHand ==
  ASSUME Sizing, pc = "occupancy"
  PROVE  /\ at \in Storage /\ Constraint \in Shares
         /\ \A pv \in DataSpaces : IsTile(Tiles[pv])
<1>1. at \in Storage /\ mapping \in Mappings
  BY DEF Sizing, RoomySoFar
<1>2. Constraint \in Shares
  BY <1>1, ConstraintIsShare DEF Constraint
<1> QED BY <1>1, <1>2, MappingsAssumption DEF MappingsAssumption, Tiles

\* A confidence no less than the one asked for is enough.
LEMMA OccupiedEnough ==
  ASSUME Sizing, pc = "occupancy", NEW pv \in DataSpaces, NEW q \in Shares,
         QLeq(Constraint, q) \/ Specs[at].size = {} \/ ~(Tiles[pv].compressed \/ Tiles[pv].has_metadata)
  PROVE  Enough(pv, Occupied(Tiles[pv], q))
<1>1. Constraint \in Shares /\ IsTile(Tiles[pv]) /\ QLeq(q, q)
  BY AtHand, SharesCompare
<1>2. /\ "data_tile_size" \in DOMAIN Occupied(Tiles[pv], q)
      /\ Occupied(Tiles[pv], q).data_tile_size = GetMaxDataTileOccupancyByConfidence(Tiles[pv], q)
  BY DEF Occupied
<1>3. GetMaxDataTileOccupancyByConfidence(Tiles[pv], q) \in Nat
  BY <1>1, TileGrows
<1>4. ASSUME Specs[at].size # {}, ~Exempt(Tiles[pv])
      PROVE  Required(Tiles[pv], Constraint) <= GetMaxDataTileOccupancyByConfidence(Tiles[pv], q)
  <2>1. CASE QLeq(Constraint, q)
    BY <1>1, <1>4, <2>1, RequiredIsHeld
  <2>2. CASE ~(Tiles[pv].compressed \/ Tiles[pv].has_metadata)
    <3>1. Required(Tiles[pv], Constraint) <= GetMaxDataTileOccupancyByConfidence(Tiles[pv], Int2Q(1))
      BY <1>1, <1>4, RequiredIsHeld, SharesCompare
    <3>2. GetMaxDataTileOccupancyByConfidence(Tiles[pv], Int2Q(1)) = GetMaxDataTileOccupancyByConfidence(Tiles[pv], q)
      BY <2>2 DEF GetMaxDataTileOccupancyByConfidence
    <3> QED BY <3>1, <3>2
  <2> QED BY <1>4, <2>1, <2>2
<1> QED BY <1>2, <1>3, <1>4 DEF Enough

\* The confidence an evaluation starts from is enough.
LEMMA StartEnough ==
  ASSUME Sizing, pc = "occupancy", NEW pv \in DataSpaces
  PROVE  Enough(pv, StartOf(pv))
<1>1. Constraint \in Shares /\ Int2Q(1) \in Shares /\ QLeq(Constraint, Constraint)
  BY AtHand, SharesCompare
<1>2. CASE (Tiles[pv].compressed \/ Tiles[pv].has_metadata) /\ Specs[at].size # {}
  BY <1>1, <1>2, OccupiedEnough DEF StartOf
<1>3. CASE ~((Tiles[pv].compressed \/ Tiles[pv].has_metadata) /\ Specs[at].size # {})
  BY <1>1, <1>3, OccupiedEnough DEF StartOf
<1> QED BY <1>2, <1>3

\* What the steps of a level leave alone.
LEMMA EnoughStays ==
  ASSUME NEW pv, NEW o, specced' = specced, mapping' = mapping, at' = at
  PROVE  /\ Enough(pv, o)' <=> Enough(pv, o)
         /\ Constraint' = Constraint /\ Specs' = Specs
BY DEF Enough, Constraint, Tiles, Specs

\* Nor has a level less room than it had.
LEMMA RoomStays ==
  ASSUME specced' = specced, mapping' = mapping
  PROVE  \A l : Roomy(l)' <=> Roomy(l)
BY DEF Roomy, Specs

\* A confidence is settled, or a search started from it.
LEMMA SettleSizing ==
  ASSUME Sizing, SettleOccupancy
  PROVE  Sizing'
<1>1. /\ pc = "occupancy" /\ Unsettled # {} /\ ~search.active
      /\ specced' = specced /\ pc' = pc /\ mapping' = mapping /\ precheck' = precheck
      /\ success' = success /\ at' = at
  BY DEF SettleOccupancy
<1>2. PICK pv : /\ pv \in Unsettled
                /\ \/ Improvable(pv, StartOf(pv)) /\ search' = SearchFrom(pv, StartOf(pv)) /\ occupancy' = occupancy
                   \/ Settle(pv, StartOf(pv)) /\ search' = search
  BY <1>1 DEF SettleOccupancy
<1>3. pv \in DataSpaces /\ pv \notin DOMAIN occupancy
  BY <1>2 DEF Unsettled
<1>4. Enough(pv, StartOf(pv))
  BY <1>1, <1>3, StartEnough
<1>5. RoomySoFar' /\ (pc' # "idle" \/ success' => precheck' = PreChecked(mapping)')
  <2>1. RoomySoFar'
    BY <1>1, RoomStays DEF Sizing, RoomySoFar
  <2>2. PreChecked(mapping)' = PreChecked(mapping)
    BY <1>1 DEF PreChecked, Specs, Distributed
  <2> QED BY <1>1, <2>1, <2>2 DEF Sizing
<1>6. CASE Improvable(pv, StartOf(pv)) /\ search' = SearchFrom(pv, StartOf(pv)) /\ occupancy' = occupancy
  <2>1. /\ search'.pv = pv /\ search'.lower = StartOf(pv).confidence /\ search'.upper = Int2Q(1)
        /\ search'.best = StartOf(pv)
        /\ {"active", "pv", "lower", "upper", "best"} \subseteq DOMAIN search'
    BY <1>6 DEF SearchFrom
  <2>2. StartOf(pv).confidence = Constraint /\ Specs[at].size # {}
    BY <1>6 DEF Improvable, StartOf, Occupied
  <2>3. Constraint \in Shares /\ Int2Q(1) \in Shares /\ QLeq(Constraint, Constraint) /\ QLeq(Constraint, Int2Q(1))
    BY <1>1, AtHand, SharesCompare
  <2>4. SearchAbove'
    BY <1>1, <1>2, <1>4, <1>6, <2>1, <2>2, <2>3, EnoughStays DEF SearchAbove, Unsettled
  <2>5. SettledEnough'
    BY <1>1, <1>6, EnoughStays DEF Sizing, SettledEnough
  <2> QED BY <1>1, <1>5, <2>4, <2>5 DEF Sizing
<1>7. CASE Settle(pv, StartOf(pv)) /\ search' = search
  <2>1. PICK o : o = StartOf(pv)
    OBVIOUS
  <2>2. occupancy' = [d \in DOMAIN occupancy \cup {pv} |-> IF d = pv THEN o ELSE occupancy[d]]
    BY <1>7, <2>1 DEF Settle
  <2>3. SettledEnough'
    BY <1>1, <1>3, <1>4, <2>1, <2>2, EnoughStays DEF Sizing, SettledEnough
  <2> QED BY <1>1, <1>5, <1>7, <2>3 DEF Sizing
<1> QED BY <1>2, <1>6, <1>7

\* A search ends with the best it found.
LEMMA EndSizing ==
  ASSUME Sizing, EndSearch
  PROVE  Sizing'
<1>1. /\ pc = "occupancy" /\ search.active
      /\ specced' = specced /\ pc' = pc /\ mapping' = mapping /\ precheck' = precheck
      /\ success' = success /\ at' = at /\ search' = NoSearch
  BY DEF EndSearch
<1>2. PICK pv, o : /\ pv = search.pv /\ o = [search.best EXCEPT !.confidence = search.lower]
                   /\ occupancy' = [d \in DOMAIN occupancy \cup {pv} |-> IF d = pv THEN o ELSE occupancy[d]]
  BY DEF EndSearch, Settle
<1>3. pv \in DataSpaces /\ pv \notin DOMAIN occupancy /\ Enough(pv, search.best)
  BY <1>1, <1>2 DEF Sizing, SearchAbove, Unsettled
<1>4. Enough(pv, o)
  BY <1>2, <1>3 DEF Enough
<1>5. RoomySoFar' /\ (pc' # "idle" \/ success' => precheck' = PreChecked(mapping)')
  <2>1. RoomySoFar'
    BY <1>1, RoomStays DEF Sizing, RoomySoFar
  <2>2. PreChecked(mapping)' = PreChecked(mapping)
    BY <1>1 DEF PreChecked, Specs, Distributed
  <2> QED BY <1>1, <2>1, <2>2 DEF Sizing
<1>6. SettledEnough'
  BY <1>1, <1>2, <1>3, <1>4, EnoughStays DEF Sizing, SettledEnough
<1> QED BY <1>1, <1>5, <1>6 DEF Sizing, NoSearch

\* A search goes on between its bounds.
LEMMA TrySizing ==
  ASSUME Sizing, TryConfidence
  PROVE  Sizing'
<1> DEFINE pv == search.pv
<1>1. PICK middle, tried :
        /\ pc = "occupancy" /\ search.active
        /\ specced' = specced /\ pc' = pc /\ mapping' = mapping /\ precheck' = precheck
        /\ success' = success /\ at' = at /\ occupancy' = occupancy
        /\ middle = Middle(search.lower, search.upper) /\ tried = Occupied(Tiles[pv], middle)
        /\ search' = Narrowed(middle, tried)
  BY DEF TryConfidence, Searching
<1>2. /\ SearchAbove /\ pv \in DataSpaces /\ Constraint \in Shares
  BY <1>1, AtHand DEF Sizing, SearchAbove, Unsettled
<1>3. middle \in Shares /\ QLeq(search.lower, middle) /\ QLeq(middle, search.upper)
  <2>1. CASE middle = search.lower
    BY <1>2, <2>1, SharesCompare DEF SearchAbove
  <2>2. CASE middle = QMul(QAdd(search.lower, search.upper), Q(1, 2))
    BY <1>2, <2>2, MiddleBetween DEF SearchAbove
  <2> QED BY <1>1, <2>1, <2>2 DEF Middle
<1>4. QLeq(Constraint, middle)
  BY <1>2, <1>3, SharesCompare DEF SearchAbove
<1>5. Enough(pv, tried)
  BY <1>1, <1>2, <1>3, <1>4, OccupiedEnough
<1>6. /\ search'.pv = search.pv /\ DOMAIN search' = DOMAIN search
      /\ \/ search'.upper = middle /\ search'.lower = search.lower /\ search'.best = search.best
         \/ search'.upper = search.upper /\ search'.lower = middle /\ search'.best = tried
  BY <1>1, <1>2 DEF Narrowed, SearchAbove
<1>7. SearchAbove'
  BY <1>1, <1>2, <1>3, <1>4, <1>5, <1>6, EnoughStays DEF SearchAbove, Unsettled
<1>8. SettledEnough'
  BY <1>1, EnoughStays DEF Sizing, SettledEnough
<1>9. RoomySoFar'
  BY <1>1, RoomStays DEF Sizing, RoomySoFar
<1>10. PreChecked(mapping)' = PreChecked(mapping)
  BY <1>1 DEF PreChecked, Specs, Distributed
<1> QED BY <1>1, <1>7, <1>8, <1>9, <1>10 DEF Sizing

\* A level is judged by what was settled for it.
LEMMA LevelSizing ==
  ASSUME Sizing, EvaluateStorageLevel
  PROVE  Sizing'
<1>1. PICK valid :
        /\ pc = "occupancy" /\ Unsettled = {} /\ specced' = specced /\ mapping' = mapping
        /\ precheck' = precheck /\ search' = search /\ occupancy' = <<>>
        /\ valid = BufferSucceeds(Specs[at], Tiles, occupancy, mapping.thresholds[at])
        /\ success' = valid
        /\ pc' = (IF ~valid THEN "networks" ELSE IF at = Len(StorageAttributes) THEN "overflow" ELSE "occupancy")
        /\ at' = (IF valid /\ at < Len(StorageAttributes) THEN at + 1 ELSE at)
  BY DEF EvaluateStorageLevel
<1>2. /\ at \in Storage /\ \A l \in 1 .. at - 1 : Roomy(l)
      /\ mapping \in Mappings /\ specced = Topology /\ SettledEnough /\ ~search.active
  BY <1>1 DEF Sizing, RoomySoFar, SearchAbove
<1>3. ASSUME valid PROVE Roomy(at)
  <2> SUFFICES ASSUME Specs[at].size # {}, \A pv \in mapping.masks[at] : ~Exempt(mapping.tiles[at][pv])
               PROVE  LET required == RequiredCapacity(Specs[at], mapping.tiles[at], mapping.masks[at],
                                                       mapping.thresholds[at])
                      IN  required \in Nat /\ required <= The(Specs[at].effective_size)
    BY DEF Roomy
  <2>1. The(Specs[at].effective_size) \in Int
    BY <1>2, LevelsCount DEF Specs
  <2>2. CapacityFits(Specs[at], occupancy) /\ ConfidenceSuffices(Specs[at], occupancy, mapping.thresholds[at])
    BY <1>1, <1>3 DEF BufferSucceeds
  <2>3. \A pv \in DataSpaces : pv \in DOMAIN occupancy /\ Enough(pv, occupancy[pv])
    BY <1>1, <1>2 DEF Unsettled, SettledEnough
  <2>4. \A pv \in DataSpaces :
          /\ occupancy[pv].data_tile_size \in Nat
          /\ ~Exempt(mapping.tiles[at][pv])
               => Required(mapping.tiles[at][pv], ConfidenceConstraint(Specs[at], mapping.thresholds[at]))
                    <= occupancy[pv].data_tile_size
    BY <2>3 DEF Enough, Tiles, Constraint
  <2> QED BY <1>2, <2>1, <2>2, <2>4, HeldIsRoomy
<1>4. RoomySoFar'
  <2>1. ASSUME valid, NEW l \in 1 .. at PROVE Roomy(l)'
    <3>1. l = at \/ l \in 1 .. at - 1
      BY <1>2, LevelsAssumption DEF LevelsAssumption, Storage
    <3> QED BY <1>1, <1>2, <1>3, <2>1, <3>1, RoomStays
  <2>2. CASE ~valid
    BY <1>1, <2>2 DEF RoomySoFar
  <2>3. CASE valid /\ at = Len(StorageAttributes)
    <3>1. \A l \in Storage : Roomy(l)'
      BY <2>1, <2>3 DEF Storage
    <3> QED BY <1>1, <2>3, <3>1 DEF RoomySoFar
  <2>4. CASE valid /\ at # Len(StorageAttributes)
    <3>1. at' \in Storage /\ at' - 1 = at /\ pc' = "occupancy"
      BY <1>1, <1>2, <2>4, LevelsAssumption DEF LevelsAssumption, Storage
    <3>2. \A l \in 1 .. at' - 1 : Roomy(l)'
      BY <2>1, <2>4, <3>1
    <3> QED BY <3>1, <3>2 DEF RoomySoFar
  <2> QED BY <2>2, <2>3, <2>4
<1>5. SettledEnough'
  BY <1>1 DEF SettledEnough
<1>6. PreChecked(mapping)' = PreChecked(mapping) /\ precheck = PreChecked(mapping)
  BY <1>1 DEF Sizing, PreChecked, Specs, Distributed
<1> QED BY <1>1, <1>2, <1>4, <1>5, <1>6 DEF Sizing

\* Another mapping is checked.
LEMMA BeginSizing ==
  ASSUME Sizing, NEW m \in Mappings, BeginEvaluate(m)
  PROVE  Sizing'
<1>1. /\ pc = "idle" /\ specced' = specced /\ mapping' = m /\ precheck' = PreChecked(m) /\ search' = search
      /\ pc' = "arithmetic" \/ (pc' = "idle" /\ ~success')
  BY DEF BeginEvaluate
<1>2. PreChecked(mapping)' = PreChecked(m)
  BY <1>1 DEF PreChecked, Specs, Distributed
<1>3. RoomySoFar'
  BY <1>1 DEF RoomySoFar
<1> QED BY <1>1, <1>2, <1>3 DEF Sizing

\* The other steps settle nothing, and come to no other level.
LEMMA RestSizing ==
  ASSUME Sizing,
         EvaluateArithmeticLevel \/ FinalizeEnergy \/ EvaluateNetworks \/ CollectStats \/ UNCHANGED vars
  PROVE  Sizing'
<1>1. specced' = specced /\ mapping' = mapping /\ precheck' = precheck /\ search' = search
  BY DEF EvaluateArithmeticLevel, FinalizeEnergy, EvaluateNetworks, CollectStats, vars
<1>2. PreChecked(mapping)' = PreChecked(mapping)
  BY <1>1 DEF PreChecked, Specs, Distributed
<1>3. CASE UNCHANGED vars
  <2>1. RoomySoFar'
    BY <1>1, <1>3, RoomStays DEF Sizing, RoomySoFar, vars
  <2>2. SearchAbove' <=> SearchAbove
    BY <1>1, <1>3, EnoughStays DEF SearchAbove, vars, Unsettled
  <2>3. SettledEnough' <=> SettledEnough
    BY <1>1, <1>3, EnoughStays DEF SettledEnough, vars
  <2> QED BY <1>1, <1>2, <1>3, <2>1, <2>2, <2>3 DEF Sizing, vars
<1>4. CASE EvaluateArithmeticLevel
  <2>1. /\ pc = "arithmetic" /\ at' = 1 /\ occupancy' = <<>>
        /\ pc' = "occupancy" \/ (pc' = "idle" /\ ~success')
    BY <1>4 DEF EvaluateArithmeticLevel
  <2>2. 1 \in Storage
    BY LevelsAssumption DEF LevelsAssumption, Storage
  <2>3. RoomySoFar'
    BY <2>1, <2>2 DEF RoomySoFar
  <2>4. SettledEnough'
    BY <2>1 DEF SettledEnough
  <2> QED BY <1>1, <1>2, <2>1, <2>3, <2>4 DEF Sizing
<1>5. CASE FinalizeEnergy \/ EvaluateNetworks \/ CollectStats
  <2>1. /\ pc \in {"overflow", "networks", "stats"} /\ success' = success
        /\ pc' = IF pc = "overflow" THEN "networks" ELSE IF pc = "networks" /\ success THEN "stats" ELSE "idle"
    BY <1>5 DEF FinalizeEnergy, EvaluateNetworks, CollectStats
  <2>2. RoomySoFar'
    BY <1>1, <2>1, RoomStays DEF Sizing, RoomySoFar
  <2> QED BY <1>1, <1>2, <2>1, <2>2 DEF Sizing
<1> QED BY <1>3, <1>4, <1>5

\* Whatever the topology and the mappings, the loose filter is loose: no level
\* of an accepted mapping was found too large by the pre-evaluation check, but
\* for a tile with metadata that is not compressed; and accepted tiles fit.
THEOREM AcceptedWereNotTooLarge == Spec => []CapacityIsJudged
<1>1. Init => Sizing
  <2> SUFFICES ASSUME Init PROVE Sizing
    OBVIOUS
  <2>1. RoomySoFar
    BY DEF Init, RoomySoFar
  <2> QED BY <2>1 DEF Init, Sizing, NoSearch
<1>2. Sizing /\ [Next]_vars => Sizing'
  <2> SUFFICES ASSUME Sizing, [Next]_vars PROVE Sizing'
    OBVIOUS
  <2>1. ASSUME NEW m \in Mappings, BeginEvaluate(m) PROVE Sizing'
    BY <2>1, BeginSizing
  <2>2. CASE SettleOccupancy
    BY <2>2, SettleSizing
  <2>3. CASE TryConfidence
    BY <2>3, TrySizing
  <2>4. CASE EndSearch
    BY <2>4, EndSizing
  <2>5. CASE EvaluateStorageLevel
    BY <2>5, LevelSizing
  <2>6. CASE EvaluateArithmeticLevel \/ FinalizeEnergy \/ EvaluateNetworks \/ CollectStats \/ UNCHANGED vars
    BY <2>6, RestSizing
  <2> QED BY <2>1, <2>2, <2>3, <2>4, <2>5, <2>6 DEF Next, Evaluating
<1>3. Sizing /\ TilesFit => CapacityIsJudged
  <2>1. ASSUME NEW l \in Storage, Roomy(l), mapping \in Mappings, specced = Topology,
               \A pv \in mapping.masks[l] : ~Exempt(mapping.tiles[l][pv])
        PROVE  PreEvaluationCheck(Specs[l], mapping.tiles[l], mapping.masks[l], mapping.thresholds[l],
                                  Distributed(l)) # "too large"
    <3> DEFINE required == RequiredCapacity(Specs[l], mapping.tiles[l], mapping.masks[l], mapping.thresholds[l])
    <3>1. Specs[l].size # {} => required \in Nat /\ required <= The(Specs[l].effective_size)
      BY <2>1 DEF Roomy
    <3>2. Specs[l].instances \in Nat \ {0} /\ (Specs[l].size # {} => The(Specs[l].effective_size) \in Int)
      BY <2>1, LevelsCount DEF Specs
    <3>3. CASE Specs[l].size = {}
      BY <3>3 DEF PreEvaluationCheck
    <3>4. CASE Specs[l].size # {}
      <4>1. ~(required > The(Specs[l].effective_size))
        BY <3>1, <3>2, <3>4
      <4> QED BY <3>1, <3>2, <3>4, <4>1, TooLargeIs
    <3> QED BY <3>3, <3>4
  <2>2. ASSUME Sizing, Evaluated, success, NEW l \in Storage,
               \A pv \in mapping.masks[l] : ~Exempt(mapping.tiles[l][pv])
        PROVE  precheck[l] # "too large"
    <3>1. Roomy(l) /\ mapping \in Mappings /\ specced = Topology /\ precheck = PreChecked(mapping)
      BY <2>2 DEF Sizing, RoomySoFar, Evaluated
    <3>2. PreEvaluationCheck(Specs[l], mapping.tiles[l], mapping.masks[l], mapping.thresholds[l], Distributed(l))
            # "too large"
      BY <2>1, <2>2, <3>1
    <3> QED BY <3>1, <3>2 DEF PreChecked
  <2> QED BY <2>2 DEF CapacityIsJudged, Exempt
<1>4. Spec => []TilesFit
  BY AcceptedTilesFit
<1> QED BY <1>1, <1>2, <1>3, <1>4, PTL DEF Spec

==============================================================================
