----------------------------- MODULE TileAnalysis -----------------------------
(***************************************************************************)
(* One tile analysis, as Topology::Evaluate asks for it: the nest analysis *)
(* computes the tiles of every loop level of a mapping's nest              *)
(* (nest-analysis.cpp, module NestDeltas), then the tiles of one data      *)
(* space are collapsed to the storage levels and taken through the passes  *)
(* of tiling.cpp (module TilingPasses) in the order                        *)
(* CollapseDataMovementNest calls them, one action each.  The data spaces  *)
(* are collapsed one after the other without touching each other's tiles,  *)
(* so a behaviour follows any one of them.                                 *)
(*                                                                         *)
(* The mapping also says which storage levels hold the data space (mask)   *)
(* and the architecture which support distributed multicast (supported)    *)
(* and how they treat partial sums.  An assertion of the code that fails   *)
(* makes ok false; a mapping the code gives up on ends in phase "Exit".    *)
(***************************************************************************)
EXTENDS NestDeltas, TilingPasses

CONSTANTS
  Nests,         \* the loop nests analysed
  Distributions, \* the sets of levels that may support distributed multicast
  UpdatedRMW,    \* values of gUpdatedRMW
  Elisions,      \* values of gEnableFirstReadElision
  NoCoalesce,    \* sets of levels whose accesses are not coalesced
  FirstUpdates   \* sets of levels with rmw_first_update

VARIABLES
  nest,   \* the mapping's loop nest
  phase,  \* the pass to run next
  pv,     \* the data space followed
  sets,   \* working_sets_: the tiles of all loop levels of all data spaces
  tiles,  \* the tile nest of pv
  mask, supported, updated_rmw, elide, ok

vars == <<nest, phase, pv, sets, tiles, mask, supported, updated_rmw, elide, ok>>

Passes == <<"ComputePartitionSizes", "ComputeParentAccessShare", "DistributeTiles", "MaskTiles",
            "ProcessOuterMaskedLevels", "ResetBackingStorageFills", "ComputePeerAccesses",
            "ComputeReadUpdateReductionAccesses", "SetParentLevel", "SetChildLevel", "Done">>

After(pass) == Passes[1 + CHOOSE i \in DOMAIN Passes : Passes[i] = pass]

Init ==
  /\ nest \in Nests
  /\ phase = "ComputeWorkingSets"
  /\ pv = 1 /\ sets = <<>> /\ tiles = <<>> /\ mask = {} /\ supported = {}
  /\ updated_rmw = FALSE /\ elide = TRUE /\ ok = TRUE

\* NestAnalysis::ComputeWorkingSets.
Analyse ==
  /\ phase = "ComputeWorkingSets"
  /\ \E st \in {ComputeWorkingSets(nest)} :
       /\ ok' = st.ok
       /\ sets' = [spaces |-> CollectWorkingSets(nest, st), compute |-> ComputeInfo(nest, st)]
  /\ phase' = "CollapseTiles"
  /\ UNCHANGED <<nest, pv, tiles, mask, supported, updated_rmw, elide>>

\* The mapping's masks passed CheckMaskValidity.
CollapseTiles ==
  /\ phase = "CollapseTiles"
  /\ pv' \in DataSpaces(nest)
  /\ mask' \in SUBSET DOMAIN nest.physical.x /\ CheckMaskValidity(<<mask'>>)
  /\ supported' \in Distributions
  /\ updated_rmw' \in UpdatedRMW /\ elide' \in Elisions
  /\ \E unmerged \in NoCoalesce, first \in FirstUpdates :
       tiles' = Collapse(sets.spaces[pv'], unmerged, first)
  /\ phase' = "ComputePartitionSizes"
  /\ UNCHANGED <<nest, sets, ok>>

Pass(name, result, assertion) ==
  /\ phase = name
  /\ tiles' = result
  /\ ok' = (ok /\ assertion)
  /\ phase' = After(name)
  /\ UNCHANGED <<nest, pv, sets, mask, supported, updated_rmw, elide>>

PartitionSizes == Pass("ComputePartitionSizes", ComputePartitionSizes(tiles), TRUE)

ParentAccessShare == Pass("ComputeParentAccessShare", ComputeParentAccessShare(tiles, updated_rmw), TRUE)

\* "complex multicast signature detected": exit(1).
GiveUp ==
  /\ phase = "DistributeTiles" /\ ComplexSignature(tiles, supported)
  /\ phase' = "Exit"
  /\ UNCHANGED <<nest, pv, sets, tiles, mask, supported, updated_rmw, elide, ok>>

Distribution ==
  /\ phase = "DistributeTiles" /\ ~ComplexSignature(tiles, supported)
  /\ Pass("DistributeTiles", DistributeTiles(tiles, supported), TRUE)

Masking == Pass("MaskTiles", MaskTiles(tiles, mask), TRUE)

OuterMaskedLevels == Pass("ProcessOuterMaskedLevels", ProcessOuterMaskedLevels(tiles, mask), TRUE)

BackingStorage == Pass("ResetBackingStorageFills", ResetBackingStorageFills(tiles), TRUE)

PeerAccesses ==
  Pass("ComputePeerAccesses", ComputePeerAccesses(tiles), \A l \in PeerLevels(tiles) : tiles[l - 1].size > 0)

ReadWrite == pv \in nest.w.written

ReadUpdateReductionAccesses ==
  /\ phase = "ComputeReadUpdateReductionAccesses"
  /\ IF updated_rmw
       THEN Pass(phase, ComputeReadUpdateReductionAccesses_UpdatedRMW(tiles, ReadWrite, elide),
                 ReadWrite => \A l \in Live(tiles) : PeersCoverPartition(tiles[l]))
       ELSE Pass(phase, ComputeReadUpdateReductionAccesses_Legacy(tiles, ReadWrite, elide),
                 ReadWrite => \A l \in Live(tiles) : AccessesCoverPartition(tiles[l]))

ParentLevels == Pass("SetParentLevel", SetParentLevel(tiles), TRUE)

ChildLevels == Pass("SetChildLevel", SetChildLevel(tiles), TRUE)

Next ==
  \/ Analyse \/ CollapseTiles \/ PartitionSizes \/ ParentAccessShare \/ GiveUp \/ Distribution \/ Masking
  \/ OuterMaskedLevels \/ BackingStorage \/ PeerAccesses \/ ReadUpdateReductionAccesses
  \/ ParentLevels \/ ChildLevels

Spec == Init /\ [][Next]_vars

-----------------------------------------------------------------------------
(***************************************************************************)
(* What the counts stand for, from the loops' iterations one by one and    *)
(* sets of points.  These definitions model nothing; the properties below  *)
(* compare the analysis with them.                                         *)
(***************************************************************************)
Perfect(n) == \A l \in Levels(n) : n.loops[l].end = n.loops[l].residual

\* The data a loop level's tile holds while the loops outside stand at outer.
Iterating(n, l, outer) ==
  {i \in [Levels(n) -> 0 .. Max({n.loops[k].end : k \in Levels(n)}) - 1] :
    \A k \in Levels(n) : IF k > l THEN i[k] = outer[k] ELSE i[k] < n.loops[k].end}

DataAt(n, l, outer, v) ==
  {Project(n.w, v, Factorize(n.w, IndexToOperationPoint(n, [indices |-> i]))) : i \in Iterating(n, l, outer)}

TileOf(n, v, l) == sets.spaces[v][CHOOSE i \in DOMAIN ValidLevels(n) : ValidLevels(n)[i] = l]

\* The number of operations is a product of workload bounds.
Operations(n) == FoldLeft(LAMBDA a, b : a * b, 1, n.w.bounds)

\* Where the loops of a level's instance stand at a time: temporal loops are
\* the digits of the time, the innermost one the lowest.
Digit(n, l, k, number, spatial) ==
  (number \div ProductOfEnds(n, {j \in l + 1 .. k - 1 : IsSpatial(n, j) = spatial})) % n.loops[k].end

Standing(n, l, instance, time) ==
  [k \in Levels(n) |->
    IF k <= l THEN 0
    ELSE Digit(n, l, k, IF IsSpatial(n, k) THEN instance ELSE time, IsSpatial(n, k))]

LowCorner(points) == [r \in DOMAIN (CHOOSE p \in points : TRUE) |-> Min({p[r] : p \in points})]

\* What an instance receives: the points it did not hold a step before, or all
\* of them when its box turns to another direction.
Receive(n, received, now) ==
  LET corner == LowCorner(now)
      move == IF received.held = {} THEN Null
              ELSE [r \in DOMAIN corner |-> corner[r] - LowCorner(received.held)[r]]
      turns == ~UsesFlattening(n.w) /\ received.held # {} /\ ~IsZero(move) /\ received.move # Null /\ move # received.move
  IN [held |-> now,
      move |-> IF turns THEN Null ELSE IF move = Null \/ IsZero(move) THEN received.move ELSE move,
      count |-> received.count + Cardinality(IF turns THEN now ELSE now \ received.held)]

Times(n, l) == 0 .. ProductOfEnds(n, {k \in Levels(n) : k > l /\ ~IsSpatial(n, k)}) - 1

Places(n, l) == 0 .. ProductOfEnds(n, {k \in Levels(n) : k > l /\ IsSpatial(n, k)}) - 1

\* The physical instance that works for given indices: its place in every
\* fanout, after skewing.
Place(n, l, standing) ==
  LET logical(m) == FoldRight(LAMBDA k, index : index * n.loops[k].end + standing[k],
                              SetToSortSeq(SpatialGroup(n, m), <), 0)
  IN [m \in {k \in Levels(n) : k > l /\ MasterSpatial(n, k)} |->
       ApplySkew(n, [indices |-> standing], m, logical(m))]

\* Where the loops of the instance at a place stand at a time.
StandingAt(n, l, place, time) ==
  Standing(n, l, CHOOSE i \in Places(n, l) : Place(n, l, Standing(n, l, i, time)) = place, time)

Received(n, v, l, instance) ==
  FoldLeft(LAMBDA got, t : Receive(n, got, DataAt(n, l, StandingAt(n, l, instance, t - 1), v)),
           [held |-> {}, move |-> Null, count |-> 0], [t \in 1 .. Cardinality(Times(n, l)) |-> t]).count

ReceivedByAll(n, v, l) == 
  MapThenSumSet(LAMBDA place : Received(n, v, l, place), {Place(n, l, Standing(n, l, i, 0)) : i \in Places(n, l)})

\* The most data an instance holds at a time, on average over the instances.
Held(n, v, l) ==
  LET most(i) == Max({Cardinality(DataAt(n, l, Standing(n, l, i, t), v)) : t \in Times(n, l)})
  IN MapThenSumSet(most, Places(n, l)) \div Cardinality(Places(n, l))

\* What the level's parent sends over its network and lets neighbours pass on.
Delivered(n, v, l) ==
  LET t == TileOf(n, v, Min({k \in Range(ValidLevels(n)) : k > l}))
  IN QMul(QAdd(WeightedAccesses(t.access), Int2Q(t.link)), Int2Q(t.replication))

Sliding(n, v) == \E r \in DOMAIN n.w.projections[v] : Len(n.w.projections[v][r]) > 1

-----------------------------------------------------------------------------
Analysed == phase = "CollapseTiles"

\* A storage level's tile is as large as the data the loops inside touch at a
\* time, for flattened workloads too, whose tiles are carved into boxes.  The
\* size the pre-evaluation check goes by without walking the nest is never
\* larger, so that it refuses no mapping that fits, and only smaller for a
\* flattened tile that the origin's does not stand for.
TileSizesAreExact ==
  Analysed /\ Perfect(nest) =>
    \A v \in DataSpaces(nest), l \in nest.boundaries :
      /\ TileOf(nest, v, l).size = Held(nest, v, l)
      /\ LET checked == GetWorkingSetSizes_LTW(nest)[l][v]
         IN  IF UsesFlattening(nest.w) THEN checked <= Held(nest, v, l) ELSE checked = Held(nest, v, l)

\* The accesses of a level and the link transfers of its children together
\* bring every instance of the level inside exactly the data that are new to
\* it, step by step: nothing is sent twice, no multicast or link is counted
\* for data it does not carry, and extrapolating from the first iterations
\* changes nothing for data spaces without sliding windows or flattening.
DeliversWhatIsNew ==
  Analysed /\ Perfect(nest) =>
    \A v \in DataSpaces(nest), l \in nest.boundaries \ {Len(nest.loops)} :
      (nest.temporal => ~Sliding(nest, v) /\ ~UsesFlattening(nest.w)) =>
        Delivered(nest, v, l) = Int2Q(ReceivedByAll(nest, v, l))

\* The arithmetic units together do every operation of the workload once, also
\* when loops end early in their last round.
OperationsConserved ==
  Analysed => QMul(sets.compute.accesses, Int2Q(sets.compute.replication)) = Int2Q(Operations(nest))

Finished == phase = "Done"

\* What a masked level would have been asked for is asked of the next level
\* that holds the data space, over any number of masked levels: the traffic
\* that leaves each network is the traffic that enters the one inside it, down
\* to a level that is filled with it.
NetworksAreFed ==
  Finished /\ Perfect(nest) /\ (\A b \in DOMAIN tiles : tiles[b].distributed = NoStats) =>
    \A l \in 1 .. Max({0} \cup Live(tiles)) - 1 :
      LET wanted == IF Holds(tiles, l, mask) THEN tiles[l].share ELSE TotalAccesses(tiles[l].access)
      IN QMul(WeightedAccesses(tiles[l + 1].access), Int2Q(tiles[l + 1].replication))
           = QMul(wanted, Int2Q(tiles[l].replication))
===============================================================================
