---------------------------- MODULE SparseAnalysis ----------------------------
(***************************************************************************)
(* The sparse analysis of one mapping (PerformSparseProcessing,            *)
(* src/src/sparse-analysis/sparse-analysis.cpp): the dense access counts   *)
(* that the tiling passes left are turned into counts of what is really    *)
(* read, gated, skipped and computed when the tensors are sparse.  One     *)
(* action per pass, and per group of optimization options.                 *)
(*                                                                         *)
(* in is the mapping, the architecture and the options (see also           *)
(* SparseOptimizations); beyond what is described there it holds           *)
(*   dense    reads, fills, updates, reductions, instances (x, y and their *)
(*            number) of each data space and level, and compute the same   *)
(*            of the compute level                                         *)
(*   format   the format of each data space at each level, SparseFormats   *)
(*   partition, decompression, compression  the levels that can cut up,    *)
(*            unpack and pack a compressed tile                            *)
(*   gate, skip, spatial  sequences of pairs of a level and a group of     *)
(*            options; a spatial group is a single option of one condition *)
(*   fanout   the width and height of the array below each level           *)
(*   operands the two read-only data spaces in order                       *)
(*   gate_on_zero_operand, skip_on_not_aligned_operands  of the compute    *)
(*            level                                                        *)
(* An evaluation stops at the first failure (break_on_failure).            *)
(***************************************************************************)
EXTENDS SparseOptimizations

CONSTANT Evaluations    \* the inputs

VARIABLES
  in,
  pc,        \* the pass that is next
  rec,       \* per data space and level, DataMovementInfo
  compute,   \* ComputeInfo
  saf,       \* masks and probabilities of the optimizations
  spread,    \* max_spatial_expansion_ and avg_effective_expansion_ratio_
  todo,      \* the groups of options still to be looked at
  offers     \* history: what the groups came up with

vars == <<in, pc, rec, compute, saf, spread, todo, offers>>

DataSpaces == DOMAIN in.proj

Levels == 1 .. Top(in)

Kept(pv) == in.keep[pv]

Format(pv, l) == in.format[pv][l]

TileAt(pv, l) == TileOf(in, pv, Mold(in, l, Len(in.levels[l])))

-----------------------------------------------------------------------------
\* CheckFormatModelsAndMapping, for a level and the level its tiles come from.
AllDense(e) == \A pv \in DOMAIN e.proj : \A l \in e.keep[pv] : ~e.format[pv][l].has_metadata

CannotConvert(pv, l, above, here) ==
  /\ above.compressed /\ ~here.compressed
  /\ l \notin in.decompression \/ (pv \in in.rw /\ l \notin in.compression)

CannotPartition(parent, above, here) ==
  above.compressed /\ here.compressed /\ Len(above.models) < Len(here.models) /\ parent \notin in.partition

Unsupported(pv, l) ==
  LET parent == ParentLevel(in, pv, l) IN
  /\ parent # 0
  /\ \/ CannotConvert(pv, l, Format(pv, parent), Format(pv, l))
     \/ CannotPartition(parent, Format(pv, parent), Format(pv, l))

CheckFormatModelsAndMapping ==
  /\ pc = "check"
  /\ pc' = IF ~AllDense(in) /\ \E pv \in DataSpaces : \E l \in Kept(pv) : Unsupported(pv, l)
              THEN "failed" ELSE "initialize"
  /\ UNCHANGED <<in, rec, compute, saf, spread, todo, offers>>

-----------------------------------------------------------------------------
\* InitializeSparsityRelatedEntries, InitializeFineGrainedAccesses,
\* InitializeMaxRequiredSpatialExpansion, SparseAnalysisState::Init and
\* SetPointSetTileRepresentations.
ShapeAt(pv, l) == IF l \in Kept(pv) THEN Shape(TileAt(pv, l)) ELSE 0

\* Instances along an axis: the spatial loops of the levels above.
Expansion(l, st) ==
  FoldLeft(LAMBDA n, loop : IF loop.st = st THEN n * loop.bound ELSE n, 1,
           FlattenSeq(SubSeq(in.levels, l + 1, Top(in))))

NoRepresentation == [ranks |-> <<>>, tiles |-> <<>>, fibers |-> <<>>]

Fresh(pv, l) ==
  LET d == in.dense[pv][l] IN
  [density |-> One, occupancy |-> Int2Q(ShapeAt(pv, l)), metadata |-> <<>>, rep |-> NoRepresentation,
   avg_repl |-> Int2Q(d.instances), max |-> [X |-> Expansion(l, "SpaceX"), Y |-> Expansion(l, "SpaceY")],
   random_read |-> d.reads, random_fill |-> d.fills, random_update |-> d.updates,
   saved_read |-> 0, saved_update |-> 0,
   reductions |-> d.reductions, format_reads |-> <<>>, format_fills |-> <<>>, format_updates |-> <<>>,
   saved_format_reads |-> <<>>, saved_format_updates |-> <<>>, decompression |-> 0, compression |-> 0]

NoOptimization(e) == AllDense(e) /\ e.gate = <<>> /\ e.skip = <<>> /\ e.spatial = <<>>

Groups(type, list) == [i \in DOMAIN list |-> [type |-> type, level |-> list[i][1], group |-> list[i][2]]]

Initialize ==
  /\ pc = "initialize"
  /\ rec' = [pv \in DataSpaces |-> [l \in Levels |-> Fresh(pv, l)]]
  /\ compute' = [random |-> in.compute.accesses * in.compute.instances, gated |-> 0, skipped |-> 0,
                 nonexistent |-> 0, avg_repl |-> Int2Q(in.compute.instances),
                 max |-> [X |-> Expansion(0, "SpaceX"), Y |-> Expansion(0, "SpaceY")]]
  /\ saf' = [gate |-> [l \in Levels |-> [pv \in DataSpaces |-> FALSE]],
             skip |-> [l \in Levels |-> [pv \in DataSpaces |-> FALSE]],
             spatial |-> [l \in Levels |-> [pv \in DataSpaces |-> FALSE]],
             prob |-> [l \in Levels |-> [pv \in DataSpaces |-> Zero]],
             spatial_prob |-> [l \in Levels |-> [pv \in DataSpaces |-> Zero]],
             storage |-> [pv \in DataSpaces |-> FALSE],
             empty |-> [pv \in DataSpaces |-> Zero]]
  /\ todo' = Groups("gate", in.gate) \o Groups("skip", in.skip)
  /\ pc' = IF NoOptimization(in) THEN "done" ELSE "represent"
  /\ UNCHANGED <<in, spread, offers>>

-----------------------------------------------------------------------------
\* DefineCompressionFormatModels.  A level whose compressed tiles cannot be
\* cut up at run time holds them as the child level's tiles: its inner ranks
\* are the child's.
PreTiled(pv, l) ==
  LET child == ChildLevel(in, pv, l) IN
  Format(pv, l).compressed /\ child # 0 /\ l \notin in.partition /\ ShapeAt(pv, child) > 1

Misaligned(pv, l) ==
  LET child == ChildLevel(in, pv, l) IN
  /\ PreTiled(pv, l)
  /\ \/ FormatRanks(Format(pv, child)) > FormatRanks(Format(pv, l))
     \/ /\ Format(pv, child).compressed
        /\ \E r \in DOMAIN Format(pv, child).models : Format(pv, child).models[r] # Format(pv, l).models[r]

\* The loops from the child level up that walk over the data space, and their
\* tiles.
Walking(pv, l) ==
  SelectSeq(Places(in, ChildLevel(in, pv, l) + 1, l),
            LAMBDA p : LoopAt(in, p).dim \in DimsOf(in, pv))

\* Without pre-tiling the first loop of each dimension also counts what the
\* levels below walk over.
WalkingLoops(pv, l) ==
  LET places == Walking(pv, l)
      below(d) == IF ChildLevel(in, pv, l) = 0 THEN 1
                  ELSE Mold(in, ChildLevel(in, pv, l), Len(in.levels[ChildLevel(in, pv, l)]))[d]
      first(i) == \A j \in 1 .. i - 1 : LoopAt(in, places[j]).dim # LoopAt(in, places[i]).dim
  IN [i \in DOMAIN places |->
        [dim |-> LoopAt(in, places[i]).dim,
         bound |-> LoopAt(in, places[i]).bound *
                   (IF ~PreTiled(pv, l) /\ first(i) THEN below(LoopAt(in, places[i]).dim) ELSE 1)]]

WalkingTiles(pv, l) ==
  LET places == Walking(pv, l) IN
  [i \in DOMAIN places |-> TileOf(in, pv, Mold(in, places[i][1], places[i][2])).ext]

Applied(f, inner, loops, tiles) ==
  IF f.inner_to_outer THEN ApplyRanksInnerToOuter(f, inner, loops, tiles)
                      ELSE ApplyRanksOuterToInner(f, inner, loops, tiles)

FiberShapes(ranks) == [r \in DOMAIN ranks |-> FoldLeft(LAMBDA n, loop : n * loop.bound, 1, ranks[r])]

Representation(pv, l, child) ==
  LET inner == IF PreTiled(pv, l) THEN Len(child.ranks) ELSE 0
      m == Applied(Format(pv, l), inner, WalkingLoops(pv, l), WalkingTiles(pv, l))
      ranks == (IF PreTiled(pv, l) THEN child.ranks ELSE <<>>) \o m.ranks
      tiles == IF PreTiled(pv, l) THEN child.tiles ELSE <<TileOf(in, pv, Scalar(in)).ext>>
  IN [ranks |-> ranks, tiles |-> tiles \o m.tiles, fibers |-> FiberShapes(ranks), more |-> m.more]

\* From the innermost level outwards, each representation building on the one
\* below.
RECURSIVE Represented(_, _)
Represented(pv, l) ==
  LET child == ChildLevel(in, pv, l) IN
  Representation(pv, l, IF child = 0 THEN NoRepresentation ELSE Represented(pv, child))

DefineCompressionFormatModels ==
  /\ pc = "represent"
  /\ IF AllDense(in) THEN pc' = "occupancy" /\ UNCHANGED rec
     ELSE IF \E pv \in DataSpaces : \E l \in Kept(pv) : Misaligned(pv, l) THEN pc' = "failed" /\ UNCHANGED rec
     ELSE \E reps \in {[pv \in DataSpaces |-> [l \in Kept(pv) |-> Represented(pv, l)]]} :
            /\ pc' = IF \E pv \in DataSpaces : \E l \in Kept(pv) : reps[pv][l].more THEN "failed" ELSE "occupancy"
            /\ rec' = [pv \in DataSpaces |-> [l \in Levels |->
                         IF l \in Kept(pv) THEN [rec[pv][l] EXCEPT !.rep = reps[pv][l]] ELSE rec[pv][l]]]
  /\ UNCHANGED <<in, compute, saf, spread, todo, offers>>

-----------------------------------------------------------------------------
\* CalculateExpectedOccupancy and CalculateExpectedMetaDataAccesses.
ParentHasMetaData(pv, l) ==
  LET parent == ParentLevel(in, pv, l) IN parent # 0 /\ Format(pv, parent).has_metadata

Ratio(units, accesses, shape) == Ceiling(QMul(units, Q(accesses, shape)))

FormatAccesses(metadata, accesses, shape) ==
  [r \in DOMAIN metadata |-> <<Ratio(metadata[r].md, accesses, shape), Ratio(metadata[r].pl, accesses, shape)>>]

WithOccupancy(r, shape, occupancy, share, metadata) ==
  [r EXCEPT !.occupancy = occupancy, !.density = QMul(occupancy, Q(1, shape)),
            !.avg_repl = QMul(@, share), !.metadata = metadata]

OccupancyOf(r, m, tile, f, parent_has_metadata) ==
  WithOccupancy(r, Shape(tile), ExpectedData(m, tile, parent_has_metadata), SentShare(m, tile, parent_has_metadata),
                IF f.has_metadata THEN ExpectedMetaData(f, m, r.rep, tile, parent_has_metadata) ELSE <<>>)

WithFormatAccesses(r, d, shape, f) ==
  IF ~f.has_metadata THEN r
  ELSE [r EXCEPT !.format_reads = FormatAccesses(r.metadata, d.reads, shape),
                 !.format_fills = FormatAccesses(r.metadata, d.fills, shape),
                 !.format_updates = FormatAccesses(r.metadata, d.updates, shape),
                 !.saved_format_reads = [k \in DOMAIN r.metadata |-> <<0, 0>>],
                 !.saved_format_updates = [k \in DOMAIN r.metadata |-> <<0, 0>>]]

CalculateExpectedOccupancy ==
  /\ pc = "occupancy"
  /\ rec' = [pv \in DataSpaces |-> [l \in Levels |->
       IF l \notin Kept(pv) THEN rec[pv][l]
       ELSE WithFormatAccesses(
              OccupancyOf(rec[pv][l], in.density[pv], TileAt(pv, l), Format(pv, l), ParentHasMetaData(pv, l)),
              in.dense[pv][l], ShapeAt(pv, l), Format(pv, l))]]
  /\ pc' = "explicit"
  /\ UNCHANGED <<in, compute, saf, spread, todo, offers>>

-----------------------------------------------------------------------------
\* DefineStorageOptimizationImpact: the groups of gating, then of skipping.
DefineIneffectualReadImpact ==
  /\ pc = "explicit" /\ todo # <<>>
  /\ \E levels \in {GroupLevels(in, Head(todo).group, Head(todo).level)} :
       IF 0 \in {levels[i] : i \in DOMAIN levels}
         THEN /\ pc' = "failed"
              /\ UNCHANGED <<saf, todo, offers>>
         ELSE \E c \in {ChosenOption(in, rec, Head(todo).group, levels)} :
                /\ saf' = WithOption(saf, Head(todo).type, c)
                /\ offers' = Append(offers, [type |-> Head(todo).type, option |-> c])
                /\ todo' = Tail(todo)
                /\ UNCHANGED pc
  /\ UNCHANGED <<in, rec, compute, spread>>

GroupsDone ==
  /\ pc = "explicit" /\ todo = <<>>
  /\ pc' = IF in.spatial = <<>> THEN "combine" ELSE "spatial"
  /\ todo' = Groups("spatial", in.spatial)
  /\ spread' = IF in.spatial = <<>> THEN spread
               ELSE [pv \in DataSpaces |-> SpatialInstances(in, rec, compute, pv)]
  /\ rec' = IF in.spatial = <<>> THEN rec
            ELSE [pv \in DataSpaces |-> [l \in Levels |-> [rec[pv][l] EXCEPT !.max = spread'[pv].expansion[l]]]]
  /\ compute' = IF in.spatial = <<>> THEN compute
                ELSE [compute EXCEPT !.max = spread'[in.last].expansion[0]]
  /\ UNCHANGED <<in, saf, offers>>

\* DefineSpatialOptimizationImpact.
DefineSpatialOptimizationImpact ==
  /\ pc = "spatial" /\ todo # <<>>
  /\ spread' = SpatialSkip(in, spread, Head(todo).group, Head(todo).level)
  /\ saf' = [saf EXCEPT !.spatial[Head(todo).level][Head(todo).group.target] = TRUE]
  /\ todo' = Tail(todo)
  /\ UNCHANGED <<in, pc, rec, compute, offers>>

\* SummarizeAndPropagateSpatialCapacityReduction.
Largest(S, less(_, _)) == CHOOSE x \in S : \A y \in S : ~less(x, y)

SummarizeAndPropagateSpatialCapacityReduction ==
  /\ pc = "spatial" /\ todo = <<>>
  /\ \E s \in {[pv \in DataSpaces |-> Summarized(in, rec, saf, spread, pv)]} :
       LET average(pv, a) == QMul(Int2Q(IF a = 0 THEN in.compute.instances ELSE in.dense[pv][a].instances),
                                  s[pv].ratio[a])
           tooWide(a) == \E pv \in DataSpaces : \/ Fanout(s, pv, a, "X") > in.fanout[a].X
                                                \/ Fanout(s, pv, a, "Y") > in.fanout[a].Y
       IN /\ spread' = s
          /\ rec' = [pv \in DataSpaces |-> [l \in Levels |->
                       [rec[pv][l] EXCEPT !.max = s[pv].expansion[l], !.avg_repl = average(pv, l)]]]
          /\ compute' = [compute EXCEPT
                           !.max = [X |-> Max({s[pv].expansion[0].X : pv \in DataSpaces}),
                                    Y |-> Max({s[pv].expansion[0].Y : pv \in DataSpaces})],
                           !.avg_repl = Largest({average(pv, 0) : pv \in DataSpaces}, QLess)]
          /\ saf' = [saf EXCEPT !.spatial_prob =
                       [l \in Levels |-> [pv \in DataSpaces |-> Minus(One, s[pv].ratio[l - 1])]]]
          /\ pc' = IF \E a \in 0 .. Top(in) - 1 : tooWide(a) THEN "failed" ELSE "combine"
  /\ UNCHANGED <<in, todo, offers>>

-----------------------------------------------------------------------------
\* CombineStorageOptimizationImpact.  n accesses without the share p of them.
Cut(n, p) == n - QTrunc(QMul(Int2Q(n), p))

\* ProcessDataReprImpactOnStorageAccesses: what the representation leaves out.
\* Updates are counted for read-write data spaces only.
Represent(r, d, f, is_rw) ==
  IF ~f.has_metadata THEN r
  ELSE [r EXCEPT !.random_read = Cut(d.reads, Minus(One, r.density)),
                 !.random_fill = Cut(d.fills, Minus(One, r.density)),
                 !.random_update = IF is_rw THEN Cut(d.updates, Minus(One, r.density)) ELSE @]

\* The levels with a gated, skipped or spatially skipped data space, the
\* nearest of them further out (0 for none) and what it saves.
Masked(pv) == {l \in Levels : saf.gate[l][pv] \/ saf.skip[l][pv] \/ saf.spatial[l][pv]}

OuterMasked(pv, l) == LET outer == {k \in Masked(pv) : k > l} IN IF outer = {} THEN 0 ELSE Min(outer)

Saved(pv, l) ==
  IF l = 0 THEN Zero ELSE IF saf.spatial[l][pv] THEN saf.spatial_prob[l][pv] ELSE saf.prob[l][pv]

\* PropagateImpactOfExplicitlyOptimizedRead, at a level below outer.  The first
\* rank's metadata is scaled when the outer level has a single rank.
CutFormat(format, p, outer) ==
  IF format = <<>> \/ outer = <<>> \/ Len(outer) # 1 THEN format
  ELSE [format EXCEPT ![1] = <<Cut(@[1], p), Cut(@[2], p)>>]

Propagate(r, p, outer) ==
  [r EXCEPT !.random_read = Cut(@, p), !.random_fill = Cut(@, p), !.random_update = Cut(@, p),
            !.format_reads = CutFormat(@, p, outer), !.format_fills = CutFormat(@, p, outer)]

\* ApplyLocalStorageSAFImpact for the ranks a child level is sent.  The random
\* metadata reads of a level below another optimization start from the updates.
SavedUnits(format, p, ranks) ==
  [k \in DOMAIN format |-> IF k > ranks THEN <<0, 0>>
                           ELSE <<QTrunc(QMul(Int2Q(format[k][1]), p)), QTrunc(QMul(Int2Q(format[k][2]), p))>>]

Left(format, saved) == [k \in DOMAIN format |-> <<format[k][1] - saved[k][1], format[k][2] - saved[k][2]>>]

SavedReads(reads, p, is_rw) ==
  IF is_rw THEN Ceiling(QMul(Int2Q(reads), p)) ELSE QTrunc(QMul(Int2Q(reads), p))

ApplyLocalStorageSAFImpact(r, p, is_rw, ranks) ==
  [r EXCEPT !.saved_read = SavedReads(r.random_read, p, is_rw),
            !.saved_update = QTrunc(QMul(Int2Q(r.random_update), p)),
            !.random_read = @ - SavedReads(r.random_read, p, is_rw),
            !.random_update = Cut(@, p),
            !.saved_format_reads = SavedUnits(r.format_reads, p, ranks),
            !.saved_format_updates = SavedUnits(r.format_updates, p, ranks),
            !.format_reads = Left(@, SavedUnits(r.format_reads, p, ranks)),
            !.format_updates = Left(@, SavedUnits(r.format_updates, p, ranks))]

\* Only the updates that are left are reduced.
Reduce(r, d) ==
  [r EXCEPT !.reductions = IF d.updates = 0 THEN 0 ELSE Ceiling(Q(@ * r.random_update, d.updates))]

\* Given that the outer optimization did not apply already.
EffectiveProb_Absolute(p, outer) == p

EffectiveProb(p, outer) == Minus(One, QDiv(Minus(One, p), Minus(One, outer)))

MetaDataRanks(pv, l) == IF Format(pv, l).has_metadata THEN Len(Format(pv, l).models) ELSE 0

Combined(pv, l, r) ==
  LET outer == OuterMasked(pv, l)
      left == IF outer = 0 THEN r ELSE Propagate(r, Saved(pv, outer), rec[pv][outer].format_reads)
      sent == IF ChildLevel(in, pv, l) # 0 THEN ChildLevel(in, pv, l) ELSE l
      own == EffectiveProb(Saved(pv, l), Saved(pv, outer))
      started == IF outer = 0 THEN left ELSE [left EXCEPT !.format_reads = left.format_updates]
  IN IF ~Explicit(saf, l, pv) THEN Reduce(left, in.dense[pv][l])
     ELSE LET applied == ApplyLocalStorageSAFImpact(started, own, pv \in in.rw, MetaDataRanks(pv, sent)) IN
          IF pv \in in.rw THEN Reduce(applied, in.dense[pv][l]) ELSE applied

\* CalculateDecompressionCompressionCost.
Unpacked(done, pv, l) ==
  LET parent == ParentLevel(in, pv, l) IN
  IF l \notin Kept(pv) \/ Format(pv, l).compressed \/ parent = 0 \/ ~Format(pv, parent).compressed THEN done[pv][l]
  ELSE [done[pv][l] EXCEPT !.decompression = done[pv][l].random_fill,
                           !.compression = IF pv \in in.rw THEN done[pv][parent].random_update ELSE 0]

\* The innermost optimization of an operand also saves computes.
ComputesLeft ==
  FoldLeft(LAMBDA n, pv : IF Masked(pv) = {} THEN n ELSE Cut(n, Saved(pv, Min(Masked(pv)))),
           compute.random, in.operands)

CombineStorageOptimizationImpact ==
  /\ pc = "combine"
  /\ \E done \in {[pv \in DataSpaces |-> [l \in Levels |->
                    Combined(pv, l, Represent(rec[pv][l], in.dense[pv][l], Format(pv, l), pv \in in.rw))]]} :
       rec' = [pv \in DataSpaces |-> [l \in Levels |-> Unpacked(done, pv, l)]]
  /\ compute' = [compute EXCEPT !.random = ComputesLeft]
  /\ saf' = [saf EXCEPT
               !.storage = [pv \in DataSpaces |-> pv \notin in.rw /\ Masked(pv) # {}],
               !.empty = [pv \in DataSpaces |-> IF pv \in in.rw \/ Masked(pv) = {} THEN Zero
                                                ELSE Saved(pv, Min(Masked(pv)))]]
  /\ pc' = "compute"
  /\ UNCHANGED <<in, spread, todo, offers>>

-----------------------------------------------------------------------------
\* CalculateFineGrainedComputeAccesses2Operand.  An operand that was read has
\* a better chance to be nonzero if the other one was not read over an empty
\* tile of it.
OperandDensity(op) == ExpectedTileOccupancy(in.density[op], TileOf(in, op, Scalar(in)))

Leads(op, other) == IF saf.storage[other] THEN saf.empty[other] ELSE Zero

NotZero_Unconditioned(op, other) == OperandDensity(op)

NotZero(op, other) == QDiv(OperandDensity(op), Minus(One, Leads(op, other)))

\* EXIST_NOT_ZERO, EXIST_ZERO and NOT_EXIST.
OperandStates(op, other) ==
  LET nz == NotZero(op, other)
      listed == Format(op, Min(Kept(op))).has_metadata
  IN [nz |-> nz, ez |-> IF listed THEN Zero ELSE Minus(One, nz), ne |-> IF listed THEN Minus(One, nz) ELSE Zero]

Illegal(states) == \E s \in {"nz", "ez", "ne"} : QLess(states[s], Zero) \/ QLess(One, states[s])

\* What becomes of a compute in each pair of states.
FateOf(a, b) ==
  CASE a = "nz" /\ b = "nz" -> "random"
    [] a = "ne" /\ b = "ne" -> "nonexistent"
    [] "ne" \in {a, b} /\ a # b /\ in.skip_on_not_aligned_operands -> "skipped"
    [] ~(a = "nz" /\ b = "nz") /\ in.gate_on_zero_operand
         /\ ~("ne" \in {a, b} /\ (a = b \/ in.skip_on_not_aligned_operands)) -> "gated"
    [] OTHER -> "random"

ShareOf(fate, a, b) ==
  LET pairs == {p \in {"nz", "ez", "ne"} \X {"nz", "ez", "ne"} : FateOf(p[1], p[2]) = fate} IN
  SumQ(pairs, LAMBDA p : QMul(a[p[1]], b[p[2]]))

CalculateFineGrainedComputeAccesses2Operand ==
  /\ pc = "compute"
  /\ \E a \in {OperandStates(in.operands[1], in.operands[2])}, b \in {OperandStates(in.operands[2], in.operands[1])} :
       LET count(fate) == QTrunc(QMul(Int2Q(compute.random), ShareOf(fate, a, b))) IN
       IF Illegal(a) \/ Illegal(b) THEN pc' = "aborted" /\ UNCHANGED compute
       ELSE /\ compute' = [compute EXCEPT
                             !.skipped = count("skipped"), !.gated = count("gated"),
                             !.nonexistent = count("nonexistent"),
                             !.random = @ - count("skipped") - count("gated") - count("nonexistent")]
            /\ pc' = "done"
  /\ UNCHANGED <<in, rec, saf, spread, todo, offers>>

-----------------------------------------------------------------------------
Unset == <<>>

Init ==
  /\ in \in Evaluations
  /\ pc = "check"
  /\ rec = Unset /\ compute = Unset /\ saf = Unset /\ spread = Unset
  /\ todo = <<>> /\ offers = <<>>

Next ==
  \/ CheckFormatModelsAndMapping
  \/ Initialize
  \/ DefineCompressionFormatModels
  \/ CalculateExpectedOccupancy
  \/ DefineIneffectualReadImpact
  \/ GroupsDone
  \/ DefineSpatialOptimizationImpact
  \/ SummarizeAndPropagateSpatialCapacityReduction
  \/ CombineStorageOptimizationImpact
  \/ CalculateFineGrainedComputeAccesses2Operand

Spec == Init /\ [][Next]_vars

-----------------------------------------------------------------------------

\* Property: empty tiles that are not sent are left out of the instances and
\* out of the occupancy alike, so that the nonzeros of all instances stay the
\* share of the points that is not zero (CalculateExpectedOccupancy).
NonzerosConserved ==
  pc = "explicit" => \A pv \in DataSpaces : \A l \in Kept(pv) :
    QMul(rec[pv][l].avg_repl, rec[pv][l].occupancy)
      = QMul(Int2Q(in.dense[pv][l].instances),
             ExpectedTileOccupancy(in.density[pv], TileAt(pv, l)))

\* Property: what a level still reads is the share that the nearest
\* optimization at or outside it leaves: none is counted twice however many
\* there are (PropagateImpactOfExplicitlyOptimizedRead).
Near(m, q, slack) == QLess(QSub(Int2Q(m), q), Int2Q(slack)) /\ QLess(QSub(q, Int2Q(m)), Int2Q(slack))

EachReadSavedOnce ==
  pc = "compute" => \A pv \in DataSpaces, l \in Levels :
    LET saving == IF Explicit(saf, l, pv) THEN l ELSE OuterMasked(pv, l)
        stored == IF Format(pv, l).has_metadata THEN rec[pv][l].density ELSE One
    IN Near(rec[pv][l].random_read,
            QMul(QMul(Int2Q(in.dense[pv][l].reads), stored), Minus(One, Saved(pv, saving))), 3)

\* Property: the computes left include those whose operands are both nonzero,
\* however the operands' reads are optimized, and hardware with both compute
\* options does few others; no chance of an operand is out of range
\* (CalculateFineGrainedComputeAccesses2Operand).
EffectualComputes ==
  QMul(Int2Q(in.compute.accesses * in.compute.instances),
       QMul(OperandDensity(in.operands[1]), OperandDensity(in.operands[2])))

EffectualComputesKept ==
  /\ pc # "aborted"
  /\ pc = "done" =>
       /\ QLess(EffectualComputes, Int2Q(compute.random + 1))
       /\ (~NoOptimization(in) /\ in.gate_on_zero_operand /\ in.skip_on_not_aligned_operands) =>
            Near(compute.random, EffectualComputes, 5)

\* Property: the probability that a tile holds so many nonzeros is the share of
\* the placements of the nonzeros, or of the places of the tile, that have so
\* many (GetTileOccupancyProbability).
CountedShare(m, tile, x) ==
  IF m.type = "banded" THEN BandedShare(m, tile.ext, x) ELSE PlacedShare(m, Shape(tile), x)

ProbabilityIsCounted ==
  pc = "initialize" => \A pv \in {pw \in DataSpaces : in.density[pw].type # "fixed_structured"} : \A l \in Kept(pv) :
    \A x \in 0 .. ShapeAt(pv, l) :
      TileOccupancyProbability(in.density[pv], TileAt(pv, l), x) = CountedShare(in.density[pv], TileAt(pv, l), x)
===============================================================================
