------------------------------ MODULE NestDeltas ------------------------------
(***************************************************************************)
(* How the nest analysis counts data movement (ComputeDeltas and what it   *)
(* calls, src/src/loop-analysis/nest-analysis.cpp).  It walks the loop     *)
(* nest from the outermost loop inwards.  At each loop level and for each  *)
(* spatial instance it keeps the last set of points it asked for, and only *)
(* the difference to the next one, the delta, is moved.  Above a storage   *)
(* boundary the sizes of the deltas are the accesses of the level; where a *)
(* level fans out, equal deltas of several children are one multicast and  *)
(* a delta a neighbour had in the step before comes over a link.           *)
(*                                                                         *)
(* Not every iteration is run: the second one of a temporal loop stands    *)
(* for those up to the last, and the first child of a spatial loop, moved  *)
(* by the loop's stride, for the others.                                   *)
(*                                                                         *)
(* A nest n is a record: w the workload (PointSets), loops from inner to   *)
(* outer, boundaries the outermost loop of each storage level, physical    *)
(* the width and height of each level's fanout, skews (modulo 0: none),    *)
(* temporal and spatial say whether iterations are extrapolated, run_last  *)
(* is TIMELOOP_RUN_LAST_ITERATION, and no_temporal_reuse, no_multicast and *)
(* no_link_transfer hold pairs of a storage level and a data space.        *)
(* Levels are numbered from 1, loops start at 0 with stride 1.             *)
(*                                                                         *)
(* indices_, num_epochs_ and space_stamp_ are restored by every call, so   *)
(* they are an argument, env; cur_transform_ and the loop gists follow     *)
(* from the indices.  What calls leave behind is st: the live state of     *)
(* each level and instance and the compute counts.  Hops are left out.     *)
(***************************************************************************)
EXTENDS PointSets, Rational, FiniteSets

DataSpaces(n) == DOMAIN n.w.projections

Dims(n) == DOMAIN n.w.factors

Levels(n) == DOMAIN n.loops

IsSpatial(n, l) == n.loops[l].st # "Time"

ArchStorageLevel(n, l) == 1 + Cardinality({b \in n.boundaries : b < l})

MasterSpatial(n, l) == IsSpatial(n, l) /\ (l = Len(n.loops) \/ ~IsSpatial(n, l + 1))

\* The master spatial level's loops: itself and the spatial loops right below.
SpatialGroup(n, l) == {k \in 1 .. l : \A j \in k .. l : IsSpatial(n, j)}

ProductOfEnds(n, levels) == 
  MapThenFoldSet(LAMBDA a, b : a * b, 1, LAMBDA k : n.loops[k].end, LAMBDA S : CHOOSE x \in S : TRUE, levels)

LogicalFanout(n, l) ==
  IF ~IsSpatial(n, l) THEN 1
  ELSE IF ~MasterSpatial(n, l) THEN 0 ELSE ProductOfEnds(n, SpatialGroup(n, l))

\* The larger of the physical and the logical extent of a level's fanout.
Extent(n, l, direction, physical) ==
  Max({physical[ArchStorageLevel(n, l)],
       ProductOfEnds(n, {k \in SpatialGroup(n, l) : n.loops[k].st = direction})})

ExtentH(n, l) == Extent(n, l, "SpaceX", n.physical.x)

ExtentV(n, l) == Extent(n, l, "SpaceY", n.physical.y)

\* utilized_spatial_elems_: instances in use at a level, on average when a
\* spatial loop's last round is shorter.
OuterSize(n, l) ==
  FoldRight(LAMBDA loop, size : IF loop.dim = n.loops[l].dim
                                  THEN loop.residual + loop.end * (size - 1) ELSE size,
            SubSeq(n.loops, l + 1, Len(n.loops)), 1)

Utilization(n, l) ==
  LET loop == n.loops[l] IN
  IF loop.residual # loop.end
    THEN Q(loop.residual + loop.end * (OuterSize(n, l) - 1), OuterSize(n, l))
    ELSE Int2Q(loop.end)

UtilizedElems(n, l) ==
  FoldLeft(LAMBDA product, k : IF IsSpatial(n, k) THEN QMul(product, Utilization(n, k)) ELSE product,
           Int2Q(1), [i \in 1 .. Len(n.loops) - l |-> l + i])

\* vector_strides_, mold_high_ and mold_high_residual_.
LoopsOf(n, dim, levels) == {k \in levels : n.loops[k].dim = dim}

VectorStride(n, l) == ProductOfEnds(n, LoopsOf(n, n.loops[l].dim, 1 .. l - 1))

MoldHigh(n, l, dim) == ProductOfEnds(n, LoopsOf(n, dim, 1 .. l)) - 1

MoldHighResidual(n, l, dim) ==
  MapThenSumSet(LAMBDA k : VectorStride(n, k) * (n.loops[k].residual - 1), LoopsOf(n, dim, 1 .. l))

\* IsLastGlobalIteration_: all loops of the dimension from a level outwards are
\* at their last index.
IsLastGlobalIteration(n, env, l, dim) ==
  \A k \in l .. Len(n.loops) : n.loops[k].dim = dim => env.indices[k] + 1 >= n.loops[k].residual

End(n, env, l) ==
  IF IsLastGlobalIteration(n, env, l + 1, n.loops[l].dim) THEN n.loops[l].residual ELSE n.loops[l].end

\* cur_transform_: where the outer loops stand.
Transform(n, env, l, dim) ==
  MapThenSumSet(LAMBDA k : VectorStride(n, k) * env.indices[k], LoopsOf(n, dim, l + 1 .. Len(n.loops)))

WorkingSetAt(n, env, l, shift) ==
  LET low == [d \in Dims(n) |-> Transform(n, env, l, d) + shift[d]]
      mold == [d \in Dims(n) |-> IF IsLastGlobalIteration(n, env, l + 1, d)
                                   THEN MoldHighResidual(n, l, d) ELSE MoldHigh(n, l, d)]
  IN OperationSpace(n.w, low, Plus(low, mold))

GetCurrentWorkingSet(n, env, l) == WorkingSetAt(n, env, l, [d \in Dims(n) |-> 0])

\* What the pre-evaluation check takes the tiles' sizes to be: at each storage
\* boundary those of the space from the origin that the loops inside span.
GetWorkingSetSizes_LTW(n) ==
  [l \in n.boundaries |->
    LET high == [d \in Dims(n) |-> MoldHigh(n, l, d)]
        maxtile == OperationSpace(n.w, [d \in Dims(n) |-> 0], high)
    IN  [v \in DataSpaces(n) |-> Size(maxtile[v])]]

\* GetCurrentTranslationVectors: how one step of the loop moves the tiles.
GetCurrentTranslationVectors(n, env, l) ==
  LET first == GetCurrentWorkingSet(n, env, l)
      second == WorkingSetAt(n, env, l, [d \in Dims(n) |-> IF d = n.loops[l].dim THEN VectorStride(n, l) ELSE 0])
  IN [pv \in DataSpaces(n) |-> GetTranslation(first[pv], second[pv], Len(n.w.projections[pv]))]

IndexToOperationPoint(n, env) ==
  [d \in Dims(n) |-> Transform(n, env, 0, d)]

-----------------------------------------------------------------------------
\* ElementState and AccessStatMatrix: accesses by <<multicast, scatter>> factor.
NoState(n) ==
  [last |-> NoSpace(n.w), translation |-> [pv \in DataSpaces(n) |-> Null],
   size |-> [pv \in DataSpaces(n) |-> 0], access |-> [pv \in DataSpaces(n) |-> <<>>],
   link |-> [pv \in DataSpaces(n) |-> 0], prev |-> <<>>]

Emplace(map, key, value) ==
  IF key \in DOMAIN map THEN map ELSE [k \in DOMAIN map \cup {key} |-> IF k = key THEN value ELSE map[k]]

Accumulate(stats, other) ==
  [k \in DOMAIN stats \cup DOMAIN other |->
    (IF k \in DOMAIN stats THEN stats[k] ELSE 0) + (IF k \in DOMAIN other THEN other[k] ELSE 0)]

Stat(key, accesses) == [k \in {key} |-> accesses]

AllAccesses(stats) == MapThenSumSet(LAMBDA k : stats[k], DOMAIN stats)

AllButLast(stamp) == Front(stamp)

Key(env, l) == <<l, AllButLast(env.stamp)>>

CountCompute(st, key, accesses) ==
  [st EXCEPT !.compute = Accumulate(@, Stat(key, accesses))]

Asserted(st, condition) == [st EXCEPT !.ok = @ /\ condition]

\* ApplySkew: the physical place of a spatial element.  A term multiplies its
\* constant with the index of its variable and with the index of its bound.
GistIndex(n, env, l, spec) ==
  LET block == {k \in l .. Len(n.loops) : ArchStorageLevel(n, k) = ArchStorageLevel(n, l)}
      loops == {k \in block : n.loops[k].dim = spec.dim /\ IsSpatial(n, k) = spec.spatial}
  IN IF loops = {} THEN 0 ELSE env.indices[CHOOSE k \in loops : TRUE]

TermValue(n, env, l, term) ==
  term.constant * (IF term.variable.dim = 0 THEN 1 ELSE GistIndex(n, env, l, term.variable))
                * (IF term.bound.dim = 0 THEN 1 ELSE GistIndex(n, env, l, term.bound))

ApplySkew(n, env, l, unskewed) ==
  LET skew == n.skews[ArchStorageLevel(n, l)] IN
  IF skew.modulo = 0 THEN unskewed
  ELSE FoldLeft(LAMBDA s, term : s + TermValue(n, env, l, term), 0, skew.terms) % skew.modulo

-----------------------------------------------------------------------------
\* ComputeAccurateMulticastedAccesses: children asking for the same points get
\* them by one multicast; multicasts of the same width add up.
Matches(n, l, deltas, unaccounted, pv) ==
  IF <<ArchStorageLevel(n, l), pv>> \in n.no_multicast
    THEN {{i} : i \in unaccounted}
    ELSE {{j \in unaccounted : SamePoints(deltas[i][pv], deltas[j][pv])} : i \in unaccounted}

MulticastedAccesses(n, env, l, deltas, unaccounted, pv) ==
  LET delta(match) == Size(deltas[CHOOSE i \in match : TRUE][pv])
      matches == {match \in Matches(n, l, deltas, unaccounted, pv) : delta(match) > 0}
      wide(m) == {match \in matches : Cardinality(match) = m}
      widths == {Cardinality(match) : match \in matches}
      accesses(m) == env.epochs * MapThenSumSet(delta, wide(m))
  IN [k \in {<<m, Cardinality(wide(m))>> : m \in widths} |-> accesses(k[1])]

\* ComputeNetworkLinkTransfers: the children that find their delta with a
\* horizontal or vertical neighbour's of the step before.
Neighbours(n, l, i) ==
  LET width == ExtentH(n, l)
      h == i % width
      v == i \div width
  IN {v * width + g : g \in {h - 1, h + 1} \cap (0 .. width - 1)}
     \cup {u * width + h : u \in {v - 1, v + 1} \cap (0 .. ExtentV(n, l) - 1)}

LinkedElements(n, l, deltas, prev, pv) ==
  IF <<ArchStorageLevel(n, l), pv>> \in n.no_link_transfer THEN {}
  ELSE {i \in DOMAIN deltas :
         /\ ~Empty(deltas[i][pv])
         /\ \E j \in Neighbours(n, l, i) \cap DOMAIN prev : SamePoints(deltas[i][pv], prev[j][pv])}

SumOfSizes(deltas, elements, pv) ==
  MapThenSumSet(LAMBDA i : Size(deltas[i][pv]), elements)

\* The rest of ComputeSpatialWorkingSet once the children's deltas are known:
\* links are used for a data space if they save accesses of the level.
CountDeltas_LinksCountTwice(n, env, l, state, deltas) ==
  LET linked(pv) == LinkedElements(n, l, deltas, state.prev, pv)
      without(pv) == MulticastedAccesses(n, env, l, deltas, DOMAIN deltas, pv)
      narrow(pv) == MulticastedAccesses(n, env, l, deltas, DOMAIN deltas \ linked(pv), pv)
      saves(pv) == AllAccesses(narrow(pv)) < AllAccesses(without(pv))
  IN [state EXCEPT
       !.access = [pv \in DataSpaces(n) |-> Accumulate(@[pv], without(pv))],
       !.link = [pv \in DataSpaces(n) |->
                  @[pv] + IF saves(pv) THEN env.epochs * SumOfSizes(deltas, linked(pv), pv) ELSE 0],
       !.prev = deltas]

CountDeltas(n, env, l, state, deltas) ==
  LET linked(pv) == LinkedElements(n, l, deltas, state.prev, pv)
      without(pv) == MulticastedAccesses(n, env, l, deltas, DOMAIN deltas, pv)
      narrow(pv) == MulticastedAccesses(n, env, l, deltas, DOMAIN deltas \ linked(pv), pv)
      saves(pv) == AllAccesses(narrow(pv)) < AllAccesses(without(pv))
      all_forbidden == \A pv \in DataSpaces(n) : <<ArchStorageLevel(n, l), pv>> \in n.no_link_transfer
  IN [state EXCEPT
       !.access = [pv \in DataSpaces(n) |-> Accumulate(@[pv], IF saves(pv) THEN narrow(pv) ELSE without(pv))],
       !.link = [pv \in DataSpaces(n) |->
                  @[pv] + IF saves(pv) THEN env.epochs * SumOfSizes(deltas, linked(pv), pv) ELSE 0],
       !.prev = IF all_forbidden THEN @ ELSE deltas]

-----------------------------------------------------------------------------
\* The iterations of a temporal loop that are run, each with the number of
\* iterations its inner loops are told they stand for (epochs) and the weight
\* its delta gets.
AllIterations(end) == [i \in 1 .. end |-> [index |-> i - 1, epochs |-> 1, weight |-> 1]]

RunsLast(n, env, l) ==
  \/ UsesFlattening(n.w) \/ n.run_last
  \/ /\ \E k \in 1 .. l - 1 : n.loops[k].dim = n.loops[l].dim /\ n.loops[k].end # n.loops[k].residual
     /\ IsLastGlobalIteration(n, env, l + 1, n.loops[l].dim)

ExtrapolatedIterations_MissesLast(end, last, second_last) ==
  <<[index |-> 0, epochs |-> 1, weight |-> 1]>>
  \o (IF end >= 2 THEN <<[index |-> 1, epochs |-> end - 1, weight |-> end - 1]>> ELSE <<>>)

ExtrapolatedIterations(end, last, second_last) ==
  LET least == IF second_last THEN 4 ELSE IF last THEN 3 ELSE 2
      virtual == end - (least - 1)
      repeats == last /\ ~second_last /\ end >= 3
      shared == (second_last /\ end >= 4) \/ repeats
  IN <<[index |-> 0, epochs |-> 1, weight |-> 1]>>
     \o (IF end >= least
           THEN <<[index |-> 1, epochs |-> virtual, weight |-> virtual + (IF shared THEN 1 ELSE 0)]>> ELSE <<>>)
     \o (IF second_last /\ end >= 3
           THEN <<[index |-> end - 2, epochs |-> 1, weight |-> IF end >= 4 THEN 0 ELSE 1]>> ELSE <<>>)
     \o (IF last /\ end >= 2
           THEN <<[index |-> end - 1, epochs |-> 1, weight |-> IF repeats THEN 0 ELSE 1]>> ELSE <<>>)

\* disable_temporal_extrapolation_: the skew of the level uses the loop's index.
SkewUsesLoop(n, l) ==
  LET skew == n.skews[ArchStorageLevel(n, l)] IN
  /\ skew.modulo # 0
  /\ \E i \in DOMAIN skew.terms :
       skew.terms[i].variable.dim = n.loops[l].dim /\ ~skew.terms[i].variable.spatial

Iterations(n, env, l) ==
  LET end == End(n, env, l)
      last == RunsLast(n, env, l)
  IN IF n.temporal /\ ~SkewUsesLoop(n, l)
       THEN ExtrapolatedIterations(end, last, last /\ n.loops[l].end # n.loops[l].residual)
       ELSE AllIterations(end)

RECURSIVE ComputeDeltas(_, _, _, _), FillSpatialDeltas(_, _, _, _, _, _, _)

\* What the deltas of a temporal loop add to the accesses of its storage level.
AddTemporalAccesses(access, sizes, epochs) ==
  [pv \in DOMAIN access |-> Accumulate(access[pv], Stat(<<1, 1>>, sizes[pv] * epochs))]

\* ComputeTemporalWorkingSet.
ComputeTemporalWorkingSet(n, st, env, l) ==
  LET key == Key(env, l)
      once == Stat(<<1, 1>>, End(n, env, l) * env.epochs)
      base == [CountCompute(st, AllButLast(env.stamp), End(n, env, l) * env.epochs) EXCEPT
                 !.live[key].access = [pv \in DataSpaces(n) |-> Accumulate(@[pv], once)]]
      iterate(run, it) ==
        LET r == ComputeDeltas(n, run.st, [env EXCEPT !.indices[l] = it.index, !.epochs = @ * it.epochs], l - 1)
        IN [st |-> r.st,
            sizes |-> [pv \in DataSpaces(n) |-> run.sizes[pv] + it.weight * Size(r.delta[pv])]]
      all == FoldLeft(iterate, [st |-> st, sizes |-> [pv \in DataSpaces(n) |-> 0]], Iterations(n, env, l))
  IN IF l = 1 THEN base
     ELSE IF l - 1 \in n.boundaries
       THEN [all.st EXCEPT !.live[key].access = AddTemporalAccesses(@, all.sizes, env.epochs)]
       ELSE all.st

\* FillSpatialDeltas for the spatial loops from l inwards.  fill holds st, the
\* children's deltas and skew_table; stride is 0 while the iterations above
\* are run, else src is the loop whose step moves the deltas.
ToRun(n, end) == IF n.spatial /\ ~UsesFlattening(n.w) THEN 1 ELSE end

RunChild(n, fill, env, l, index) ==
  LET place == ApplySkew(n, env, l, index)
      below == [env EXCEPT !.stamp[Len(env.stamp)] = place]
      r == IF l = 1
             THEN [st |-> CountCompute(fill.st, below.stamp, env.epochs),
                   delta |-> AddOperation(n.w, NoSpace(n.w), IndexToOperationPoint(n, env))]
             ELSE ComputeDeltas(n, fill.st, below, l - 1)
  IN [st |-> Asserted(r.st, place \notin DOMAIN fill.deltas),
      deltas |-> Emplace(fill.deltas, place, r.delta),
      skew |-> Emplace(fill.skew, index, place)]

MoveChild(n, fill, env, l, index, stride, vectors) ==
  LET place == ApplySkew(n, env, l, index)
      from == fill.deltas[fill.skew[index - stride]]
  IN [st |-> Asserted(fill.st, place \notin DOMAIN fill.deltas),
      deltas |-> Emplace(fill.deltas, place, [pv \in DataSpaces(n) |-> Translate(from[pv], vectors[pv])]),
      skew |-> Emplace(fill.skew, index, place)]

FillSpatialDeltas(n, fill, env, l, base, stride, src) ==
  LET end == End(n, env, l)
      first == base * end
      at(i) == [env EXCEPT !.indices[l] = i]
      inner(f, i) == IF i < ToRun(n, end) THEN FillSpatialDeltas(n, f, at(i), l - 1, first + i, stride * end, src)
                     ELSE FillSpatialDeltas(n, f, at(i), l - 1, first + i, 1, l)
      runs == IF l = 1 THEN end ELSE IF stride = 0 THEN Min({end, ToRun(n, end)}) ELSE 0
      by == IF stride = 0 THEN 1 ELSE stride * end
      vectors == GetCurrentTranslationVectors(n, at(runs), IF stride = 0 THEN l ELSE src)
      run(f, i) == RunChild(n, f, at(i), l, first + i)
      move(f, i) == MoveChild(n, f, at(i), l, first + i, by, vectors)
      from(lo) == [i \in 1 .. end - lo |-> lo + i - 1]
  IN IF l > 1 /\ IsSpatial(n, l - 1) THEN FoldLeft(inner, fill, from(0))
     ELSE FoldLeft(move, FoldLeft(run, fill, SubSeq(from(0), 1, runs)), from(runs))

ComputeSpatialWorkingSet(n, st, env, l) ==
  LET fill == FillSpatialDeltas(n, [st |-> st, deltas |-> <<>>, skew |-> <<>>], env, l, 0, 0, l)
      counted == Asserted(fill.st, Cardinality(DOMAIN fill.deltas) <= LogicalFanout(n, l))
      key == Key(env, l)
  IN [counted EXCEPT !.live[key] = CountDeltas(n, env, l, @, fill.deltas)]

\* The working set is compared with the last one, and saved, at every level.
SaveAndSubtract(n, state, l, space) ==
  LET kept(pv) == <<ArchStorageLevel(n, l), pv>> \in n.no_temporal_reuse
      step(pv) ==
        IF kept(pv) THEN [delta |-> space[pv], last |-> state.last[pv], translation |-> state.translation[pv]]
        ELSE IF UsesFlattening(n.w)
          THEN [delta |-> Subtract(space[pv], state.last[pv]), last |-> space[pv],
                translation |-> state.translation[pv]]
          ELSE SubtractIfSameStride(state.last[pv], state.translation[pv], space[pv], Len(n.w.projections[pv]))
      steps == [pv \in DataSpaces(n) |-> step(pv)]
  IN [delta |-> [pv \in DataSpaces(n) |-> steps[pv].delta],
      state |-> [state EXCEPT !.last = [pv \in DataSpaces(n) |-> steps[pv].last],
                              !.translation = [pv \in DataSpaces(n) |-> steps[pv].translation],
                              !.size = [pv \in DataSpaces(n) |->
                                         IF l \in n.boundaries \/ MasterSpatial(n, l)
                                           THEN Max({@[pv], Size(space[pv])}) ELSE @[pv]]]]

SaveAt(worked, key, saved, consistent) ==
  [st |-> Asserted([worked EXCEPT !.live[key] = saved.state], consistent), delta |-> saved.delta]

\* A set that was never saved has no stride yet.
Consistent(n, state) == \A pv \in DataSpaces(n) : Empty(state.last[pv]) => state.translation[pv] = Null

DeltaOf(n, worked, env, l) ==
  SaveAt(worked, Key(env, l), SaveAndSubtract(n, worked.live[Key(env, l)], l, GetCurrentWorkingSet(n, env, l)),
         Consistent(n, worked.live[Key(env, l)]))

Work(n, st, env, l) ==
  IF IsSpatial(n, l) THEN ComputeSpatialWorkingSet(n, st, env, l) ELSE ComputeTemporalWorkingSet(n, st, env, l)

\* ComputeDeltas: a storage boundary adds a coordinate to the space stamp.
Enter(n, env, l) == IF l \in n.boundaries THEN [env EXCEPT !.stamp = Append(@, 0)] ELSE env

DeltasAt(n, st, env, l) ==
  DeltaOf(n, Work(n, [st EXCEPT !.live = Emplace(@, Key(env, l), NoState(n))], env, l), env, l)

ComputeDeltas(n, st, env, l) == DeltasAt(n, st, Enter(n, env, l), l)

ComputeWorkingSets(n) ==
  ComputeDeltas(n, [live |-> <<>>, compute |-> <<>>, ok |-> TRUE],
                [indices |-> [l \in Levels(n) |-> 0], epochs |-> 1, stamp |-> <<>>], Len(n.loops)).st

-----------------------------------------------------------------------------
\* CollectWorkingSets: per level the average over the instances seen; only the
\* accesses are kept as fractions.
Instances(st, l) == {key \in DOMAIN st.live : key[1] = l}

SumOver(st, l, value(_)) ==
  MapThenSumSet(LAMBDA key : value(st.live[key]), Instances(st, l))

Tile(n, st, l, pv) ==
  LET count == Cardinality(Instances(st, l))
      factors == UNION {DOMAIN st.live[key].access[pv] : key \in Instances(st, l)}
      accesses(k) == SumOver(st, l, LAMBDA s : IF k \in DOMAIN s.access[pv] THEN s.access[pv][k] ELSE 0)
  IN [size |-> SumOver(st, l, LAMBDA s : s.size[pv]) \div count,
      access |-> [k \in factors |-> Q(accesses(k), count)],
      link |-> SumOver(st, l, LAMBDA s : s.link[pv]) \div count,
      replication |-> QTrunc(UtilizedElems(n, l)),
      fanout |-> LogicalFanout(n, l),
      boundary |-> l \in n.boundaries,
      master |-> MasterSpatial(n, l)]

ValidLevels(n) == SelectSeq([l \in Levels(n) |-> l], LAMBDA l : ~IsSpatial(n, l) \/ MasterSpatial(n, l))

CollectWorkingSets(n, st) ==
  [pv \in DataSpaces(n) |-> [i \in DOMAIN ValidLevels(n) |-> Tile(n, st, ValidLevels(n)[i], pv)]]

\* The compute level: accesses averaged over the elements that were counted.
ComputeInfo(n, st) ==
  LET innermost == ValidLevels(n)[1]
      counted == Cardinality(DOMAIN st.compute)
  IN [replication |-> QTrunc(QMul(UtilizedElems(n, innermost), Int2Q(LogicalFanout(n, innermost)))),
      accesses |-> Q(AllAccesses(st.compute), counted),
      max_temporal_iterations |-> ProductOfEnds(n, {l \in Levels(n) : ~IsSpatial(n, l)})]
===============================================================================
