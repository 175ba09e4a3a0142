------------------------- MODULE SparseOptimizations -------------------------
(***************************************************************************)
(* What gating and skipping save                                           *)
(* (src/src/sparse-analysis/storage-gs-analyzer.cpp).  A tile of the       *)
(* target data space need not be read while the tiles of the data spaces   *)
(* it is conditioned on are empty.  Which tiles these are follows from the *)
(* loop nest.  Spatial skipping also frees instances.                      *)
(*                                                                         *)
(* in is the evaluated mapping, architecture and optimization options:     *)
(*   levels   for each storage level the loops of the complete nest from   *)
(*            inner to outer, records of dim, bound and st; the last one   *)
(*            of a level is temporal                                       *)
(*   order    the dimensions in order, proj the dimensions of each data    *)
(*            space, rank by rank, rw the read-write data spaces           *)
(*   keep     the levels each data space is kept in                        *)
(*   density  the density model of each data space                         *)
(* and more fields (SparseAnalysis).  Storage level l is architecture      *)
(* level l, the compute level is 0 and a child level of 0 is compute.      *)
(***************************************************************************)
EXTENDS SparseFormats

Top(in) == Len(in.levels)

DimsOf(in, pv) == {in.proj[pv][i] : i \in DOMAIN in.proj[pv]}

CoIterated(in, pv, pw) == DimsOf(in, pv) \cap DimsOf(in, pw)

IsSpatial(loop) == loop.st # "Time"

\* maxtile_molds_high_: iterations of each dimension up to loop j of level l.
LoopsBelow(in, l, j) == FlattenSeq(SubSeq(in.levels, 1, l - 1)) \o SubSeq(in.levels[l], 1, j)

Mold(in, l, j) ==
  [d \in {in.order[i] : i \in DOMAIN in.order} |->
     FoldLeft(LAMBDA n, loop : IF loop.dim = d THEN n * loop.bound ELSE n, 1, LoopsBelow(in, l, j))]

Scalar(in) == [d \in {in.order[i] : i \in DOMAIN in.order} |-> 1]

\* The mold below a loop.
MoldBelow(in, l, j) ==
  IF j > 1 THEN Mold(in, l, j - 1)
  ELSE IF l > 1 THEN Mold(in, l - 1, Len(in.levels[l - 1])) ELSE Scalar(in)

TileOf(in, pv, mold) == Extents([i \in DOMAIN in.proj[pv] |-> mold[in.proj[pv][i]]])

\* Levels that keep a data space, next to a level.
KeptFrom(in, pv, l) == LET kept == {k \in in.keep[pv] : k >= l} IN IF kept = {} THEN 0 ELSE Min(kept)

ChildLevel(in, pv, l) == LET kept == {k \in in.keep[pv] : k < l} IN IF kept = {} THEN 0 ELSE Max(kept)

ParentLevel(in, pv, l) == LET kept == {k \in in.keep[pv] : k > l} IN IF kept = {} THEN 0 ELSE Min(kept)

-----------------------------------------------------------------------------
\* ComputeIneffectualReadImpact.  Loops between the child level and the level
\* the target is read from, from inner to outer, as pairs <<level, loop>>.
Places(in, from, to) ==
  FlattenSeq([k \in 1 .. to - from + 1 |-> [j \in DOMAIN in.levels[from + k - 1] |-> <<from + k - 1, j>>]])

LoopAt(in, p) == in.levels[p[1]][p[2]]

\* Is the loop the one that moves the target's tile?
MovesTarget(in, t, child, p) ==
  LET loop == LoopAt(in, p)
      of_target == ~Trivial(loop) /\ loop.dim \in DimsOf(in, t)
  IN IF child # 0 THEN of_target
     ELSE of_target \/ p[2] = Len(in.levels[p[1]]) \/ ~IsSpatial(LoopAt(in, <<p[1], p[2] + 1>>))

\* The target loop, else the topmost one; innermost temporal loops read
\* a single point of the target.
TargetLoop(in, t, child, level) ==
  LET places == Places(in, child + 1, level)
      moving == {i \in DOMAIN places : MovesTarget(in, t, child, places[i])}
  IN IF moving = {} THEN <<level, Len(in.levels[level])>> ELSE places[Min(moving)]

ReadsScalar(in, child, p) ==
  /\ child = 0
  /\ p[2] = Len(in.levels[p[1]]) \/ ~IsSpatial(LoopAt(in, <<p[1], p[2] + 1>>))
  /\ ~IsSpatial(LoopAt(in, p))

\* The loops the tile conditioned on has to cover: the target loop, spatial
\* loops above it and, above a spatial target loop, the temporal ones up to
\* the first that moves the target.
Covered(in, t, child, level, target) ==
  LET above == SelectSeq(Places(in, target[1], level),
                         LAMBDA p : (p[1] > target[1] \/ p[2] > target[2]) /\ ~Trivial(LoopAt(in, p)))
      ofTarget(p) == child = 0 \/ LoopAt(in, p).dim \in DimsOf(in, t)
      located(i) == ~IsSpatial(LoopAt(in, target))
                    \/ \E j \in 1 .. i - 1 : ~IsSpatial(LoopAt(in, above[j])) /\ ofTarget(above[j])
      covered == {i \in DOMAIN above : IsSpatial(LoopAt(in, above[i])) \/ (~located(i) /\ ~ofTarget(above[i]))}
  IN [k \in 1 .. Cardinality(covered) |-> LoopAt(in, above[CHOOSE i \in covered :
                                             Cardinality({j \in covered : j <= i}) = k])]

Widened(mold, loops) ==
  [d \in DOMAIN mold |-> FoldLeft(LAMBDA n, loop : IF loop.dim = d THEN n * loop.bound ELSE n, mold[d], loops)]

\* Above a co-iterated spatial loop, another loop of the data space conditioned
\* on would have to be walked out of order: the condition is of no use.
Ineffective(in, t, on, loops) ==
  /\ IsSpatial(loops[1])
  /\ \E i, j \in DOMAIN loops : /\ i < j
                                /\ loops[i].dim \in CoIterated(in, t, on)
                                /\ loops[j].dim \in DimsOf(in, on)

\* The tile conditioned on shrinks with the target's to one iteration of the
\* co-iterated loops, but not below a block of the target.
CoFactor(loops, dims, d) ==
  FoldLeft(LAMBDA n, loop : IF loop.dim = d /\ d \in dims THEN n * loop.bound ELSE n, 1, loops)

Shrunk(in, mold, loops, dims, granularity, block) ==
  LET factors == [d \in DOMAIN mold |-> CoFactor(loops, dims, d)]
      listed == {loops[i].dim : i \in DOMAIN loops} \cap dims
      all == FoldLeft(LAMBDA n, d : n * factors[d], 1, in.order)
      start == [scaling |-> Int2Q(Ceiling(Q(block * all, granularity))), mold |-> mold]
      step(s, d) ==
        IF d \notin listed THEN s
        ELSE [scaling |-> QDiv(s.scaling, Int2Q(factors[d])),
              mold |-> [s.mold EXCEPT ![d] = Ceiling(QDiv(QMul(Int2Q(@), s.scaling), Int2Q(factors[d])))]]
      end == FoldLeft(step, start, in.order)
  IN IF QLess(One, end.scaling)
       THEN [end.mold EXCEPT ![loops[1].dim] = QTrunc(QMul(Int2Q(@), end.scaling))] ELSE end.mold

ConditionMold(in, t, on, child, level, target) ==
  LET loops == <<LoopAt(in, target)>> \o Covered(in, t, child, level, target)
      scalar == ReadsScalar(in, child, target)
      mold == IF scalar THEN Scalar(in) ELSE Mold(in, target[1], target[2])
      dims == IF scalar THEN {} ELSE CoIterated(in, t, on)
  IN Shrunk(in, Widened(mold, Tail(loops)), loops, dims, Shape(TileOf(in, t, mold)), in.block[level])

\* optimization_prob: one of the conditions of the option empties the tile.
OptimizationProb(in, option, level) ==
  LET t == option.target
      child == ChildLevel(in, t, level)
      target == TargetLoop(in, t, child, level)
      loops == <<LoopAt(in, target)>> \o Covered(in, t, child, level, target)
      useful(on) == ReadsScalar(in, child, target) \/ ~Ineffective(in, t, on, loops)
      empty(on) == TileOccupancyProbability(in.density[on],
                     TileOf(in, on, ConditionMold(in, t, on, child, level, target)), 0)
      effectual == FoldLeft(LAMBDA p, on : IF useful(on) THEN QMul(p, Minus(One, empty(on))) ELSE p,
                            One, option.on)
  IN Minus(One, effectual)

\* expected_target_tile_occupancy times the energy of reading a point.
Savings(in, rec, option, level, prob) ==
  LET child == ChildLevel(in, option.target, level)
      md == rec[option.target][IF child = 0 THEN level ELSE child].metadata
      occupancy == QAdd(rec[option.target][level].occupancy,
                        QMul(Int2Q(in.md_ratio[level]), AggregatedMetaData(md)))
  IN QMul(Q(in.read_energy[level], in.block[level]), QMul(occupancy, prob))

\* DefineIneffectualReadImpact: of the options of a group the last one of the
\* largest savings.
GroupLevels(in, group, l) == [i \in DOMAIN group |-> KeptFrom(in, group[i].target, l)]

ChosenOption(in, rec, group, levels) ==
  LET prob == [i \in DOMAIN group |-> OptimizationProb(in, group[i], levels[i])]
      savings == [i \in DOMAIN group |-> Savings(in, rec, group[i], levels[i], prob[i])]
      best == {i \in DOMAIN group : \A j \in DOMAIN group : ~QLess(savings[i], savings[j])}
  IN [target |-> group[Max(best)].target, level |-> levels[Max(best)], prob |-> prob[Max(best)]]

\* An optimization takes the place of an earlier one of the same target and
\* level only if it saves more.
Explicit(saf, level, t) == saf.gate[level][t] \/ saf.skip[level][t]

WithOption(saf, type, c) ==
  IF Explicit(saf, c.level, c.target) /\ ~QLess(saf.prob[c.level][c.target], c.prob) THEN saf
  ELSE [saf EXCEPT !.gate[c.level][c.target] = type = "gate",
                   !.skip[c.level][c.target] = type = "skip",
                   !.prob[c.level][c.target] = c.prob]

-----------------------------------------------------------------------------
\* Spatial skipping.  An expansion is a number of instances along X and Y.
Scale(e, st, num, den) ==
  IF st = "SpaceX" THEN [e EXCEPT !.X = (@ * num) \div den] ELSE [e EXCEPT !.Y = (@ * num) \div den]

\* The spatial loops of a level that spread a data space.
Spreading(in, pv, l) ==
  SelectSeq([j \in DOMAIN in.levels[l] |-> j],
            LAMBDA j : LET loop == in.levels[l][j] IN
                       IsSpatial(loop) /\ ~Trivial(loop) /\ loop.dim \in DimsOf(in, pv))

MaxNonempty(in, pv, mold, loop) ==
  MaxNumElement(in.density[pv], TileOf(in, pv, [mold EXCEPT ![loop.dim] = @ * loop.bound]), TileOf(in, pv, mold))

\* The share of non-empty tiles at the innermost spreading loop, and the
\* instances that can be needed at most.  molds are the extents below each loop.
Spread(in, pv, l, molds, e) ==
  LET spreading == Spreading(in, pv, l) IN
  [ratio |-> IF spreading = <<>> THEN One
             ELSE Minus(One, TileOccupancyProbability(in.density[pv],
                                TileOf(in, pv, molds[spreading[1]]), 0)),
   expansion |-> FoldLeft(LAMBDA x, j : LET loop == in.levels[l][j] IN
                            Scale(x, loop.st, MaxNonempty(in, pv, molds[j], loop), loop.bound),
                          e, spreading)]

\* Where the loops of a level above find a data space: the levels past the
\* last one count as the last.
FoundAt(in, pv, l) == IF KeptFrom(in, pv, l) = 0 THEN Top(in) ELSE KeptFrom(in, pv, l)

\* InitializeSpatialInstances, first pass, for one data space: what the
\* representation alone leaves of the instances below each level.
InitialSpread(in, rec, compute, pv) ==
  LET dense(a) == IF a = 0 THEN compute.max ELSE rec[pv][a].max
      spread(a) == IF a < Top(in) /\ in.format[pv][FoundAt(in, pv, a + 1)].has_metadata
                     THEN Spread(in, pv, a + 1, [j \in DOMAIN in.levels[a + 1] |-> MoldBelow(in, a + 1, j)], dense(a))
                     ELSE [ratio |-> One, expansion |-> dense(a)]
      each == [a \in 0 .. Top(in) |-> spread(a)]
  IN [expansion |-> [a \in 0 .. Top(in) |-> each[a].expansion],
      ratio |-> [a \in 0 .. Top(in) |-> each[a].ratio]]

\* A reduction at level a, relative to from, carries over to the levels below;
\* the average only down to the next level that has one of its own.
Reduced(e, to, from) == [X |-> (e.X * to.X) \div from.X, Y |-> (e.Y * to.Y) \div from.Y]

CarryDown(s, a, from, barrier) ==
  LET reached(b) == \A c \in b .. a - 1 : c \notin barrier
      to == s.expansion[a]
  IN IF to = from THEN s
     ELSE [expansion |-> [b \in DOMAIN s.expansion |->
                            IF b < a THEN Reduced(s.expansion[b], to, from) ELSE s.expansion[b]],
           ratio |-> [b \in DOMAIN s.ratio |->
                        IF b < a /\ reached(b) THEN QMul(s.ratio[b], s.ratio[a]) ELSE s.ratio[b]]]

Downwards(in) == [k \in 1 .. Top(in) |-> Top(in) + 1 - k]

SpatialInstances(in, rec, compute, pv) ==
  LET first == InitialSpread(in, rec, compute, pv)
      barrier == {a \in 0 .. Top(in) : first.ratio[a] # One}
  IN FoldLeft(LAMBDA s, a : CarryDown(s, a, rec[pv][a].max, barrier), first, Downwards(in))

\* CalculateSpatialOptimizationImpact.  The tile conditioned on also covers the
\* temporal loops up to the first that moves the target, if the loop is
\* co-iterated.
ConditionBelow(in, t, on, l, j) ==
  LET mold == MoldBelow(in, l, j)
      places == SelectSeq(Places(in, l, FoundAt(in, t, l)),
                          LAMBDA p : LoopAt(in, p).st = "Time" /\ ~Trivial(LoopAt(in, p)))
      moving == {i \in DOMAIN places : LoopAt(in, places[i]).dim \in DimsOf(in, t)}
      still == SubSeq(places, 1, IF moving = {} THEN Len(places) ELSE Min(moving) - 1)
  IN IF ChildLevel(in, t, l) # 0 /\ in.levels[l][j].dim \in CoIterated(in, t, on)
       THEN Widened(mold, [i \in DOMAIN still |-> LoopAt(in, still[i])]) ELSE mold

SpatialSkip(in, s, option, l) ==
  LET t == option.target
      on == option.on
      at == KeptFrom(in, on, l)
      spread == IF at = 0 \/ ~in.format[on][at].has_metadata
                  THEN [ratio |-> One, expansion |-> s[t].expansion[l - 1]]
                  ELSE Spread(in, on, l, [j \in DOMAIN in.levels[l] |-> ConditionBelow(in, t, on, l, j)],
                              s[t].expansion[l - 1])
  IN [s EXCEPT ![t].expansion[l - 1] = spread.expansion, ![t].ratio[l - 1] = spread.ratio]

\* SummarizeAndPropagateSpatialCapacityReduction for one data space.
Summarized(in, rec, saf, s, pv) ==
  FoldLeft(LAMBDA x, a : CarryDown(x, a, rec[pv][a].max, {l - 1 : l \in {k \in 1 .. Top(in) : saf.spatial[k][pv]}}),
           s[pv], Downwards(in))

\* The fanout a level needs, in one direction.
Fanout(s, pv, a, axis) == s[pv].expansion[a][axis] \div s[pv].expansion[a + 1][axis]
===============================================================================
