----------------------------- MODULE Mapspaces -----------------------------
(***************************************************************************)
(* The mapspace the configuration asks for (mapspace-factory.cpp), walked  *)
(* by the mapper's threads: each takes its split's index factorizations in *)
(* turn, prunes its copy of the mapspace for one, and constructs mappings. *)
(***************************************************************************)
EXTENDS UberMapspace, IndexFactors

(***************************************************************************)
(* mapspace::Ruby (src/src/mapspaces/ruby.cpp) where it is not the same as *)
(* Uber: its index factorizations may be imperfect (ResidualFactors), its  *)
(* permutations have no suffix, and its loops are taken from the           *)
(* factorization as they are.                                              *)
(***************************************************************************)

\* RubyPermutationSpace::InitLevel: unit factors, what is left of the user's
\* prefix, then the free dimensions.
RubyPatternFor(l, unit) ==
  LET prefix == Ascending(unit) \o Without(arch[l].user_prefix, unit)
  IN  [prefix |-> prefix, infix |-> Ascending(Dims \ ToSet(prefix)), suffix |-> <<>>]

\* InitIndexFactorizationSpace: the levels with a remainder bound, from the outermost in;
\* for a dimension, those whose factor the user has not fixed.
RemainderLevels(c, d) ==
  Reverse(Ascending({l \in DOMAIN c.levels : c.levels[l].remainder # {}} \ DOMAIN UserFixed(c, d)))

RemainderBound(c, l) == CHOOSE b \in c.levels[l].remainder : TRUE

\* ResidualIndexFactorizationSpace::Init
RubyCofactorsOf(c, d) ==
  LET ix == RemainderLevels(c, d)
      bounds == [i \in DOMAIN ix |-> RemainderBound(c, ix[i])]
  IN  PruneImperfectMin(
        PruneImperfectMax(
          ImperfectFactors(c.bound[d], Len(c.levels), UserFixed(c, d), bounds, ix),
          UserLimits(c, "max", d)),
        UserLimits(c, "min", d))

\* A loop is trivial when it makes one step, in its last iteration too.
UnitLoop == [end |-> 1, residual_end |-> 1]

\* Ruby has its own copies of Uber's spaces of permutations, of spatial splits
\* and of bypasses, which differ from Uber's in the permutations' patterns only.
RubyPermutationSpace(unit) ==
  InitLoopPermutationSpace([l \in Levels |-> RubyPatternFor(l, unit[l])])

RubySpatialSpace(unit) == SpatialSplits(unit)

RubyDatatypeBypassSize == DatatypeBypassSize

RubyInit ==
  /\ cofactors = [d \in Dims |-> RubyCofactorsOf(config, d)]
  /\ SizeKnown
  /\ patterns = RubyPermutationSpace(NothingPruned)
  /\ splits = RubySpatialSpace(NothingPruned)

RubyInitPruned ==
  /\ InTurn(mine)
  /\ PruneSplit(mine)
  /\ factors' = FactorsOf(pruned'[mine])
  /\ patterns' = RubyPermutationSpace(UnitFactors(UnitLoop, factors'))
  /\ splits' = RubySpatialSpace(UnitFactors(UnitLoop, factors'))
  /\ mapping' = NoMapping
  /\ UNCHANGED <<config, mine, cofactors>>

\* AssignIndexFactors takes each loop's bounds from the factorization.
RubyLoops(fac) ==
  [l \in Levels |-> [d \in Dims |-> [end |-> fac[l][d].end, residual_end |-> fac[l][d].residual_end]]]

\* The stages of a construction are Uber's, but for the loops' bounds.
RubyMappingOf(pats, spl, perm, split, bypass, fac) ==
  MappingOf(pats, spl, perm, split, bypass, RubyLoops(fac))

RubyConstructMapping(perm, split, bypass) ==
  /\ bypass < RubyDatatypeBypassSize
  /\ ConstructFromSplit(mine)
  /\ mapping' = RubyMappingOf(patterns, splits, perm, split, bypass, factors)
  /\ UNCHANGED <<config, mine, cofactors, factors, patterns, splits>>

-----------------------------------------------------------------------------
Init ==
  /\ config \in Configs
  /\ \/ config.template = "uber" /\ UberInit
     \/ config.template = "ruby" /\ RubyInit
  /\ SplitInit
  /\ mine \in Splits
  /\ factors = NoFactors
  /\ mapping = NoMapping

InitPruned ==
  \/ config.template = "uber" /\ UberInitPruned
  \/ config.template = "ruby" /\ RubyInitPruned

ConstructMapping(perm, split, bypass) ==
  \/ config.template = "uber" /\ UberConstructMapping(perm, split, bypass)
  \/ config.template = "ruby" /\ RubyConstructMapping(perm, split, bypass)

\* The other threads have copies of their own.
OtherThread ==
  /\ \E i \in Splits \ {mine} : InTurn(i) /\ (PruneSplit(i) \/ ConstructFromSplit(i))
  /\ UNCHANGED <<config, mine, cofactors, factors, patterns, splits, mapping>>

Next ==
  \/ InitPruned
  \/ \E perm \in 0 .. PermutationSize(patterns) - 1, split \in 0 .. SpatialSplitSize(splits) - 1,
        bypass \in 0 .. DatatypeBypassSize - 1 :
       ConstructMapping(perm, split, bypass)
  \/ OtherThread
  \/ AllWalked /\ UNCHANGED vars

Spec == Init /\ [][Next]_vars

-----------------------------------------------------------------------------
\* Properties.

\* The sub-spaces are those that were built, before any walk.
Built == \A i \in Splits : local[i] = 0 /\ pruned[i] = NotPruned

\* The splits of a dimension's bound that keep what the user fixed and stay
\* within the user's limits, by definition.
LegalSplits(d) ==
  LET fixed == UserFixed(config, d)
      max == UserLimits(config, "max", d)
      min == UserLimits(config, "min", d)
  IN  {s \in [Levels -> 1 .. config.bound[d]] :
         /\ Product(s) = config.bound[d]
         /\ \A l \in DOMAIN fixed : s[l] = fixed[l]
         /\ \A l \in DOMAIN max : s[l] <= max[l]
         /\ \A l \in DOMAIN min : s[l] >= min[l]}

FixedDivides(d) ==
  config.bound[d] % ProductOver(LAMBDA l : UserFixed(config, d)[l], DOMAIN UserFixed(config, d)) = 0

\* Of an index factorization with imperfect factors, those of the levels.
OfLevels(split) == SubSeq(split, 1, Len(arch))

Perfect(s) == [l \in Levels |-> [end |-> s[l], residual_end |-> s[l]]]

WithinRemainders(s, d) ==
  \A l \in ToSet(RemainderLevels(config, d)) : s[l] <= RemainderBound(config, l)

\* Property: Uber enumerates all legal splits of each dimension's bound, no
\* other, and none twice, so that two factorization IDs never mean the same
\* factors (class Factors: "all order-way cofactor sets of n").  Ruby's
\* imperfect splits include every perfect one whose factors at the levels with
\* a remainder bound are within it: no mapping is lost by asking for more.
\* Given factors that do not divide the bound are the loops' business, below.
SplitsKept ==
  Built =>
    \A d \in Dims :
      /\ config.template = "uber" =>
           /\ FixedDivides(d) => ToSet(cofactors[d]) = LegalSplits(d)
           /\ IsInjective(cofactors[d])
      /\ config.template = "ruby" /\ FixedDivides(d) =>
           {Perfect(s) : s \in {t \in LegalSplits(d) : WithinRemainders(t, d)}}
              \subseteq {OfLevels(p) : p \in ToSet(cofactors[d])}

LoopsAlong(d) ==
  SelectSeq(FlattenSeq([l \in Levels |-> mapping.nest[l]]), LAMBDA loop : loop.dim = d)

\* Property: the loops of a mapping, imperfect ones included, make exactly as
\* many steps along each dimension as the workload's bound, whatever the
\* given factors leave over (the recurrence AssignIndexFactors checks at the
\* end, and ValidityChecker_ solves).  For Ruby, unless the user fixed the
\* factors of all levels.
LoopsCoverBound ==
  mapping # NoMapping =>
    \A d \in Dims :
      (config.template = "ruby" => DOMAIN UserFixed(config, d) # Levels) =>
        StepsOf(LoopsAlong(d)) = config.bound[d]

JustPruned == pruned[mine] # NotPruned

PlacementIds(pats, spl) == (0 .. PermutationSize(pats) - 1) \X (0 .. SpatialSplitSize(spl) - 1)

LegalPlacements(pats, spl, loops) ==
  {m.nest : m \in {n \in {MappingOf(pats, spl, id[1], id[2], 0, loops) : id \in PlacementIds(pats, spl)} :
                     n.success}}

\* InitPruned knows the splits between X and Y by the number of trivial loops alone, as if
\* these came first.  In a level one wide in X they come in the order of the dimensions, so
\* where a loop that is not trivial precedes one that is, every split left puts it along X.
AllAlongYPruned(l, unit) ==
  /\ arch[l].spatial /\ arch[l].fanoutX = 1 /\ arch[l].user_split = NoSplit /\ CanonicalPattern(l)
  /\ \E d \in Dims \ unit, u \in unit : d < u

LosesNothing(unpruned, kept, unit) ==
  IF \E l \in Levels : AllAlongYPruned(l, unit[l]) THEN kept = {} ELSE unpruned \subseteq kept

\* Property: what is pruned is superfluous (doc/mapper.md: pruning drops "the superfluous
\* permutations of unit-factors").  Every legal mapping that the unpruned mapspace constructs
\* for a factorization, the pruned one constructs too, with one exception, where it constructs
\* none at all: a level that spreads over Y only, with the user's say on neither order nor
\* split, and a trivial loop after another (the first split is the number of unit factors).
PruningLosesNothing ==
  JustPruned =>
    \/ /\ config.template = "uber"
       /\ LosesNothing(LegalPlacements(Patterns(NothingPruned), SpatialSplits(NothingPruned), UberLoops(factors)),
                       LegalPlacements(patterns, splits, UberLoops(factors)), UnitFactors(1, factors))
    \/ /\ config.template = "ruby"
       /\ LosesNothing(LegalPlacements(RubyPermutationSpace(NothingPruned), RubySpatialSpace(NothingPruned),
                                       RubyLoops(factors)),
                       LegalPlacements(patterns, splits, RubyLoops(factors)), UnitFactors(UnitLoop, factors))

\* Of the non-trivial loops of a level, those of the user's prefix come first
\* and those of the suffix last, in the order given.
UserOrderKept ==
  \A l \in Levels :
    LET loops == SelectSeq(mapping.nest[l], LAMBDA loop : loop.end > 1)
        dims == [i \in DOMAIN loops |-> loops[i].dim]
        Kept(s) == SelectSeq(s, LAMBDA d : d \in ToSet(dims))
    IN  ~CanonicalPattern(l) =>
          IsPrefix(Kept(arch[l].user_prefix), dims) /\ IsSuffix(Kept(arch[l].user_suffix), dims)

\* Only the first user_split dimensions of the order run along X.
UserSplitKept ==
  \A l \in Levels :
    arch[l].spatial /\ arch[l].user_split # NoSplit /\ Len(arch[l].user_prefix) = NumDims =>
      \A i \in DOMAIN mapping.nest[l] :
        LET loop == mapping.nest[l][i]
        IN  (loop.along = "SpaceX") <=>
              (\E k \in 1 .. arch[l].user_split : arch[l].user_prefix[k] = loop.dim)

\* No loop makes more steps than the user allows at its level.
UserLimitsKept ==
  \A l \in Levels : \A i \in DOMAIN mapping.nest[l] :
    LET loop == mapping.nest[l][i]
    IN  loop.dim \in DOMAIN arch[l].max => loop.end <= arch[l].max[loop.dim]

\* A level keeps and bypasses what the user's strings say, and the outermost
\* keeps what they do not mention.
UserBypassKept ==
  \A pv \in DataSpaces : \A l \in StorageLevels :
    /\ BypassSpec(pv, l) = "0" => l \notin mapping.keep[pv]
    /\ BypassSpec(pv, l) = "1" => l \in mapping.keep[pv]

\* Property: a mapping has the user's order of loops, split between the
\* spatial directions, limits on factors, and bypassed levels, in a mapspace
\* pruned for whatever factorization.
UserConstraintsKept ==
  mapping # NoMapping => UserOrderKept /\ UserSplitKept /\ UserLimitsKept /\ UserBypassKept

=============================================================================
