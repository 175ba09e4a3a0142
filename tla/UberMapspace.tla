---------------------------- MODULE UberMapspace ----------------------------
(***************************************************************************)
(* mapspace::Uber (src/src/mapspaces/uber.cpp, subspaces.cpp) as the       *)
(* mapper's threads use it: split between them (MapspaceSplit), pruned for *)
(* one index factorization after another, and asked for mappings.  This    *)
(* module says how the sub-spaces (index factorizations, permutations,     *)
(* spatial splits, bypass nests) are built from the user's constraints,    *)
(* what InitPruned leaves of them, and which mapping ConstructMapping      *)
(* makes from a mapping ID.  Mapspaces adds what mapspace::Ruby does    *)
(* differently.                                                            *)
(*                                                                         *)
(* A tiling level is temporal or spatial; its loops are listed innermost   *)
(* first.  Split makes a copy of the mapspace for every thread.  The       *)
(* copies share nothing, so the sub-spaces of one of them, `mine`, are     *)
(* followed, and the walks of the splits are taken one after another.      *)
(***************************************************************************)
EXTENDS IndexFactors, MapspaceSplit

CONSTANTS
  NumDims,          \* number of workload dimensions
  Configs,          \* architectures with workload bounds and constraints
  FilterFanout      \* filter_spatial_fanout_

Dims == 0 .. NumDims - 1

NoSplit == -1

\* What the user says of a level's loops, dimension by dimension: a factor or a limit.
IsUserFactors(f) == DOMAIN f \subseteq Dims /\ \A d \in DOMAIN f : f[d] \in Nat \ {0}

\* A tiling level with the user's constraints on it.
IsTilingLevel(level) ==
  /\ level.spatial \in BOOLEAN /\ level.fanoutX \in Nat \ {0} /\ level.fanoutY \in Nat \ {0}
  /\ ToSet(level.user_prefix \o level.user_suffix) \subseteq Dims
  /\ IsInjective(level.user_prefix \o level.user_suffix)
  /\ level.user_split \in 0 .. NumDims \cup {NoSplit}
  /\ IsUserFactors(level.fixed) /\ IsUserFactors(level.max) /\ IsUserFactors(level.min)
  /\ level.remainder \subseteq Nat

ASSUME UberAssumption ==
  /\ NumDims \in Nat \ {0}
  /\ FilterFanout \in BOOLEAN
  /\ \A c \in Configs :
       /\ c.template \in {"uber", "ruby"}
       /\ \A d \in Dims : c.bound[d] \in Nat \ {0}
       \* Ruby refuses a permutation's suffix
       /\ \A l \in DOMAIN c.levels :
            /\ IsTilingLevel(c.levels[l])
            /\ c.template = "ruby" => c.levels[l].user_suffix = <<>>

VARIABLES
  config,     \* workload_, arch_props_ and constraints_
  mine,       \* the split whose sub-spaces are followed
  cofactors,  \* dimension_factors_: the splits of each dimension's bound
  factors,    \* level -> dimension -> factor, of the factorization in hand
  patterns,   \* permutation_space_: per level prefix, infix and suffix
  splits,     \* spatial_split_space_: per level first split and number of splits
  mapping     \* the mapping constructed last

vars == <<splitVars, config, mine, cofactors, factors, patterns, splits, mapping>>

arch == config.levels

Levels == DOMAIN arch

NoFactors == <<>>

NoMapping == [nest |-> <<>>, keep |-> <<>>, success |-> FALSE]

Without(s, S) == SelectSeq(s, LAMBDA d : d \notin S)

Ascending(S) == SetToSortSeq(S, <)

\* The pairs of the two sets, in order.
CartProductOf(S, T) ==
  FlattenSeq([i \in 1 .. Cardinality(S) |->
               [j \in 1 .. Cardinality(T) |-> <<Ascending(S)[i], Ascending(T)[j]>>]])

ProductOver(f(_), S) == FoldSet(LAMBDA x, p : f(x) * p, 1, S)

-----------------------------------------------------------------------------
\* The sub-spaces, for the pruned dimensions of a level.

CanonicalPattern(l) ==
  IF arch[l].spatial
  THEN /\ arch[l].user_prefix = <<>> /\ arch[l].user_suffix = <<>>
       /\ ~(arch[l].fanoutX > 1 /\ arch[l].fanoutY > 1)
  ELSE l = 1

\* PermutationSpace::InitLevel: unit factors, then what is left of the
\* user's prefix, the free dimensions, and what is left of the suffix.
PatternFor_SuffixReversed(l, unit) ==
  LET prefix == Ascending(unit) \o Without(arch[l].user_prefix, unit)
      suffix == Without(arch[l].user_suffix, unit)
  IN  [prefix |-> prefix,
       infix |-> Ascending(Dims \ (ToSet(prefix) \cup ToSet(suffix))),
       suffix |-> Reverse(suffix)]

PatternFor(l, unit) ==
  LET prefix == Ascending(unit) \o Without(arch[l].user_prefix, unit)
      suffix == Without(arch[l].user_suffix, unit)
  IN  [prefix |-> prefix,
       infix |-> Ascending(Dims \ (ToSet(prefix) \cup ToSet(suffix))),
       suffix |-> suffix]

\* pattern is what the permutation space's InitLevel makes of each level.
InitLoopPermutationSpace(pattern) ==
  [l \in Levels |->
     IF CanonicalPattern(l)
     THEN [prefix |-> Ascending(Dims), infix |-> <<>>, suffix |-> <<>>]
     ELSE pattern[l]]

Patterns(unit) == InitLoopPermutationSpace([l \in Levels |-> PatternFor(l, unit[l])])

\* InitSpatialSpace: a free split never falls among the unit factors, which
\* come first; a level that is not spatial has no split.
SplitsFor_FromZero(l, unit) == [first |-> 0, size |-> NumDims + 1 - Cardinality(unit)]

SplitsFor(l, unit) ==
  [first |-> Cardinality(unit), size |-> NumDims + 1 - Cardinality(unit)]

SpatialSplits(unit) ==
  [l \in Levels |->
     IF ~arch[l].spatial THEN [first |-> 0, size |-> 1]
     ELSE IF arch[l].user_split # NoSplit THEN [first |-> arch[l].user_split, size |-> 1]
     ELSE SplitsFor(l, unit[l])]

NothingPruned == [l \in Levels |-> {}]

\* InitPruned leaves levels with a user-specified split alone, since pruning
\* reorders their dimensions.
UnitFactors(unit, fac) ==
  [l \in Levels |-> IF arch[l].user_split # NoSplit THEN {} ELSE {d \in Dims : fac[l][d] = unit}]

PermutationSize(pats) == Product([l \in DOMAIN pats |-> Factorial(Len(pats[l].infix))])

\* InitDatatypeBypassNestSpace.  For each data space the user's string says by storage level
\* whether it is bypassed ("0"), kept ("1") or either ("X"); what it does not reach is an X,
\* but the outermost level keeps.
StorageLevels == 1 .. Cardinality({l \in Levels : ~arch[l].spatial})

DataSpaces == DOMAIN config.bypass

BypassSpec(pv, l) ==
  IF l <= Len(config.bypass[pv]) THEN config.bypass[pv][l]
  ELSE IF l = Cardinality(StorageLevels) THEN "1" ELSE "X"

\* Every X doubles the masks: first those that bypass, then those that keep.
FreeBits ==
  SelectSeq(CartProductOf(DataSpaces, StorageLevels), LAMBDA b : BypassSpec(b[1], b[2]) = "X")

DatatypeBypassSize == 2 ^ Len(FreeBits)

ConstructDatatypeBypassNest(id) ==
  LET bit == Digits([b \in DOMAIN FreeBits |-> 2], id)
  IN  [pv \in DataSpaces |->
         {l \in StorageLevels : \/ BypassSpec(pv, l) = "1"
                               \/ \E b \in DOMAIN FreeBits : FreeBits[b] = <<pv, l>> /\ bit[b] = 1}]

SpatialSplitSize(spl) == Product([l \in DOMAIN spl |-> spl[l].size])

-----------------------------------------------------------------------------
\* The construction of a mapping from a mapping ID.

\* PermutationSpace::GetPatterns: the ID is a mixed-radix number over levels.
GetPatterns(pats, id) ==
  LET index == Digits([l \in DOMAIN pats |-> Factorial(Len(pats[l].infix))], id)
  IN  [l \in DOMAIN pats |-> pats[l].prefix \o Permute(pats[l].infix, index[l]) \o pats[l].suffix]

\* SpatialSplitSpace::GetSplits
GetSplits(spl, id) ==
  LET index == Digits([l \in DOMAIN spl |-> spl[l].size], id)
  IN  [l \in DOMAIN spl |-> spl[l].first + index[l]]

\* InitSubnests, PermuteSubnests, and the directions: a
\* spatial level's loops before the split point run along X, the others
\* along Y.
Subnest(l, pattern, split, fac) ==
  [i \in DOMAIN pattern |->
     [dim |-> pattern[i],
      end |-> fac[l][pattern[i]].end, residual_end |-> fac[l][pattern[i]].residual_end,
      along |-> IF ~arch[l].spatial THEN "Time" ELSE IF i <= split THEN "SpaceX" ELSE "SpaceY"]]

Expansion(subnest, direction) ==
  FoldLeft(LAMBDA p, loop : IF loop.along = direction THEN p * loop.end ELSE p, 1, subnest)

\* AssignSpatialTilingDirections: no level may be wider than the hardware.
FitsFanout(l, subnest) ==
  /\ Expansion(subnest, "SpaceX") <= arch[l].fanoutX
  /\ Expansion(subnest, "SpaceY") <= arch[l].fanoutY

\* The final nest drops trivial loops, but a temporal level keeps one.
LevelNest(l, subnest) ==
  LET loops == SelectSeq(subnest, LAMBDA loop : loop.end > 1)
  IN  IF loops = <<>> /\ ~arch[l].spatial
      THEN <<[dim |-> NumDims - 1, end |-> 1, residual_end |-> 1, along |-> "Time"]>>
      ELSE loops

\* AssignSpatialTilingDirections: the share of the hardware in use must not be below the
\* user's, a percentage here.
EnoughParallelism(subnests) ==
  LET spatial == {l \in Levels : arch[l].spatial}
      Fanout(l) == arch[l].fanoutX * arch[l].fanoutY
      Used(l) == Expansion(subnests[l], "SpaceX") * Expansion(subnests[l], "SpaceY")
  IN  100 * ProductOver(Used, spatial) >= config.min_parallelism * ProductOver(Fanout, spatial)

MappingOf(pats, spl, perm, split, bypass, loops) ==
  LET dims == GetPatterns(pats, perm)
      points == GetSplits(spl, split)
      subnests == [l \in Levels |-> Subnest(l, dims[l], points[l], loops)]
  IN  [nest |-> [l \in Levels |-> LevelNest(l, subnests[l])],
       keep |-> ConstructDatatypeBypassNest(bypass),
       success |-> /\ FilterFanout =>
                        \A l \in Levels : arch[l].spatial => FitsFanout(l, subnests[l])
                   /\ EnoughParallelism(subnests)]

-----------------------------------------------------------------------------

\* The index factorizations: the splits of each dimension's bound over the
\* levels, indexed by a counter over the dimensions.

\* InitIndexFactorizationSpace: what the user says of a dimension, level by level.
UserLimits(c, what, d) ==
  [l \in {k \in DOMAIN c.levels : d \in DOMAIN c.levels[k][what]} |-> c.levels[l][what][d]]

UserFixed(c, d) == UserLimits(c, "fixed", d)

CofactorsOf(c, d) ==
  PruneMin(PruneMax(Factors(c.bound[d], Len(c.levels), UserFixed(c, d)),
                    UserLimits(c, "max", d)),
           UserLimits(c, "min", d))

\* Digit d + 1 of the counter belongs to dimension d.
CounterBase(cfs) == [i \in 1 .. NumDims |-> Len(cfs[i - 1])]

\* IndexFactorizationSpace::Size
IndexFactorizationSize(cfs) == Product(CounterBase(cfs))

\* IndexFactorizationSpace::GetFactor, for all dimensions and levels.
FactorsOf(id) ==
  LET index == Digits(CounterBase(cofactors), id)
  IN  [l \in Levels |-> [d \in Dims |-> cofactors[d][index[d + 1] + 1][l]]]

\* An empty space ends the program: the check for overflow divides by its size.
SizeKnown == size = IndexFactorizationSize(cofactors) /\ size > 0

\* AssignIndexFactors
UberLoops(fac) ==
  LET loops == [d \in Dims |-> Assigned(config.bound[d], [l \in Levels |-> fac[l][d]])]
  IN  [l \in Levels |-> [d \in Dims |-> loops[d][l]]]

\* Something left over of a bound that is given level by level ends the program.
UberConstructible(c) ==
  \A d \in Dims : SplitPossible(c.bound[d], Len(c.levels), UserFixed(c, d))

\* Uber::Init: all spaces, unpruned.
UberInit ==
  /\ UberConstructible(config)
  /\ cofactors = [d \in Dims |-> CofactorsOf(config, d)]
  /\ SizeKnown
  /\ patterns = Patterns(NothingPruned)
  /\ splits = SpatialSplits(NothingPruned)

InTurn(i) == \A j \in Splits : j < i => Walked(j)

\* InitPruned of the thread whose copy is followed.
UberInitPruned ==
  /\ InTurn(mine)
  /\ PruneSplit(mine)
  /\ factors' = FactorsOf(pruned'[mine])
  /\ patterns' = Patterns(UnitFactors(1, factors'))
  /\ splits' = SpatialSplits(UnitFactors(1, factors'))
  /\ mapping' = NoMapping
  /\ UNCHANGED <<config, mine, cofactors>>

\* The last ConstructMapping it makes from that factorization, with whatever permutation,
\* spatial split and bypass nest.
UberConstructMapping(perm, split, bypass) ==
  /\ ConstructFromSplit(mine)
  /\ mapping' = MappingOf(patterns, splits, perm, split, bypass, UberLoops(factors))
  /\ UNCHANGED <<config, mine, cofactors, factors, patterns, splits>>
=============================================================================
