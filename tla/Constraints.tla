---------------------------- MODULE Constraints -----------------------------
(***************************************************************************)
(* The constraints object: reading the user's constraints one by one,       *)
(* deriving the constraints a mapping stands for, and checking a mapping    *)
(* against constraints.                                                     *)
(***************************************************************************)
EXTENDS MappingDirectives

\* The object as its constructor leaves it: nothing constrained, except that the
\* outermost level keeps every data space.  Confidences, in percent, are those of the
\* storage levels, although they are later written and read by other numbers.
NoConstraints ==
  [factors        |-> [t \in TilingLevels |-> [dim \in Dims |-> {}]],
   max_factors    |-> [t \in TilingLevels |-> [dim \in Dims |-> {}]],
   min_factors    |-> [t \in TilingLevels |-> [dim \in Dims |-> {}]],
   permutations   |-> [t \in TilingLevels |-> [prefix |-> <<>>, suffix |-> <<>>]],
   splits         |-> [t \in TilingLevels |-> {}],
   max_remainders |-> [t \in TilingLevels |-> {}],
   keep           |-> [v \in DataSpaces |-> [l \in StorageLevels |->
                         IF l = NumStorageLevels THEN {TRUE} ELSE {}]],
   flags          |-> [f \in FlagNames |-> [l \in StorageLevels |-> {}]],
   confidence     |-> [t \in TilingLevels |-> IF t \in StorageLevels THEN {100} ELSE {}],
   parallelism    |-> {}]

---------------------------------------------------------------------------
(* Reading one constraint.                                                  *)

\* A factor of 0 means the whole bound; one above the bound is ignored.
ParseFactors(d) ==
  [dim \in Dims |->
     {IF term.end = 0 THEN Bound[dim] ELSE term.end :
        term \in LastTerm(d, {j \in TermsOf(d, dim, "=") : d.factors[j].end <= Bound[dim]})}]

ParseMaxFactors(d) ==
  [dim \in Dims |->
     Override(d.default_max, {term.end : term \in LastTerm(d, TermsOf(d, dim, "<="))})]

ParseMinFactors(d) ==
  [dim \in Dims |->
     Override(d.default_min, {term.end : term \in LastTerm(d, TermsOf(d, dim, ">="))})]

ParsePermutations(d) == [prefix |-> d.prefix, suffix |-> d.suffix]
NoPermutation == [prefix |-> <<>>, suffix |-> <<>>]

IsDatatype(type) == type \in {"datatype", "bypass", "bypassing", "dataspace"}

\* The flags a constraint of each type may set, under the keys they are looked up by.
FlagTable(d) ==
  CASE d.type = "spatial"   -> [no_link_transfer |-> <<"no_link_transfer">>,
                                no_multicast |-> <<"no_reuse", "no_multicast_no_reduction">>]
    [] d.type = "temporal"  -> [no_temporal_reuse |-> <<"no_reuse", "no_temporal_reuse">>,
                                rmw_first_update |-> <<"rmw_first_update">>]
    [] IsDatatype(d.type)   -> [no_coalesce |-> <<"no_coalesce">>]
    [] OTHER                -> <<>>

FlagSet(d, f) == IF f \in DOMAIN FlagTable(d) THEN FirstKey(d, FlagTable(d)[f]) ELSE {}

\* FindTargetTilingLevel: whether the target has a level of the directive's type.
HasTarget(d) ==
  /\ d.target \in StorageLevels
  /\ \/ d.type = "temporal" \/ IsDatatype(d.type) \/ d.type = "max_overbooked_proportion"
     \/ d.type = "spatial" /\ d.target \in SpatialStorageLevels
     \/ d.type \in {"utilization", "parallelism"} /\ d.target = 1

FindTargetTilingLevel(d) ==
  IF d.type = "spatial" THEN SpatialToTiling(d.target) ELSE TemporalToTiling(d.target)

\* The names that the parsers of the constraint's type look up exist, its bounds are
\* positive and its value is there (an assertion).  A list names no data space twice.
WellFormed(d) ==
  /\ IsNestType(d.type) =>
       /\ \A j \in DOMAIN d.factors : /\ d.factors[j].dim \in Dims
                                      /\ d.factors[j].rel = "=" \/ d.factors[j].end > 0
       /\ \A j \in DOMAIN d.prefix : d.prefix[j] \in Dims
       /\ \A j \in DOMAIN d.suffix : d.suffix[j] \in Dims
  /\ \A f \in FlagNames : \A vs \in FlagSet(d, f) : vs \subseteq DataSpaces
  /\ IsDatatype(d.type) => d.keep \cup d.bypass \subseteq DataSpaces
  /\ d.type = "max_overbooked_proportion" => d.proportion # {}
  /\ d.type \in {"utilization", "parallelism"} => d.min # {}

NestConflicts_FactorsForgotten(c, d) ==
  LET t == FindTargetTilingLevel(d)
  IN  \/ \E dim \in Dims : \/ ParseMaxFactors(d)[dim] # {} /\ c.max_factors[t][dim] # {}
                           \/ ParseMinFactors(d)[dim] # {} /\ c.min_factors[t][dim] # {}
      \/ ParsePermutations(d) # NoPermutation /\ c.permutations[t] # NoPermutation
      \/ d.type = "spatial" /\ d.split # {} /\ c.splits[t] # {}

\* What a factor, permutation, split or flag says was said before at the level.
NestConflicts(c, d) ==
  LET t == FindTargetTilingLevel(d)
  IN  \/ \E dim \in Dims : \/ ParseFactors(d)[dim] # {} /\ c.factors[t][dim] # {}
                           \/ ParseMaxFactors(d)[dim] # {} /\ c.max_factors[t][dim] # {}
                           \/ ParseMinFactors(d)[dim] # {} /\ c.min_factors[t][dim] # {}
      \/ ParsePermutations(d) # NoPermutation /\ c.permutations[t] # NoPermutation
      \/ d.type = "spatial" /\ d.split # {} /\ c.splits[t] # {}

FlagConflicts(c, d) ==
  \E f \in FlagNames : FlagSet(d, f) # {} /\ c.flags[f][d.target] # {}

\* The outermost level's keep flag may be overwritten; any other may not, not even by
\* the other list of the same directive.
DatatypeConflicts(c, d) ==
  /\ d.target # NumStorageLevels
  /\ \/ \E v \in d.keep \cup d.bypass : c.keep[v][d.target] # {}
     \/ d.keep \cap d.bypass # {}

Conflicts(c, d) ==
  \/ IsNestType(d.type) /\ (NestConflicts(c, d) \/ FlagConflicts(c, d))
  \/ IsDatatype(d.type) /\ (DatatypeConflicts(c, d) \/ FlagConflicts(c, d))
  \/ d.type \in {"utilization", "parallelism"} /\ c.parallelism # {}

Refuses(c, d) == ~HasTarget(d) \/ ~WellFormed(d) \/ Conflicts(c, d)

WithFlags(c, d) ==
  [f \in FlagNames |-> [c.flags[f] EXCEPT ![d.target] = Override(@, FlagSet(d, f))]]

ParseNestConstraint(c, d) ==
  LET t == FindTargetTilingLevel(d)
      Merge(old, new) == [old EXCEPT ![t] = [dim \in Dims |-> Override(old[t][dim], new[dim])]]
  IN  [c EXCEPT !.factors = Merge(@, ParseFactors(d)),
                !.max_factors = Merge(@, ParseMaxFactors(d)),
                !.min_factors = Merge(@, ParseMinFactors(d)),
                !.permutations[t] = IF ParsePermutations(d) = NoPermutation
                                    THEN @ ELSE ParsePermutations(d),
                !.splits[t] = IF d.type = "spatial" THEN Override(@, d.split) ELSE @,
                !.max_remainders[t] = Override(@, d.remainders),
                !.flags = WithFlags(c, d)]

\* The bypass list is read after the keep list.
WithKeep(c, d) ==
  [v \in DataSpaces |-> [c.keep[v] EXCEPT ![d.target] = CASE v \in d.bypass -> {FALSE}
                                                          [] v \in d.keep \ d.bypass -> {TRUE}
                                                          [] OTHER -> @]]

ParseDatatypeBypassSettings(c, d) == [c EXCEPT !.keep = WithKeep(c, d), !.flags = WithFlags(c, d)]

\* The threshold is filed under the number of the tiling level, where the constructor
\* filed one per storage level.
ParseConfidence(c, d) ==
  [c EXCEPT !.confidence[FindTargetTilingLevel(d)] = {100 - p : p \in d.proportion}]

ParseSingleConstraint(c, d) ==
  CASE IsNestType(d.type) -> ParseNestConstraint(c, d)
    [] IsDatatype(d.type) -> ParseDatatypeBypassSettings(c, d)
    [] d.type = "max_overbooked_proportion" -> ParseConfidence(c, d)
    [] OTHER -> [c EXCEPT !.parallelism = d.min]

---------------------------------------------------------------------------
(* The constraints a mapping stands for, and the check of a mapping.        *)

\* Spatial factors are generated only where the mapping has a spatial loop.
HasSpatial(m, t) == IsSpatial(t) /\ SpatialOrder(m, TilingToStorage(t)) # <<>>
Unconstrained(m, t) == IsSpatial(t) /\ ~HasSpatial(m, t)

LevelFactors(m, t) ==
  IF IsSpatial(t) THEN SpatialFactors(m, TilingToStorage(t)) ELSE TemporalFactors(m, TilingToStorage(t))

LevelPermutation(m, t) ==
  IF IsSpatial(t) THEN SpatialPermutation(m, TilingToStorage(t))
                  ELSE TemporalPermutation(m, TilingToStorage(t))

Generate(m) ==
  [NoConstraints EXCEPT
     !.factors = [t \in TilingLevels |-> [dim \in Dims |->
                    IF Unconstrained(m, t) THEN {} ELSE {LevelFactors(m, t)[dim]}]],
     !.permutations = [t \in TilingLevels |->
                    IF Unconstrained(m, t) THEN NoPermutation
                    ELSE [prefix |-> LevelPermutation(m, t), suffix |-> <<>>]],
     !.splits = [t \in TilingLevels |->
                    IF HasSpatial(m, t) THEN {SpatialSplit(m, TilingToStorage(t))} ELSE {}],
     !.keep = [v \in DataSpaces |-> [l \in StorageLevels |-> {m.keep[v][l]}]]]

\* The walk along the two permutations: a mismatch is skipped when a factor is 1, the
\* factor looked up being that of the position reached in the constrained permutation.
PermutationFollows(permutation, other, factors) ==
  LET walk[i \in 1 .. Len(permutation) + 1, j \in 1 .. Len(other) + 1] ==
        CASE i > Len(permutation) \/ j > Len(other) -> TRUE
          [] i <= Len(permutation) /\ j <= Len(other) /\ permutation[i] = other[j] -> walk[i + 1, j + 1]
          [] OTHER -> factors[other[i]] = 1 /\ walk[i, j + 1]
  IN  walk[1, 1]

ConstrainsNest(c, t) == \/ \E dim \in Dims : c.factors[t][dim] \cup c.max_factors[t][dim] # {}
                        \/ c.permutations[t] # NoPermutation
                        \/ c.splits[t] # {}

SatisfiedBy_FactorsOnly(c, m) ==
  \A t \in TilingLevels : ConstrainsNest(c, t) =>
    /\ ~Unconstrained(m, t)
    /\ \A dim \in Dims : \A f \in c.factors[t][dim] : LevelFactors(m, t)[dim] = f
    /\ PermutationFollows(c.permutations[t].prefix, LevelPermutation(m, t), LevelFactors(m, t))
    /\ \A s \in c.splits[t] : SpatialSplit(m, TilingToStorage(t)) = s

\* An assertion requires the mapping to have generated factors wherever a level is
\* constrained; the suffix, min factors, remainders and keep flags are not compared.
SatisfiedBy(c, m) ==
  \A t \in TilingLevels : ConstrainsNest(c, t) =>
    /\ ~Unconstrained(m, t)
    /\ \A dim \in Dims : /\ \A f \in c.factors[t][dim] : LevelFactors(m, t)[dim] = f
                         /\ \A f \in c.max_factors[t][dim] : LevelFactors(m, t)[dim] <= f
    /\ PermutationFollows(c.permutations[t].prefix, LevelPermutation(m, t), LevelFactors(m, t))
    /\ \A s \in c.splits[t] : SpatialSplit(m, TilingToStorage(t)) = s
=============================================================================
