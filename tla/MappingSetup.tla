---------------------------- MODULE MappingSetup ----------------------------
(***************************************************************************)
(* The constructor of timeloop-model up to the check of its mapping: the    *)
(* architecture constraints are read one by one, then the directives of the *)
(* mapping, the mapping is constructed and validated against the            *)
(* constraints.  Any refusal ends the program.                              *)
(***************************************************************************)
EXTENDS Constraints, MappingDirectives

(***************************************************************************)
(* Reading a user's mapping: each directive overwrites what was said of its *)
(* level before, and the whole is padded, checked against the dimension     *)
(* bounds and turned into a loop nest.                                      *)
(***************************************************************************)

\* What ParseAndConstruct has collected before the first directive.
NothingRead ==
  [factors      |-> [t \in TilingLevels |-> [dim \in Dims |-> {}]],
   permutations |-> [t \in TilingLevels |-> <<>>],
   splits       |-> [t \in TilingLevels |-> {}],
   keep         |-> [v \in DataSpaces |-> [l \in StorageLevels |->
                       IF l = NumStorageLevels THEN {TRUE} ELSE {}]],
   flags        |-> [f \in FlagNames |-> [l \in StorageLevels |-> {}]],
   skews        |-> [l \in StorageLevels |-> {}]]

\* A term's end (0 is the whole bound) and residual, the end where none is written.
ParseUserFactors(d) ==
  [dim \in Dims |->
     {LET end == IF term.end = 0 THEN Bound[dim] ELSE term.end
      IN  [end |-> end, residual |-> IF term.residual = {} THEN end
                                     ELSE CHOOSE r \in term.residual : TRUE] :
        term \in LastTerm(d, TermsOf(d, dim, "="))}]

\* The keys looked up for each flag; no_multicast's second look-up repeats the first.
MappingFlags ==
  [spatial  |-> [no_link_transfer |-> <<"no_link_transfer">>, no_multicast |-> <<"no_reuse">>],
   temporal |-> [no_temporal_reuse |-> <<"no_reuse", "no_temporal_reuse">>,
                 rmw_first_update |-> <<"rmw_first_update">>],
   datatype |-> [no_coalesce |-> <<"no_coalesce">>]]

UserFlagSet(d, f) ==
  LET table == IF IsNestType(d.type) THEN MappingFlags[d.type] ELSE MappingFlags.datatype
  IN  IF f \in DOMAIN table THEN FirstKey(d, table[f]) ELSE {}

WithUserFlags(p, d) ==
  [f \in FlagNames |-> [p.flags[f] EXCEPT ![d.target] = Override(@, UserFlagSet(d, f))]]

\* Whether a directive of a mapping is read to its end; otherwise the program ends, with
\* an error or an uncaught exception.  Of the types, "dataspace" is known to
\* ParseAndConstruct and not to FindTargetTilingLevel; of a factor string only the terms
\* with "=" are seen; a permutation has no separator.
Readable(d) ==
  /\ d.target \in StorageLevels
  /\ \/ d.type \in {"temporal", "datatype", "bypass", "skew"}
     \/ d.type = "spatial" /\ d.target \in SpatialStorageLevels
  /\ IsNestType(d.type) =>
       /\ \A j \in DOMAIN d.factors : d.factors[j].rel = "=" => d.factors[j].dim \in Dims
       /\ \A j \in DOMAIN d.prefix : d.prefix[j] \in Dims
       /\ d.suffix = <<>>
  /\ d.type # "skew" => \A f \in FlagNames : \A vs \in UserFlagSet(d, f) : vs \subseteq DataSpaces
  /\ d.type \in {"datatype", "bypass"} => d.keep \cup d.bypass \subseteq DataSpaces
  /\ d.type = "skew" => d.skew # {}

UserLevel(d) == IF d.type = "spatial" THEN SpatialToTiling(d.target) ELSE TemporalToTiling(d.target)

ReadNestDirective(p, d) ==
  [p EXCEPT !.factors[UserLevel(d)] = ParseUserFactors(d),
            !.permutations[UserLevel(d)] = d.prefix,
            !.splits[UserLevel(d)] = IF d.type = "spatial" THEN Override({NumDims}, d.split) ELSE @,
            !.flags = WithUserFlags(p, d)]

ParseUserDatatypeBypassSettings(p, d) ==
  [p EXCEPT !.keep = [v \in DataSpaces |-> [@[v] EXCEPT ![d.target] =
                        CASE v \in d.bypass -> {FALSE}
                          [] v \in d.keep \ d.bypass -> {TRUE}
                          [] OTHER -> @]],
            !.flags = WithUserFlags(p, d)]

ReadDirective(p, d) ==
  CASE IsNestType(d.type) -> ReadNestDirective(p, d)
    [] d.type \in {"datatype", "bypass"} -> ParseUserDatatypeBypassSettings(p, d)
    [] OTHER -> [p EXCEPT !.skews[d.target] = d.skew]

---------------------------------------------------------------------------
(* From what was read to the nest.                                          *)

\* A permutation of another length is completed by the dimensions it lacks.
PaddedPermutation(p, t) ==
  LET given == p.permutations[t]
  IN  IF Len(given) = NumDims THEN given
      ELSE given \o Where([dim \in Dims |-> dim], Dims \ Range(given))

PaddedFactor(p, t, dim) ==
  IF p.factors[t][dim] = {} THEN [end |-> 1, residual |-> 1] ELSE CHOOSE f \in p.factors[t][dim] : TRUE

PaddedSplit(p, t) == CHOOSE s \in Override({NumDims}, p.splits[t]) : TRUE

\* The loops of a tiling level, innermost first.
Subnest(p, t) ==
  LET permutation == PaddedPermutation(p, t)
      Loop(i) == LET factor == PaddedFactor(p, t, permutation[i])
                 IN  [dim |-> permutation[i], end |-> factor.end, residual |-> factor.residual,
                      kind |-> CASE ~IsSpatial(t) -> "Time"
                                 [] IsSpatial(t) /\ i <= PaddedSplit(p, t) -> "SpaceX"
                                 [] OTHER -> "SpaceY"]
  IN  [i \in Dims |-> Loop(i)]

\* The points the nest runs in a dimension, as the validity check computes them:
\* prod, less one, through the loops of a tiling level and the levels from the outermost.
Multiplied(prod, loop, dim) ==
  IF loop.dim = dim THEN prod * loop.end + loop.residual - 1 ELSE prod

MultipliedAlong(prod, loops, dim) ==
  LET along[n \in 0 .. Len(loops)] ==
        IF n = 0 THEN prod ELSE Multiplied(along[n - 1], loops[n], dim)
  IN  along

ProductFromOutside(p, dim) ==
  LET prod[n \in 0 .. NumTilingLevels] ==
        IF n = 0 THEN 0
        ELSE MultipliedAlong(prod[n - 1], Subnest(p, NumTilingLevels + 1 - n), dim)[NumDims]
  IN  prod

Product(p, dim) == 1 + ProductFromOutside(p, dim)[NumTilingLevels]

Multiplies(p) == \A dim \in Dims : Product(p, dim) = Bound[dim]

Kept_OffByOne(p, t) ==
  LET loops == Subnest(p, t)
      real  == Where(loops, {loop \in Range(loops) : loop.end > 2})
  IN  IF real = <<>> /\ ~IsSpatial(t)
      THEN << [dim |-> NumDims, end |-> 1, residual |-> 1, kind |-> "Time"] >>
      ELSE real

\* Trivial loops are dropped, but a temporal level has at least one loop.
Kept(p, t) ==
  LET loops == Subnest(p, t)
      real  == Where(loops, Real(loops))
  IN  IF real = <<>> /\ ~IsSpatial(t)
      THEN << [dim |-> NumDims, end |-> 1, residual |-> 1, kind |-> "Time"] >>
      ELSE real

\* The subnests of a storage level, its spatial one first.
LevelNest(l, subnest) ==
  (IF l \in SpatialStorageLevels THEN subnest[SpatialToTiling(l)] ELSE <<>>)
    \o subnest[TemporalToTiling(l)]

\* An unspecified data space is kept; every confidence threshold is 0.
ConstructMapping(p) ==
  LET kept     == [t \in TilingLevels |-> Kept(p, t)]
      complete == [t \in TilingLevels |-> Subnest(p, t)]
  IN  [nest       |-> [l \in StorageLevels |-> LevelNest(l, kept)],
       complete   |-> [l \in StorageLevels |-> LevelNest(l, complete)],
       keep       |-> [v \in DataSpaces |-> [l \in StorageLevels |-> p.keep[v][l] # {FALSE}]],
       flags      |-> p.flags,
       skews      |-> p.skews,
       confidence |-> [l \in StorageLevels |-> 0],
       fanoutX    |-> [l \in StorageLevels |-> FanoutX(l)],
       fanoutY    |-> [l \in StorageLevels |-> FanoutY(l)]]

-----------------------------------------------------------------------------
CONSTANTS ConstraintInputs,     \* the constraints a user may write
          MappingInputs,        \* the directives a user may write
          MaxConstraints,       \* bound on the constraints of an input
          MaxDirectives         \* bound on the directives of an input

\* What the conversions of the parsers return for the numbers of a directive.
ASSUME InputsAssumption ==
  /\ \A d \in ConstraintInputs \cup MappingInputs :
       /\ \A j \in DOMAIN d.factors : d.factors[j].end \in Nat
       /\ d.split \in SUBSET Nat
       /\ d.prefix \in Seq(Int)
  /\ \A d \in ConstraintInputs :
       /\ d.default_max \in SUBSET Int
       /\ d.default_min \in SUBSET Int
       /\ d.remainders \in SUBSET Nat
       /\ d.min \in SUBSET Nat
       /\ d.proportion \in SUBSET Nat
       /\ d.suffix \in Seq(Int)
  /\ \A d \in MappingInputs : \A j \in DOMAIN d.factors : d.factors[j].residual \in SUBSET Nat

VARIABLES
  phase,        \* "constraints", "mapping", "constructed", "accepted" or "stopped"
  given,        \* the constraints accepted so far
  constraints,  \* constraints_
  directives,   \* how many directives have been read
  parsed,       \* what ParseAndConstruct has collected
  mapping       \* mapping_, an optional value

vars == <<phase, given, constraints, directives, parsed, mapping>>

Init ==
  /\ phase = "constraints"
  /\ given = <<>>
  /\ constraints = NoConstraints
  /\ directives = 0
  /\ parsed = NothingRead
  /\ mapping = {}

\* ParseSingleConstraint, or exit(1).
ParseConstraint(d) ==
  /\ phase = "constraints"
  /\ Len(given) < MaxConstraints
  /\ IF Refuses(constraints, d)
     THEN phase' = "stopped" /\ UNCHANGED <<given, constraints>>
     ELSE /\ constraints' = ParseSingleConstraint(constraints, d)
          /\ given' = Append(given, d)
          /\ UNCHANGED phase
  /\ UNCHANGED <<directives, parsed, mapping>>

EndConstraints ==
  /\ phase = "constraints"
  /\ phase' = "mapping"
  /\ UNCHANGED <<given, constraints, directives, parsed, mapping>>

\* One directive of the mapping, or exit(1).
ParseDirective(d) ==
  /\ phase = "mapping"
  /\ directives < MaxDirectives
  /\ directives' = directives + 1
  /\ IF Readable(d)
     THEN parsed' = ReadDirective(parsed, d) /\ UNCHANGED phase
     ELSE phase' = "stopped" /\ UNCHANGED parsed
  /\ UNCHANGED <<given, constraints, mapping>>

\* The factors of every dimension must multiply up to its bound.
Construct ==
  /\ phase = "mapping"
  /\ IF Multiplies(parsed)
     THEN phase' = "constructed" /\ mapping' = {ConstructMapping(parsed)}
     ELSE phase' = "stopped" /\ UNCHANGED mapping
  /\ UNCHANGED <<given, constraints, directives, parsed>>

Validate ==
  /\ phase = "constructed"
  /\ phase' = IF \A m \in mapping : SatisfiedBy(constraints, m) THEN "accepted" ELSE "stopped"
  /\ UNCHANGED <<given, constraints, directives, parsed, mapping>>

Next ==
  \/ \E d \in ConstraintInputs : ParseConstraint(d)
  \/ EndConstraints
  \/ \E d \in MappingInputs : ParseDirective(d)
  \/ Construct
  \/ Validate

Spec == Init /\ [][Next]_vars

---------------------------------------------------------------------------

\* Every accepted constraint is in force in the object, whatever was read after it: none
\* of its factors, bounds, permutations, splits, keep flags below the outermost level or
\* other flags was overwritten.  (The re-specification errors of ParseSingleConstraint.)
NestHolds(c, d) ==
  IsNestType(d.type) =>
    LET t == FindTargetTilingLevel(d)
    IN  /\ \A dim \in Dims : /\ ParseFactors(d)[dim] \subseteq c.factors[t][dim]
                             /\ ParseMaxFactors(d)[dim] \subseteq c.max_factors[t][dim]
                             /\ ParseMinFactors(d)[dim] \subseteq c.min_factors[t][dim]
        /\ ParsePermutations(d) # NoPermutation => c.permutations[t] = ParsePermutations(d)
        /\ d.type = "spatial" => d.split \subseteq c.splits[t]

KeepHolds(c, d) ==
  IsDatatype(d.type) /\ d.target # NumStorageLevels =>
    /\ \A v \in d.keep : c.keep[v][d.target] = {TRUE}
    /\ \A v \in d.bypass : c.keep[v][d.target] = {FALSE}

FlagsHold(c, d) ==
  IsNestType(d.type) \/ IsDatatype(d.type) =>
    \A f \in FlagNames : FlagSet(d, f) \subseteq c.flags[f][d.target]

Holds(c, d) == NestHolds(c, d) /\ KeepHolds(c, d) /\ FlagsHold(c, d)
NothingOverwritten == \A i \in DOMAIN given : Holds(constraints, given[i])

\* The loops of a storage level that a constraint of this type is about.
LoopsOf(m, d) ==
  Where(m.nest[d.target],
        {loop \in Range(m.nest[d.target]) : (loop.kind = "Time") = (d.type = "temporal")})

\* No permutation string of a mapping has a dimension twice: the parser does not look.
DimensionsListedOnce ==
  \A d \in MappingInputs : \A i, j \in DOMAIN d.prefix : d.prefix[i] = d.prefix[j] => i = j

\* What the first n of some loops multiply up to in a dimension.
Factored(factor, loop, dim) == IF loop.dim = dim THEN factor * loop.end ELSE factor

FactorAlong(loops, dim) ==
  LET factor[n \in 0 .. Len(loops)] == IF n = 0 THEN 1 ELSE Factored(factor[n - 1], loops[n], dim)
  IN  factor

\* An accepted mapping has, level by level, the factors its user's constraints fix, none
\* above the ones they bound, and as many X loops as they split off.  (Constraint parsing,
\* mapping parsing, Generate and SatisfiedBy together.)
AcceptedKeepsFactors ==
  phase = "accepted" =>
    \A m \in mapping : \A i \in DOMAIN given :
      LET d == given[i]
          loops == LoopsOf(m, d)
          Along(dim) == FactorAlong(loops, dim)[Len(loops)]
      IN  IsNestType(d.type) =>
            /\ \A dim \in Dims : /\ \A f \in ParseFactors(d)[dim] : Along(dim) = f
                                 /\ \A f \in ParseMaxFactors(d)[dim] : Along(dim) <= f
            /\ d.type = "spatial" => \A s \in d.split : Len(Where(loops, OfKind(loops, "SpaceX"))) = s

\* The points a nest runs in one dimension, loop by loop from the innermost: of all the
\* loops so far, and in the last iteration of every loop outside of them.  A loop runs its
\* residual while the loops of the dimension outside it are in their last iteration, and
\* its end otherwise.
RunsOf(runs, loop, dim) ==
  IF loop.dim # dim THEN runs
  ELSE [all  |-> loop.end * runs.all,
        last |-> (loop.residual - 1) * runs.all + runs.last]

RunsAlong(runs, loops, dim) ==
  LET along[n \in 0 .. Len(loops)] == IF n = 0 THEN runs ELSE RunsOf(along[n - 1], loops[n], dim)
  IN  along

NestRuns(m, dim) ==
  LET upto[l \in 0 .. NumStorageLevels] ==
        IF l = 0 THEN [all |-> 1, last |-> 1]
        ELSE RunsAlong(upto[l - 1], m.nest[l], dim)[Len(m.nest[l])]
  IN  upto

\* A term of one iteration has no other residual: the parser does not look.
UnitTermsAreWhole ==
  \A d \in MappingInputs : \A j \in DOMAIN d.factors :
    LET term == d.factors[j]
    IN  term.dim \in Dims /\ (IF term.end = 0 THEN Bound[term.dim] ELSE term.end) = 1 =>
          term.residual \subseteq {1}

\* A constructed mapping runs every dimension over exactly its bound, imperfect factors
\* included, trivial loops dropped.  (The validity check of ParseAndConstruct.)
NestCoversBounds ==
  \A m \in mapping : \A dim \in Dims : NestRuns(m, dim)[NumStorageLevels].last = Bound[dim]

\* What a user gets back when a printed mapping is read again.
ReadBack(list) == FoldLeft(ReadDirective, NothingRead, list)

IsPerfect(m) ==
  \A l \in StorageLevels : \A j \in DOMAIN m.nest[l] : m.nest[l][j].end = m.nest[l][j].residual

ReadsBackAs(list, m) ==
  LET again == ReadBack(list)
  IN  /\ Multiplies(again)
      /\ ConstructMapping(again).nest = m.nest
      /\ ConstructMapping(again).keep = m.keep

\* A mapping printed by the mapper or the model and read again as a mapping is
\* the same nest with the same data spaces kept, as long as its factors are
\* perfect: the printers write no residual.  Read as constraints, it gives the
\* constraints that Generate derives from the mapping, and they admit it.
\* (Formats written and read by code that shares nothing.)
PrintedReadsBack ==
  \A m \in mapping :
    /\ IsPerfect(m) =>
         ReadsBackAs(FormatAsYaml(m), m) /\ ReadsBackAs(FormatAsLibConfig(m), m)
    /\ LET again == FoldLeft(ParseSingleConstraint, NoConstraints, FormatAsConstraints(m))
       IN  again = Generate(m) /\ SatisfiedBy(again, m)
=============================================================================
