------------------------- MODULE MappingSetupProofs --------------------------
(***************************************************************************)
(* Whatever constraints and mappings a user writes, of any size: the        *)
(* constraints accepted are all in force in the constraints object, a       *)
(* constructed mapping runs exactly the bounds of the workload, and an      *)
(* accepted one has the factors and splits its constraints ask for.         *)
(***************************************************************************)
EXTENDS MappingSetup, FiniteSetTheorems, TLAPS

ConstraintsType ==
  [factors        : [TilingLevels -> [Dims -> SUBSET Int]],
   max_factors    : [TilingLevels -> [Dims -> SUBSET Int]],
   min_factors    : [TilingLevels -> [Dims -> SUBSET Int]],
   permutations   : [TilingLevels -> [prefix : Seq(Int), suffix : Seq(Int)]],
   splits         : [TilingLevels -> SUBSET Nat],
   max_remainders : [TilingLevels -> SUBSET Nat],
   keep           : [DataSpaces -> [StorageLevels -> SUBSET BOOLEAN]],
   flags          : [FlagNames -> [StorageLevels -> SUBSET SUBSET DataSpaces]],
   confidence     : [TilingLevels -> SUBSET Int],
   parallelism    : SUBSET Nat]

Accepted(d) == d \in ConstraintInputs /\ HasTarget(d) /\ WellFormed(d)

---------------------------------------------------------------------------

\* Every storage level's temporal and spatial tiling level is a tiling level.
LEMMA TilingLevelsInRange ==
  /\ NumTilingLevels \in Nat
  /\ \A l \in StorageLevels : TemporalToTiling(l) \in TilingLevels
  /\ \A l \in SpatialStorageLevels : SpatialToTiling(l) \in TilingLevels
<1> DEFINE Inside(l) == {k \in SpatialStorageLevels : k <= l}
<1>1. NumStorageLevels \in Nat /\ StorageLevels = 1 .. NumStorageLevels
  BY MeshesAssumption DEF MeshesAssumption, NumStorageLevels, StorageLevels
<1>2. IsFiniteSet(StorageLevels)
  BY <1>1, FS_Interval
<1>3. IsFiniteSet(SpatialStorageLevels)
  BY <1>2, FS_Subset DEF SpatialStorageLevels
<1>4. Cardinality(SpatialStorageLevels) \in Nat
  BY <1>3, FS_CardinalityType
<1>5. ASSUME NEW l \in StorageLevels
      PROVE  /\ IsFiniteSet(Inside(l))
             /\ Cardinality(Inside(l)) \in Nat
             /\ Cardinality(Inside(l)) <= Cardinality(SpatialStorageLevels)
  <2>1. Inside(l) \subseteq SpatialStorageLevels
    OBVIOUS
  <2> QED BY <2>1, <1>3, FS_Subset, FS_CardinalityType
<1>6. ASSUME NEW l \in SpatialStorageLevels
      PROVE  l \in StorageLevels /\ Cardinality(Inside(l)) >= 1
  <2>1. l \in StorageLevels
    BY DEF SpatialStorageLevels
  <2>2. l \in Int
    BY <2>1, <1>1
  <2>3. l \in Inside(l)
    BY <2>2
  <2>4. Inside(l) # {}
    BY <2>3
  <2>5. IsFiniteSet(Inside(l)) /\ Cardinality(Inside(l)) \in Nat
    BY <2>1, <1>5
  <2>6. Cardinality(Inside(l)) # 0
    BY <2>4, <2>5, FS_EmptySet
  <2> HIDE DEF Inside
  <2> QED BY <2>1, <2>5, <2>6
<1>7. NumTilingLevels = NumStorageLevels + Cardinality(SpatialStorageLevels)
  BY DEF NumTilingLevels
<1>8. \A l : TemporalToTiling(l) = l + Cardinality(Inside(l))
  BY DEF TemporalToTiling
<1>9. NumTilingLevels \in Nat
  BY <1>1, <1>4, <1>7
<1>10. ASSUME NEW l \in StorageLevels PROVE TemporalToTiling(l) \in TilingLevels
  <2>1. Cardinality(Inside(l)) \in Nat /\ Cardinality(Inside(l)) <= Cardinality(SpatialStorageLevels)
    BY <1>5
  <2>2. TemporalToTiling(l) = l + Cardinality(Inside(l))
    BY <1>8
  <2>3. l \in 1 .. NumStorageLevels
    BY <1>1
  <2> HIDE DEF Inside
  <2> QED BY <2>1, <2>2, <2>3, <1>1, <1>4, <1>7 DEF TilingLevels
<1>11. ASSUME NEW l \in SpatialStorageLevels PROVE SpatialToTiling(l) \in TilingLevels
  <2>1. /\ Cardinality(Inside(l)) \in Nat
        /\ Cardinality(Inside(l)) <= Cardinality(SpatialStorageLevels)
        /\ Cardinality(Inside(l)) >= 1
    BY <1>5, <1>6
  <2>2. /\ TemporalToTiling(l) = l + Cardinality(Inside(l))
        /\ SpatialToTiling(l) = TemporalToTiling(l) - 1
    BY <1>8 DEF SpatialToTiling
  <2>3. l \in 1 .. NumStorageLevels
    BY <1>1, <1>6
  <2> HIDE DEF Inside
  <2> QED BY <2>1, <2>2, <2>3, <1>1, <1>4, <1>7 DEF TilingLevels
<1> QED BY <1>9, <1>10, <1>11

\* The level a constraint is filed under is a tiling level.
LEMMA TargetInRange ==
  ASSUME NEW d, HasTarget(d)
  PROVE  FindTargetTilingLevel(d) \in TilingLevels /\ d.target \in StorageLevels
<1>1. CASE d.type = "spatial"
  BY <1>1, TilingLevelsInRange DEF HasTarget, FindTargetTilingLevel, IsDatatype
<1>2. CASE d.type # "spatial"
  BY <1>2, TilingLevelsInRange DEF HasTarget, FindTargetTilingLevel
<1> QED BY <1>1, <1>2

\* Overriding loses nothing where the new value comes only in place of none.
LEMMA OverrideKeeps ==
  ASSUME NEW old, NEW new, NEW S
  PROVE  /\ new \subseteq Override(old, new)
         /\ (new # {} => old = {}) /\ S \subseteq old => S \subseteq Override(old, new)
BY DEF Override

\* What the parsers of factors and flags return.
LEMMA ParsersType ==
  ASSUME NEW d, Accepted(d)
  PROVE  /\ ParseFactors(d) \in [Dims -> SUBSET Int]
         /\ ParseMaxFactors(d) \in [Dims -> SUBSET Int]
         /\ ParseMinFactors(d) \in [Dims -> SUBSET Int]
         /\ ParsePermutations(d) \in [prefix : Seq(Int), suffix : Seq(Int)]
         /\ \A f \in FlagNames : FlagSet(d, f) \in SUBSET SUBSET DataSpaces
<1> USE DEF Accepted
<1>1. \A j \in DOMAIN d.factors : d.factors[j].end \in Int
  BY InputsAssumption DEF InputsAssumption
<1>2. d.default_max \in SUBSET Int /\ d.default_min \in SUBSET Int
  BY InputsAssumption DEF InputsAssumption
<1>3. \A dim \in Dims : Bound[dim] \in Int
  BY WorkloadAssumption DEF WorkloadAssumption
<1>4. ASSUME NEW dim \in Dims PROVE ParseFactors(d)[dim] \in SUBSET Int
  BY <1>1, <1>3 DEF ParseFactors, LastTerm, TermsOf
<1>5. ASSUME NEW dim \in Dims PROVE ParseMaxFactors(d)[dim] \in SUBSET Int
  BY <1>1, <1>2 DEF ParseMaxFactors, LastTerm, TermsOf, Override
<1>6. ASSUME NEW dim \in Dims PROVE ParseMinFactors(d)[dim] \in SUBSET Int
  BY <1>1, <1>2 DEF ParseMinFactors, LastTerm, TermsOf, Override
<1>7. ParsePermutations(d) \in [prefix : Seq(Int), suffix : Seq(Int)]
  BY InputsAssumption DEF InputsAssumption, ParsePermutations
<1>8. \A f \in FlagNames : FlagSet(d, f) \in SUBSET SUBSET DataSpaces
  BY DEF WellFormed
<1>9. ParseFactors(d) \in [Dims -> SUBSET Int]
  BY <1>4 DEF ParseFactors
<1>10. ParseMaxFactors(d) \in [Dims -> SUBSET Int]
  BY <1>5 DEF ParseMaxFactors
<1>11. ParseMinFactors(d) \in [Dims -> SUBSET Int]
  BY <1>6 DEF ParseMinFactors
<1> QED BY <1>7, <1>8, <1>9, <1>10, <1>11

---------------------------------------------------------------------------

\* Nothing is constrained at first.
LEMMA InitType == NoConstraints \in ConstraintsType
BY DEF NoConstraints, NoPermutation, ConstraintsType

\* The flags of all levels after one constraint.
LEMMA FlagsType ==
  ASSUME NEW c \in ConstraintsType, NEW d, Accepted(d)
  PROVE  WithFlags(c, d) \in [FlagNames -> [StorageLevels -> SUBSET SUBSET DataSpaces]]
<1>1. \A f \in FlagNames : FlagSet(d, f) \in SUBSET SUBSET DataSpaces
  BY ParsersType
<1>2. c.flags \in [FlagNames -> [StorageLevels -> SUBSET SUBSET DataSpaces]]
  BY DEF ConstraintsType
<1>3. ASSUME NEW f \in FlagNames
      PROVE  [c.flags[f] EXCEPT ![d.target] = Override(@, FlagSet(d, f))]
               \in [StorageLevels -> SUBSET SUBSET DataSpaces]
  BY <1>1, <1>2, TargetInRange DEF Override, Accepted
<1> QED BY <1>3 DEF WithFlags

\* Reading a constraint of the nest keeps the object's type.
LEMMA NestType ==
  ASSUME NEW c \in ConstraintsType, NEW d, Accepted(d), IsNestType(d.type)
  PROVE  ParseNestConstraint(c, d) \in ConstraintsType
<1> DEFINE t == FindTargetTilingLevel(d)
           Merge(old, new) == [old EXCEPT ![t] = [dim \in Dims |-> Override(old[t][dim], new[dim])]]
           permutation == IF ParsePermutations(d) = NoPermutation
                          THEN c.permutations[t] ELSE ParsePermutations(d)
           split == IF d.type = "spatial" THEN Override(c.splits[t], d.split) ELSE c.splits[t]
<1>1. t \in TilingLevels
  BY TargetInRange DEF Accepted
<1>2. /\ c.factors \in [TilingLevels -> [Dims -> SUBSET Int]]
      /\ c.max_factors \in [TilingLevels -> [Dims -> SUBSET Int]]
      /\ c.min_factors \in [TilingLevels -> [Dims -> SUBSET Int]]
      /\ c.permutations \in [TilingLevels -> [prefix : Seq(Int), suffix : Seq(Int)]]
      /\ c.splits \in [TilingLevels -> SUBSET Nat]
      /\ c.max_remainders \in [TilingLevels -> SUBSET Nat]
  BY DEF ConstraintsType
<1>3. /\ ParseFactors(d) \in [Dims -> SUBSET Int]
      /\ ParseMaxFactors(d) \in [Dims -> SUBSET Int]
      /\ ParseMinFactors(d) \in [Dims -> SUBSET Int]
      /\ ParsePermutations(d) \in [prefix : Seq(Int), suffix : Seq(Int)]
  BY ParsersType
<1>m. ASSUME NEW old \in [TilingLevels -> [Dims -> SUBSET Int]], NEW new \in [Dims -> SUBSET Int]
      PROVE  Merge(old, new) \in [TilingLevels -> [Dims -> SUBSET Int]]
  <2> DEFINE row == [dim \in Dims |-> Override(old[t][dim], new[dim])]
  <2>1. old[t] \in [Dims -> SUBSET Int]
    BY <1>1
  <2>2. ASSUME NEW dim \in Dims PROVE Override(old[t][dim], new[dim]) \in SUBSET Int
    BY <2>1 DEF Override
  <2>3. row \in [Dims -> SUBSET Int]
    BY <2>2
  <2>4. Merge(old, new) = [old EXCEPT ![t] = row]
    OBVIOUS
  <2> HIDE DEF row, t, Merge
  <2> QED BY <1>1, <2>3, <2>4
<1>a. Merge(c.factors, ParseFactors(d)) \in [TilingLevels -> [Dims -> SUBSET Int]]
  <2> HIDE DEF t, Merge
  <2> QED BY <1>2, <1>3, <1>m
<1>b. Merge(c.max_factors, ParseMaxFactors(d)) \in [TilingLevels -> [Dims -> SUBSET Int]]
  <2> HIDE DEF t, Merge
  <2> QED BY <1>2, <1>3, <1>m
<1>c. Merge(c.min_factors, ParseMinFactors(d)) \in [TilingLevels -> [Dims -> SUBSET Int]]
  <2> HIDE DEF t, Merge
  <2> QED BY <1>2, <1>3, <1>m
<1>4. permutation \in [prefix : Seq(Int), suffix : Seq(Int)]
  BY <1>1, <1>2, <1>3
<1>5. d.split \in SUBSET Nat /\ d.remainders \in SUBSET Nat
  BY InputsAssumption DEF InputsAssumption, Accepted
<1>6. split \in SUBSET Nat /\ Override(c.max_remainders[t], d.remainders) \in SUBSET Nat
  BY <1>1, <1>2, <1>5 DEF Override
<1>7. WithFlags(c, d) \in [FlagNames -> [StorageLevels -> SUBSET SUBSET DataSpaces]]
  BY FlagsType
<1>8. ParseNestConstraint(c, d) =
        [factors        |-> Merge(c.factors, ParseFactors(d)),
         max_factors    |-> Merge(c.max_factors, ParseMaxFactors(d)),
         min_factors    |-> Merge(c.min_factors, ParseMinFactors(d)),
         permutations   |-> [c.permutations EXCEPT ![t] = permutation],
         splits         |-> [c.splits EXCEPT ![t] = split],
         max_remainders |-> [c.max_remainders EXCEPT ![t] = Override(c.max_remainders[t], d.remainders)],
         keep           |-> c.keep,
         flags          |-> WithFlags(c, d),
         confidence     |-> c.confidence,
         parallelism    |-> c.parallelism]
  <2>1. c = [factors |-> c.factors, max_factors |-> c.max_factors, min_factors |-> c.min_factors,
             permutations |-> c.permutations, splits |-> c.splits,
             max_remainders |-> c.max_remainders, keep |-> c.keep, flags |-> c.flags,
             confidence |-> c.confidence, parallelism |-> c.parallelism]
    BY DEF ConstraintsType
  <2>2. ParseNestConstraint(c, d) =
          [c EXCEPT !.factors = Merge(c.factors, ParseFactors(d)),
                    !.max_factors = Merge(c.max_factors, ParseMaxFactors(d)),
                    !.min_factors = Merge(c.min_factors, ParseMinFactors(d)),
                    !.permutations = [c.permutations EXCEPT ![t] = permutation],
                    !.splits = [c.splits EXCEPT ![t] = split],
                    !.max_remainders = [c.max_remainders EXCEPT ![t] =
                                          Override(c.max_remainders[t], d.remainders)],
                    !.flags = WithFlags(c, d)]
    BY <2>1 DEF ParseNestConstraint
  <2> HIDE DEF t, Merge, permutation, split
  <2> QED BY <2>1, <2>2
<1> HIDE DEF t, Merge, permutation, split
<1>9. /\ [c.permutations EXCEPT ![t] = permutation]
           \in [TilingLevels -> [prefix : Seq(Int), suffix : Seq(Int)]]
      /\ [c.splits EXCEPT ![t] = split] \in [TilingLevels -> SUBSET Nat]
      /\ [c.max_remainders EXCEPT ![t] = Override(c.max_remainders[t], d.remainders)]
           \in [TilingLevels -> SUBSET Nat]
  BY <1>1, <1>2, <1>4, <1>6
<1>10. /\ c.keep \in [DataSpaces -> [StorageLevels -> SUBSET BOOLEAN]]
       /\ c.confidence \in [TilingLevels -> SUBSET Int]
       /\ c.parallelism \in SUBSET Nat
  BY DEF ConstraintsType
<1> DEFINE f1 == Merge(c.factors, ParseFactors(d))
           f2 == Merge(c.max_factors, ParseMaxFactors(d))
           f3 == Merge(c.min_factors, ParseMinFactors(d))
           f4 == [c.permutations EXCEPT ![t] = permutation]
           f5 == [c.splits EXCEPT ![t] = split]
           f6 == [c.max_remainders EXCEPT ![t] = Override(c.max_remainders[t], d.remainders)]
           f7 == WithFlags(c, d)
<1>11. /\ f1 \in [TilingLevels -> [Dims -> SUBSET Int]]
       /\ f2 \in [TilingLevels -> [Dims -> SUBSET Int]]
       /\ f3 \in [TilingLevels -> [Dims -> SUBSET Int]]
       /\ f4 \in [TilingLevels -> [prefix : Seq(Int), suffix : Seq(Int)]]
       /\ f5 \in [TilingLevels -> SUBSET Nat]
       /\ f6 \in [TilingLevels -> SUBSET Nat]
       /\ f7 \in [FlagNames -> [StorageLevels -> SUBSET SUBSET DataSpaces]]
  BY <1>a, <1>b, <1>c, <1>7, <1>9
<1>12. ParseNestConstraint(c, d) =
         [factors |-> f1, max_factors |-> f2, min_factors |-> f3, permutations |-> f4,
          splits |-> f5, max_remainders |-> f6, keep |-> c.keep, flags |-> f7,
          confidence |-> c.confidence, parallelism |-> c.parallelism]
  BY <1>8
<1> HIDE DEF f1, f2, f3, f4, f5, f6, f7
<1> QED BY <1>10, <1>11, <1>12 DEF ConstraintsType

\* So does reading a constraint of any other type.
LEMMA ParseType ==
  ASSUME NEW c \in ConstraintsType, NEW d, Accepted(d)
  PROVE  ParseSingleConstraint(c, d) \in ConstraintsType
<1>1. FindTargetTilingLevel(d) \in TilingLevels /\ d.target \in StorageLevels
  BY TargetInRange DEF Accepted
<1>2. CASE IsNestType(d.type)
  <2>1. ParseSingleConstraint(c, d) = ParseNestConstraint(c, d)
    BY <1>2 DEF ParseSingleConstraint, IsNestType, IsDatatype
  <2> QED BY <1>2, <2>1, NestType
<1>3. CASE ~IsNestType(d.type) /\ IsDatatype(d.type)
  <2>1. c.keep \in [DataSpaces -> [StorageLevels -> SUBSET BOOLEAN]]
    BY DEF ConstraintsType
  <2>2. ASSUME NEW v \in DataSpaces
        PROVE  [c.keep[v] EXCEPT ![d.target] = CASE v \in d.bypass -> {FALSE}
                                                 [] v \in d.keep \ d.bypass -> {TRUE}
                                                 [] OTHER -> @] \in [StorageLevels -> SUBSET BOOLEAN]
    BY <2>1, <1>1
  <2>3. WithKeep(c, d) \in [DataSpaces -> [StorageLevels -> SUBSET BOOLEAN]]
    BY <2>2 DEF WithKeep
  <2>4. WithFlags(c, d) \in [FlagNames -> [StorageLevels -> SUBSET SUBSET DataSpaces]]
    BY FlagsType
  <2>5. ParseSingleConstraint(c, d) = [c EXCEPT !.keep = WithKeep(c, d), !.flags = WithFlags(c, d)]
    BY <1>3 DEF ParseSingleConstraint, ParseDatatypeBypassSettings, IsNestType, IsDatatype
  <2> QED BY <2>3, <2>4, <2>5 DEF ConstraintsType
<1>4. CASE ~IsNestType(d.type) /\ ~IsDatatype(d.type) /\ d.type = "max_overbooked_proportion"
  <2>1. {100 - p : p \in d.proportion} \in SUBSET Int
    BY InputsAssumption DEF InputsAssumption, Accepted
  <2>2. c.confidence \in [TilingLevels -> SUBSET Int]
    BY DEF ConstraintsType
  <2>3. [c.confidence EXCEPT ![FindTargetTilingLevel(d)] = {100 - p : p \in d.proportion}]
          \in [TilingLevels -> SUBSET Int]
    BY <2>1, <2>2, <1>1
  <2>4. ParseSingleConstraint(c, d) =
          [c EXCEPT !.confidence = [c.confidence EXCEPT ![FindTargetTilingLevel(d)] =
                                      {100 - p : p \in d.proportion}]]
    BY <1>4 DEF ParseSingleConstraint, ParseConfidence, ConstraintsType
  <2> QED BY <2>3, <2>4 DEF ConstraintsType
<1>5. CASE ~IsNestType(d.type) /\ ~IsDatatype(d.type) /\ d.type # "max_overbooked_proportion"
  <2>1. d.min \in SUBSET Nat
    BY InputsAssumption DEF InputsAssumption, Accepted
  <2>2. ParseSingleConstraint(c, d) = [c EXCEPT !.parallelism = d.min]
    BY <1>5 DEF ParseSingleConstraint
  <2> QED BY <2>1, <2>2 DEF ConstraintsType
<1> QED BY <1>2, <1>3, <1>4, <1>5

---------------------------------------------------------------------------

\* What reading a constraint makes of the object's fields.
LEMMA NestFields ==
  ASSUME NEW c \in ConstraintsType, NEW d, Accepted(d), IsNestType(d.type),
         NEW r, r = ParseSingleConstraint(c, d), NEW t, t = FindTargetTilingLevel(d)
  PROVE  /\ \A u \in TilingLevels, dim \in Dims :
              /\ r.factors[u][dim] = IF u = t THEN Override(c.factors[t][dim], ParseFactors(d)[dim])
                                              ELSE c.factors[u][dim]
              /\ r.max_factors[u][dim] =
                   IF u = t THEN Override(c.max_factors[t][dim], ParseMaxFactors(d)[dim])
                            ELSE c.max_factors[u][dim]
              /\ r.min_factors[u][dim] =
                   IF u = t THEN Override(c.min_factors[t][dim], ParseMinFactors(d)[dim])
                            ELSE c.min_factors[u][dim]
         /\ \A u \in TilingLevels :
              /\ r.permutations[u] = IF u = t /\ ParsePermutations(d) # NoPermutation
                                     THEN ParsePermutations(d) ELSE c.permutations[u]
              /\ r.splits[u] = IF u = t /\ d.type = "spatial"
                               THEN Override(c.splits[u], d.split) ELSE c.splits[u]
         /\ r.keep = c.keep
         /\ r.flags = WithFlags(c, d)
<1>1. t \in TilingLevels
  BY TargetInRange DEF Accepted
<1>2. r = ParseNestConstraint(c, d)
  BY DEF ParseSingleConstraint, IsNestType, IsDatatype
<1>3. /\ c.factors \in [TilingLevels -> [Dims -> SUBSET Int]]
      /\ c.max_factors \in [TilingLevels -> [Dims -> SUBSET Int]]
      /\ c.min_factors \in [TilingLevels -> [Dims -> SUBSET Int]]
      /\ c.permutations \in [TilingLevels -> [prefix : Seq(Int), suffix : Seq(Int)]]
      /\ c.splits \in [TilingLevels -> SUBSET Nat]
  BY DEF ConstraintsType
<1>4. DOMAIN c = {"factors", "max_factors", "min_factors", "permutations", "splits",
                  "max_remainders", "keep", "flags", "confidence", "parallelism"}
  BY DEF ConstraintsType
<1> DEFINE Merge(old, new) == [old EXCEPT ![t] = [dim \in Dims |-> Override(old[t][dim], new[dim])]]
<1>5. /\ r.factors = Merge(c.factors, ParseFactors(d))
      /\ r.max_factors = Merge(c.max_factors, ParseMaxFactors(d))
      /\ r.min_factors = Merge(c.min_factors, ParseMinFactors(d))
      /\ r.permutations = [c.permutations EXCEPT ![t] = IF ParsePermutations(d) = NoPermutation
                                                       THEN @ ELSE ParsePermutations(d)]
      /\ r.splits = [c.splits EXCEPT ![t] = IF d.type = "spatial" THEN Override(@, d.split) ELSE @]
      /\ r.keep = c.keep
      /\ r.flags = WithFlags(c, d)
  BY <1>2, <1>4 DEF ParseNestConstraint
<1>6. ASSUME NEW u \in TilingLevels, NEW dim \in Dims
      PROVE  /\ r.factors[u][dim] = IF u = t THEN Override(c.factors[t][dim], ParseFactors(d)[dim])
                                             ELSE c.factors[u][dim]
             /\ r.max_factors[u][dim] =
                   IF u = t THEN Override(c.max_factors[t][dim], ParseMaxFactors(d)[dim])
                            ELSE c.max_factors[u][dim]
             /\ r.min_factors[u][dim] =
                   IF u = t THEN Override(c.min_factors[t][dim], ParseMinFactors(d)[dim])
                            ELSE c.min_factors[u][dim]
  BY <1>1, <1>3, <1>5
<1>7. ASSUME NEW u \in TilingLevels
      PROVE  /\ r.permutations[u] = IF u = t /\ ParsePermutations(d) # NoPermutation
                                    THEN ParsePermutations(d) ELSE c.permutations[u]
             /\ r.splits[u] = IF u = t /\ d.type = "spatial"
                              THEN Override(c.splits[u], d.split) ELSE c.splits[u]
  BY <1>1, <1>3, <1>5
<1> QED BY <1>5, <1>6, <1>7

LEMMA OtherFields ==
  ASSUME NEW c \in ConstraintsType, NEW d, Accepted(d), ~IsNestType(d.type),
         NEW r, r = ParseSingleConstraint(c, d)
  PROVE  /\ r.factors = c.factors
         /\ r.max_factors = c.max_factors
         /\ r.min_factors = c.min_factors
         /\ r.permutations = c.permutations
         /\ r.splits = c.splits
         /\ r.keep = IF IsDatatype(d.type) THEN WithKeep(c, d) ELSE c.keep
         /\ r.flags = IF IsDatatype(d.type) THEN WithFlags(c, d) ELSE c.flags
<1>4. DOMAIN c = {"factors", "max_factors", "min_factors", "permutations", "splits",
                  "max_remainders", "keep", "flags", "confidence", "parallelism"}
  BY DEF ConstraintsType
<1>5. CASE IsDatatype(d.type)
  <2>1. r = [c EXCEPT !.keep = WithKeep(c, d), !.flags = WithFlags(c, d)]
    BY <1>5 DEF ParseSingleConstraint, ParseDatatypeBypassSettings, IsNestType, IsDatatype
  <2> QED BY <1>4, <1>5, <2>1
<1>6. CASE ~IsDatatype(d.type)
  <2>1. CASE d.type = "max_overbooked_proportion"
    <3>1. r = ParseConfidence(c, d)
      BY <1>6, <2>1 DEF ParseSingleConstraint
    <3> QED BY <1>4, <1>6, <3>1 DEF ParseConfidence
  <2>2. CASE d.type # "max_overbooked_proportion"
    <3>1. r = [c EXCEPT !.parallelism = d.min]
      BY <1>6, <2>2 DEF ParseSingleConstraint
    <3> QED BY <1>4, <1>6, <3>1
  <2> QED BY <2>1, <2>2
<1> QED BY <1>5, <1>6

\* A level's flags and keep flags after one constraint.
LEMMA FlagValues ==
  ASSUME NEW c \in ConstraintsType, NEW d, Accepted(d), NEW f \in FlagNames,
         NEW l \in StorageLevels
  PROVE  WithFlags(c, d)[f][l] =
           IF l = d.target THEN Override(c.flags[f][l], FlagSet(d, f)) ELSE c.flags[f][l]
<1>1. c.flags[f] \in [StorageLevels -> SUBSET SUBSET DataSpaces]
  BY DEF ConstraintsType
<1> QED BY <1>1 DEF WithFlags

LEMMA KeepValues ==
  ASSUME NEW c \in ConstraintsType, NEW d, Accepted(d), NEW v \in DataSpaces,
         NEW l \in StorageLevels
  PROVE  WithKeep(c, d)[v][l] =
           IF l # d.target THEN c.keep[v][l]
           ELSE CASE v \in d.bypass -> {FALSE}
                  [] v \in d.keep \ d.bypass -> {TRUE}
                  [] OTHER -> c.keep[v][l]
<1>1. c.keep[v] \in [StorageLevels -> SUBSET BOOLEAN]
  BY DEF ConstraintsType
<1> QED BY <1>1 DEF WithKeep

---------------------------------------------------------------------------

\* An accepted constraint is in force once read ...
LEMMA NewHolds ==
  ASSUME NEW c \in ConstraintsType, NEW d, Accepted(d), ~Conflicts(c, d)
  PROVE  Holds(ParseSingleConstraint(c, d), d)
<1> DEFINE r == ParseSingleConstraint(c, d)
           t == FindTargetTilingLevel(d)
<1>1. t \in TilingLevels /\ d.target \in StorageLevels
  BY TargetInRange DEF Accepted
<1>2. NestHolds(r, d)
  <2>1. CASE IsNestType(d.type)
    <3>1. /\ \A dim \in Dims :
               /\ r.factors[t][dim] = Override(c.factors[t][dim], ParseFactors(d)[dim])
               /\ r.max_factors[t][dim] = Override(c.max_factors[t][dim], ParseMaxFactors(d)[dim])
               /\ r.min_factors[t][dim] = Override(c.min_factors[t][dim], ParseMinFactors(d)[dim])
          /\ ParsePermutations(d) # NoPermutation => r.permutations[t] = ParsePermutations(d)
          /\ d.type = "spatial" => r.splits[t] = Override(c.splits[t], d.split)
      BY <1>1, <2>1, NestFields
    <3> HIDE DEF r, t
    <3> QED BY <3>1, OverrideKeeps DEF NestHolds, t
  <2> QED BY <2>1 DEF NestHolds
<1>3. KeepHolds(r, d)
  <2> SUFFICES ASSUME IsDatatype(d.type), d.target # NumStorageLevels
               PROVE  KeepHolds(r, d)
    BY DEF KeepHolds
  <2>1. d.keep \cap d.bypass = {} /\ d.keep \subseteq DataSpaces /\ d.bypass \subseteq DataSpaces
    BY DEF Conflicts, DatatypeConflicts, Accepted, WellFormed
  <2>2. ~IsNestType(d.type)
    BY DEF IsNestType, IsDatatype
  <2>3. r.keep = WithKeep(c, d)
    BY <2>2, OtherFields
  <2>4. \A v \in d.keep : r.keep[v][d.target] = {TRUE}
    BY <1>1, <2>1, <2>3, KeepValues
  <2>5. \A v \in d.bypass : r.keep[v][d.target] = {FALSE}
    <3> SUFFICES ASSUME NEW v \in d.bypass
                 PROVE  WithKeep(c, d)[v][d.target] = {FALSE}
      BY <2>3
    <3>1. v \in DataSpaces /\ v \notin d.keep \ d.bypass
      BY <2>1
    <3>2. WithKeep(c, d)[v][d.target] = CASE v \in d.bypass -> {FALSE}
                                          [] v \in d.keep \ d.bypass -> {TRUE}
                                          [] OTHER -> c.keep[v][d.target]
      BY <1>1, <3>1, KeepValues
    <3> QED BY <3>1, <3>2
  <2> HIDE DEF r
  <2> QED BY <2>4, <2>5 DEF KeepHolds
<1>4. FlagsHold(r, d)
  <2> SUFFICES ASSUME IsNestType(d.type) \/ IsDatatype(d.type), NEW f \in FlagNames
               PROVE  FlagSet(d, f) \subseteq r.flags[f][d.target]
    BY DEF FlagsHold
  <2>1. r.flags = WithFlags(c, d)
    BY NestFields, OtherFields
  <2>2. r.flags[f][d.target] = Override(c.flags[f][d.target], FlagSet(d, f))
    BY <1>1, <2>1, FlagValues
  <2> QED BY <2>2, OverrideKeeps
<1> QED BY <1>2, <1>3, <1>4 DEF Holds

\* ... and stays in force when another is accepted.
LEMMA OldHolds ==
  ASSUME NEW c \in ConstraintsType, NEW d, Accepted(d), ~Conflicts(c, d),
         NEW e, Accepted(e), Holds(c, e)
  PROVE  Holds(ParseSingleConstraint(c, d), e)
<1> DEFINE r == ParseSingleConstraint(c, d)
           t == FindTargetTilingLevel(d)
           u == FindTargetTilingLevel(e)
<1>1. /\ t \in TilingLevels /\ d.target \in StorageLevels
      /\ u \in TilingLevels /\ e.target \in StorageLevels
  BY TargetInRange DEF Accepted
<1>2. NestHolds(r, e)
  <2> SUFFICES ASSUME IsNestType(e.type) PROVE NestHolds(r, e)
    BY DEF NestHolds
  <2>1. /\ \A dim \in Dims : /\ ParseFactors(e)[dim] \subseteq c.factors[u][dim]
                             /\ ParseMaxFactors(e)[dim] \subseteq c.max_factors[u][dim]
                             /\ ParseMinFactors(e)[dim] \subseteq c.min_factors[u][dim]
        /\ ParsePermutations(e) # NoPermutation => c.permutations[u] = ParsePermutations(e)
        /\ e.type = "spatial" => e.split \subseteq c.splits[u]
    BY DEF Holds, NestHolds
  <2>2. CASE ~IsNestType(d.type)
    <3>1. /\ r.factors = c.factors /\ r.max_factors = c.max_factors
          /\ r.min_factors = c.min_factors
          /\ r.permutations = c.permutations /\ r.splits = c.splits
      BY <2>2, OtherFields
    <3> HIDE DEF r, t
    <3> QED BY <2>1, <3>1 DEF NestHolds
  <2>3. CASE IsNestType(d.type)
    <3>1. /\ \A dim \in Dims : /\ ParseFactors(d)[dim] # {} => c.factors[t][dim] = {}
                               /\ ParseMaxFactors(d)[dim] # {} => c.max_factors[t][dim] = {}
                               /\ ParseMinFactors(d)[dim] # {} => c.min_factors[t][dim] = {}
          /\ ParsePermutations(d) # NoPermutation => c.permutations[t] = NoPermutation
          /\ d.type = "spatial" /\ d.split # {} => c.splits[t] = {}
      BY <2>3 DEF Conflicts, NestConflicts
    <3>2. /\ \A dim \in Dims :
               /\ r.factors[u][dim] = IF u = t THEN Override(c.factors[t][dim], ParseFactors(d)[dim])
                                              ELSE c.factors[u][dim]
               /\ r.max_factors[u][dim] =
                    IF u = t THEN Override(c.max_factors[t][dim], ParseMaxFactors(d)[dim])
                             ELSE c.max_factors[u][dim]
               /\ r.min_factors[u][dim] =
                    IF u = t THEN Override(c.min_factors[t][dim], ParseMinFactors(d)[dim])
                             ELSE c.min_factors[u][dim]
          /\ r.permutations[u] = IF u = t /\ ParsePermutations(d) # NoPermutation
                                 THEN ParsePermutations(d) ELSE c.permutations[u]
          /\ r.splits[u] = IF u = t /\ d.type = "spatial"
                           THEN Override(c.splits[u], d.split) ELSE c.splits[u]
      BY <1>1, <2>3, NestFields
    <3> HIDE DEF r, t, u
    <3>3. \A dim \in Dims : /\ ParseFactors(e)[dim] \subseteq r.factors[u][dim]
                            /\ ParseMaxFactors(e)[dim] \subseteq r.max_factors[u][dim]
                            /\ ParseMinFactors(e)[dim] \subseteq r.min_factors[u][dim]
      <4> TAKE dim \in Dims
      <4>1. ParseFactors(e)[dim] \subseteq r.factors[u][dim]
        <5>1. CASE u = t
          <6>1. /\ r.factors[u][dim] = Override(c.factors[u][dim], ParseFactors(d)[dim])
                /\ ParseFactors(e)[dim] \subseteq c.factors[u][dim]
                /\ ParseFactors(d)[dim] # {} => c.factors[u][dim] = {}
            BY <2>1, <3>1, <3>2, <5>1
          <6> QED BY <6>1, OverrideKeeps
        <5> QED BY <2>1, <3>2, <5>1
      <4>2. ParseMaxFactors(e)[dim] \subseteq r.max_factors[u][dim]
        <5>1. CASE u = t
          <6>1. /\ r.max_factors[u][dim] = Override(c.max_factors[u][dim], ParseMaxFactors(d)[dim])
                /\ ParseMaxFactors(e)[dim] \subseteq c.max_factors[u][dim]
                /\ ParseMaxFactors(d)[dim] # {} => c.max_factors[u][dim] = {}
            BY <2>1, <3>1, <3>2, <5>1
          <6> QED BY <6>1, OverrideKeeps
        <5> QED BY <2>1, <3>2, <5>1
      <4>3. ParseMinFactors(e)[dim] \subseteq r.min_factors[u][dim]
        <5>1. CASE u = t
          <6>1. /\ r.min_factors[u][dim] = Override(c.min_factors[u][dim], ParseMinFactors(d)[dim])
                /\ ParseMinFactors(e)[dim] \subseteq c.min_factors[u][dim]
                /\ ParseMinFactors(d)[dim] # {} => c.min_factors[u][dim] = {}
            BY <2>1, <3>1, <3>2, <5>1
          <6> QED BY <6>1, OverrideKeeps
        <5> QED BY <2>1, <3>2, <5>1
      <4> QED BY <4>1, <4>2, <4>3
    <3>4. ParsePermutations(e) # NoPermutation => r.permutations[u] = ParsePermutations(e)
      BY <2>1, <3>1, <3>2
    <3>5. e.type = "spatial" => e.split \subseteq r.splits[u]
      BY <2>1, <3>1, <3>2, OverrideKeeps
    <3> QED BY <3>3, <3>4, <3>5 DEF NestHolds, u
  <2> QED BY <2>2, <2>3
<1>3. KeepHolds(r, e)
  <2> SUFFICES ASSUME IsDatatype(e.type), e.target # NumStorageLevels
               PROVE  KeepHolds(r, e)
    BY DEF KeepHolds
  <2>1. /\ \A v \in e.keep : c.keep[v][e.target] = {TRUE}
        /\ \A v \in e.bypass : c.keep[v][e.target] = {FALSE}
        /\ e.keep \subseteq DataSpaces /\ e.bypass \subseteq DataSpaces
    BY DEF Holds, KeepHolds, Accepted, WellFormed
  <2>2. CASE ~IsDatatype(d.type)
    <3>1. r.keep = c.keep
      BY <2>2, NestFields, OtherFields
    <3> QED BY <2>1, <3>1 DEF KeepHolds
  <2>3. CASE IsDatatype(d.type)
    <3>1. ~IsNestType(d.type)
      BY <2>3 DEF IsNestType, IsDatatype
    <3>2. r.keep = WithKeep(c, d)
      BY <2>3, <3>1, OtherFields
    <3>3. d.target = e.target => \A v \in d.keep \cup d.bypass : c.keep[v][e.target] = {}
      BY <2>3 DEF Conflicts, DatatypeConflicts
    <3>4. ASSUME NEW v \in e.keep \cup e.bypass
          PROVE  r.keep[v][e.target] = c.keep[v][e.target]
      <4>1. v \in DataSpaces /\ c.keep[v][e.target] # {}
        BY <2>1, <3>4
      <4>2. CASE d.target = e.target
        <5>1. v \notin d.bypass /\ v \notin d.keep
          BY <3>3, <4>1, <4>2
        <5> QED BY <1>1, <3>2, <4>1, <4>2, <5>1, KeepValues
      <4>3. CASE d.target # e.target
        BY <1>1, <3>2, <4>1, <4>3, KeepValues
      <4> QED BY <4>2, <4>3
    <3> HIDE DEF r
    <3> QED BY <2>1, <3>4 DEF KeepHolds
  <2> QED BY <2>2, <2>3
<1>4. FlagsHold(r, e)
  <2> SUFFICES ASSUME IsNestType(e.type) \/ IsDatatype(e.type), NEW f \in FlagNames
               PROVE  FlagSet(e, f) \subseteq r.flags[f][e.target]
    BY DEF FlagsHold
  <2>1. FlagSet(e, f) \subseteq c.flags[f][e.target]
    BY DEF Holds, FlagsHold
  <2>2. CASE ~IsNestType(d.type) /\ ~IsDatatype(d.type)
    <3>1. r.flags = c.flags
      BY <2>2, OtherFields
    <3> QED BY <2>1, <3>1
  <2>3. CASE IsNestType(d.type) \/ IsDatatype(d.type)
    <3>1. r.flags = WithFlags(c, d)
      BY <2>3, NestFields, OtherFields
    <3>2. FlagSet(d, f) # {} => c.flags[f][d.target] = {}
      BY <2>3 DEF Conflicts, FlagConflicts
    <3>3. r.flags[f][e.target] = IF e.target = d.target
                                 THEN Override(c.flags[f][e.target], FlagSet(d, f))
                                 ELSE c.flags[f][e.target]
      BY <1>1, <3>1, FlagValues
    <3> HIDE DEF r
    <3> QED BY <2>1, <3>2, <3>3, OverrideKeeps
  <2> QED BY <2>2, <2>3
<1> QED BY <1>2, <1>3, <1>4 DEF Holds

---------------------------------------------------------------------------

\* The inductive invariant: the object has its type, and every constraint read so far was
\* acceptable and is in force.
SetupInv ==
  /\ constraints \in ConstraintsType
  /\ given \in Seq(ConstraintInputs)
  /\ \A i \in DOMAIN given : Accepted(given[i]) /\ Holds(constraints, given[i])

\* It holds when the program starts ...
LEMMA InitSetup == Init => SetupInv
BY InitType DEF Init, SetupInv

\* ... and after every step.
LEMMA NextSetup == SetupInv /\ [Next]_vars => SetupInv'
<1> SUFFICES ASSUME SetupInv, [Next]_vars PROVE SetupInv'
  OBVIOUS
<1>1. ASSUME NEW d \in ConstraintInputs, ParseConstraint(d) PROVE SetupInv'
  <2>1. CASE Refuses(constraints, d)
    BY <1>1, <2>1 DEF ParseConstraint, SetupInv
  <2>2. CASE ~Refuses(constraints, d)
    <3>1. /\ constraints' = ParseSingleConstraint(constraints, d)
          /\ given' = Append(given, d)
      BY <1>1, <2>2 DEF ParseConstraint
    <3>2. Accepted(d) /\ ~Conflicts(constraints, d)
      BY <2>2 DEF Refuses, Accepted
    <3>3. constraints \in ConstraintsType /\ given \in Seq(ConstraintInputs)
      BY DEF SetupInv
    <3>4. constraints' \in ConstraintsType
      BY <3>1, <3>2, <3>3, ParseType
    <3>5. given' \in Seq(ConstraintInputs)
      BY <3>1, <3>3
    <3>6. ASSUME NEW i \in DOMAIN given'
          PROVE  Accepted(given'[i]) /\ Holds(constraints', given'[i])
      <4>1. CASE i = Len(given) + 1
        <5>1. given'[i] = d
          BY <3>1, <3>3, <4>1
        <5> QED BY <3>1, <3>2, <3>3, <5>1, NewHolds
      <4>2. CASE i # Len(given) + 1
        <5>1. i \in DOMAIN given /\ given'[i] = given[i]
          BY <3>1, <3>3, <3>6, <4>2
        <5>2. Accepted(given[i]) /\ Holds(constraints, given[i])
          BY <5>1 DEF SetupInv
        <5>3. Holds(ParseSingleConstraint(constraints, d), given[i])
          BY <3>2, <3>3, <5>2, OldHolds
        <5> QED BY <3>1, <5>1, <5>2, <5>3
      <4> QED BY <4>1, <4>2
    <3> QED BY <3>4, <3>5, <3>6 DEF SetupInv
  <2> QED BY <2>1, <2>2
<1>2. CASE UNCHANGED <<given, constraints>>
  BY <1>2 DEF SetupInv
<1>3. ASSUME NEW d \in MappingInputs, ParseDirective(d) PROVE UNCHANGED <<given, constraints>>
  BY <1>3 DEF ParseDirective
<1>4. EndConstraints \/ Construct \/ Validate \/ UNCHANGED vars => UNCHANGED <<given, constraints>>
  BY DEF EndConstraints, Construct, Validate, vars
<1> QED BY <1>1, <1>2, <1>3, <1>4 DEF Next

\* Every accepted constraint stays in force, for every architecture, workload and list of
\* constraints.
THEOREM AcceptedInForce == Spec => []NothingOverwritten
<1>1. SetupInv => NothingOverwritten
  BY DEF SetupInv, NothingOverwritten
<1> QED BY <1>1, InitSetup, NextSetup, PTL DEF Spec

---------------------------------------------------------------------------
(* Induction over data.  No prover takes an operator as a parameter, so what *)
(* recursive functions compute is proved by induction with sets.             *)

\* Induction, with a set in place of a predicate.
LEMMA NaturalsByInduction ==
  ASSUME NEW S, 0 \in S, \A n \in Nat : n \in S => n + 1 \in S
  PROVE  Nat \subseteq S
<1> DEFINE Upto(n) == 0 .. n
           Missing == {n \in Nat : n \notin S}
           Below == {Upto(n) : n \in Missing}
<1> SUFFICES ASSUME Missing # {} PROVE FALSE
  OBVIOUS
<1>1. \A n \in Nat : Upto(n) \in SUBSET Nat /\ IsFiniteSet(Upto(n))
  BY FS_Interval
<1>2. \A m, n \in Nat : m < n => <<Upto(m), Upto(n)>> \in StrictSubsetOrdering(Nat)
  <2> SUFFICES ASSUME NEW m \in Nat, NEW n \in Nat, m < n
               PROVE  <<Upto(m), Upto(n)>> \in StrictSubsetOrdering(Nat)
    OBVIOUS
  <2>1. Upto(m) \subseteq Upto(n) /\ Upto(m) # Upto(n)
    OBVIOUS
  <2> HIDE DEF Upto
  <2> QED BY <1>1, <2>1 DEF StrictSubsetOrdering
<1>3. Missing \subseteq Nat
  OBVIOUS
<1>4. \A n \in Missing : n \in Nat /\ n - 1 \in Nat /\ n - 1 \in Missing
  OBVIOUS
<1> HIDE DEF Upto, Missing
<1>5. Below \subseteq FiniteSubsetsOf(Nat)
  BY <1>1, <1>3 DEF FiniteSubsetsOf
<1>6. Below # {}
  OBVIOUS
<1> HIDE DEF Below
<1>7. PICK x \in Below : \A y \in Below : ~(<<y, x>> \in StrictSubsetOrdering(Nat))
  BY <1>5, <1>6, FS_StrictSubsetOrderingWellFounded, WFMin
<1>8. PICK n \in Missing : x = Upto(n)
  BY <1>7 DEF Below
<1>9. Upto(n - 1) \in Below /\ <<Upto(n - 1), Upto(n)>> \in StrictSubsetOrdering(Nat)
  BY <1>2, <1>4 DEF Below
<1> QED BY <1>7, <1>8, <1>9

\* A recursion over 0 .. N, from a base by a step for each number.
Steps(N, X, step) == step \in [1 .. N -> [X -> X]]

Recurses(f, N, X, base, step) ==
  f \in [0 .. N -> X] /\ f[0] = base /\ \A i \in 1 .. N : f[i] = step[i][f[i - 1]]

\* It is defined ...
LEMMA RecursionExists ==
  ASSUME NEW N \in Nat, NEW X, NEW base \in X, NEW step, Steps(N, X, step)
  PROVE  \E f : Recurses(f, N, X, base, step)
<1> DEFINE S == {n \in Nat : n <= N => \E f : Recurses(f, n, X, base, step)}
<1>0. step \in [1 .. N -> [X -> X]]
  BY DEF Steps
<1>1. 0 \in S
  <2>1. Recurses([i \in 0 .. 0 |-> base], 0, X, base, step)
    BY DEF Recurses
  <2> QED BY <2>1
<1>2. ASSUME NEW n \in Nat, n \in S PROVE n + 1 \in S
  <2> SUFFICES ASSUME n + 1 <= N PROVE \E f : Recurses(f, n + 1, X, base, step)
    OBVIOUS
  <2>1. PICK f : Recurses(f, n, X, base, step)
    BY <1>2
  <2>2. f \in [0 .. n -> X] /\ f[0] = base /\ \A i \in 1 .. n : f[i] = step[i][f[i - 1]]
    BY <2>1 DEF Recurses
  <2> DEFINE g == [i \in 0 .. n + 1 |-> IF i = n + 1 THEN step[n + 1][f[n]] ELSE f[i]]
  <2>3. g \in [0 .. n + 1 -> X]
    BY <1>0, <2>2
  <2>4. g[0] = base /\ \A i \in 1 .. n + 1 : g[i] = step[i][g[i - 1]]
    BY <2>2
  <2> HIDE DEF g
  <2> QED BY <2>3, <2>4 DEF Recurses
<1> HIDE DEF S
<1>3. N \in S
  BY <1>1, <1>2, NaturalsByInduction
<1> QED BY <1>3 DEF S

\* ... and by one function only.
LEMMA RecursionIs ==
  ASSUME NEW N \in Nat, NEW X, NEW base \in X, NEW step, Steps(N, X, step),
         NEW g, g = [i \in 0 .. N |-> g[i]], g[0] = base,
         \A i \in 1 .. N : g[i - 1] \in X => g[i] = step[i][g[i - 1]]
  PROVE  Recurses(g, N, X, base, step)
<1> DEFINE S == {i \in Nat : i <= N => g[i] \in X}
<1>1. 0 \in S
  OBVIOUS
<1>2. ASSUME NEW i \in Nat, i \in S PROVE i + 1 \in S
  <2> SUFFICES ASSUME i + 1 <= N PROVE g[i + 1] \in X
    OBVIOUS
  <2>1. i + 1 \in 1 .. N /\ (i + 1) - 1 = i /\ g[i] \in X
    BY <1>2
  <2>2. g[i + 1] = step[i + 1][g[i]] /\ step[i + 1] \in [X -> X]
    BY <2>1 DEF Steps
  <2> QED BY <2>1, <2>2
<1> HIDE DEF S
<1>3. Nat \subseteq S
  BY <1>1, <1>2, NaturalsByInduction
<1>4. \A i \in 0 .. N : g[i] \in X
  BY <1>3 DEF S
<1>5. \A i \in 1 .. N : i - 1 \in 0 .. N
  OBVIOUS
<1> QED BY <1>4, <1>5 DEF Recurses

---------------------------------------------------------------------------

\* Things with an end and a residual, as loops have.
Numbered(S) == \A x \in S : x.end \in Int /\ x.residual \in Int

\* prod, along the loops of a tiling level.
LEMMA MultipliedAlongIs ==
  ASSUME NEW S, Numbered(S), NEW loops \in Seq(S), NEW dim, NEW prod \in Int,
         NEW along, along = MultipliedAlong(prod, loops, dim)
  PROVE  /\ along \in [0 .. Len(loops) -> Int] /\ along[0] = prod
         /\ \A i \in 1 .. Len(loops) : along[i] = Multiplied(along[i - 1], loops[i], dim)
<1> DEFINE step == [i \in 1 .. Len(loops) |-> [x \in Int |-> Multiplied(x, loops[i], dim)]]
           Is(f) == f = [i \in 0 .. Len(loops) |-> IF i = 0 THEN prod ELSE Multiplied(f[i - 1], loops[i], dim)]
<1>1. PICK N, X : N = Len(loops) /\ X = Int /\ N \in Nat
  OBVIOUS
<1>2. prod \in X /\ \A i \in 1 .. N : \A x \in X : Multiplied(x, loops[i], dim) \in X
  <2>1. \A i \in 1 .. N : loops[i] \in S
    BY <1>1
  <2> QED BY <1>1, <2>1 DEF Numbered, Multiplied
<1>3. Steps(N, X, step) /\ \A i \in 1 .. N : \A x \in X : step[i][x] = Multiplied(x, loops[i], dim)
  BY <1>1, <1>2 DEF Steps
<1> HIDE DEF step
<1>4. PICK f : Recurses(f, N, X, prod, step)
  BY <1>1, <1>2, <1>3, RecursionExists
<1>5. Is(f)
  <2>1. \A i \in 1 .. N : f[i] = Multiplied(f[i - 1], loops[i], dim)
    <3>1. \A i \in 1 .. N : i - 1 \in 0 .. N
      BY <1>1
    <3> QED BY <1>3, <1>4, <3>1 DEF Recurses
  <2> QED BY <1>1, <1>4, <2>1 DEF Recurses
<1>6. Is(MultipliedAlong(prod, loops, dim))
  BY <1>5, Zenon DEF MultipliedAlong
<1>7. PICK g : g = along
  OBVIOUS
<1>8. /\ g = [i \in 0 .. N |-> g[i]] /\ g[0] = prod
      /\ \A i \in 1 .. N : g[i] = Multiplied(g[i - 1], loops[i], dim)
  <2>1. Is(g)
    BY <1>6, <1>7
  <2> QED BY <1>1, <2>1
<1>9. \A i \in 1 .. N : g[i - 1] \in X => g[i] = step[i][g[i - 1]]
  BY <1>3, <1>8
<1>10. Recurses(g, N, X, prod, step)
  BY <1>1, <1>2, <1>3, <1>8, <1>9, RecursionIs
<1> QED BY <1>1, <1>7, <1>8, <1>10 DEF Recurses

\* The points run, along some loops.
Runs == [all : Int, last : Int]

LEMMA RunsAlongIs ==
  ASSUME NEW S, Numbered(S), NEW loops \in Seq(S), NEW dim, NEW runs \in Runs,
         NEW along, along = RunsAlong(runs, loops, dim)
  PROVE  /\ along \in [0 .. Len(loops) -> Runs] /\ along[0] = runs
         /\ \A i \in 1 .. Len(loops) : along[i] = RunsOf(along[i - 1], loops[i], dim)
<1> DEFINE step == [i \in 1 .. Len(loops) |-> [x \in Runs |-> RunsOf(x, loops[i], dim)]]
           Is(f) == f = [i \in 0 .. Len(loops) |-> IF i = 0 THEN runs ELSE RunsOf(f[i - 1], loops[i], dim)]
<1>1. PICK N, X : N = Len(loops) /\ X = Runs /\ N \in Nat
  OBVIOUS
<1>2. runs \in X /\ \A i \in 1 .. N : \A x \in X : RunsOf(x, loops[i], dim) \in X
  <2>1. \A i \in 1 .. N : loops[i] \in S
    BY <1>1
  <2> QED BY <1>1, <2>1 DEF Numbered, RunsOf, Runs
<1>3. Steps(N, X, step) /\ \A i \in 1 .. N : \A x \in X : step[i][x] = RunsOf(x, loops[i], dim)
  BY <1>1, <1>2 DEF Steps
<1> HIDE DEF step
<1>4. PICK f : Recurses(f, N, X, runs, step)
  BY <1>1, <1>2, <1>3, RecursionExists
<1>5. Is(f)
  <2>1. \A i \in 1 .. N : f[i] = RunsOf(f[i - 1], loops[i], dim)
    <3>1. \A i \in 1 .. N : i - 1 \in 0 .. N
      BY <1>1
    <3> QED BY <1>3, <1>4, <3>1 DEF Recurses
  <2> QED BY <1>1, <1>4, <2>1 DEF Recurses
<1>6. Is(RunsAlong(runs, loops, dim))
  BY <1>5, Zenon DEF RunsAlong
<1>7. PICK g : g = along
  OBVIOUS
<1>8. /\ g = [i \in 0 .. N |-> g[i]] /\ g[0] = runs
      /\ \A i \in 1 .. N : g[i] = RunsOf(g[i - 1], loops[i], dim)
  <2>1. Is(g)
    BY <1>6, <1>7
  <2> QED BY <1>1, <2>1
<1>9. \A i \in 1 .. N : g[i - 1] \in X => g[i] = step[i][g[i - 1]]
  BY <1>3, <1>8
<1>10. Recurses(g, N, X, runs, step)
  BY <1>1, <1>2, <1>3, <1>8, <1>9, RecursionIs
<1> QED BY <1>1, <1>7, <1>8, <1>10 DEF Recurses

\* What is chosen of some items.
LEMMA ChosenIs ==
  ASSUME NEW S, NEW items \in Seq(S), NEW wanted,
         NEW along, along = Chosen(items, wanted)
  PROVE  /\ along \in [0 .. Len(items) -> Seq(S)] /\ along[0] = <<>>
         /\ \A i \in 1 .. Len(items) : along[i] = Extended(along[i - 1], items[i], wanted)
<1> DEFINE step == [i \in 1 .. Len(items) |-> [x \in Seq(S) |-> Extended(x, items[i], wanted)]]
           Is(f) == f = [i \in 0 .. Len(items) |-> IF i = 0 THEN <<>> ELSE Extended(f[i - 1], items[i], wanted)]
<1>1. PICK N, X : N = Len(items) /\ X = Seq(S) /\ N \in Nat
  OBVIOUS
<1>2. <<>> \in X /\ \A i \in 1 .. N : \A x \in X : Extended(x, items[i], wanted) \in X
  <2>1. \A i \in 1 .. N : items[i] \in S
    BY <1>1
  <2> QED BY <1>1, <2>1 DEF Extended
<1>3. Steps(N, X, step) /\ \A i \in 1 .. N : \A x \in X : step[i][x] = Extended(x, items[i], wanted)
  BY <1>1, <1>2 DEF Steps
<1> HIDE DEF step
<1>4. PICK f : Recurses(f, N, X, <<>>, step)
  BY <1>1, <1>2, <1>3, RecursionExists
<1>5. Is(f)
  <2>1. \A i \in 1 .. N : f[i] = Extended(f[i - 1], items[i], wanted)
    <3>1. \A i \in 1 .. N : i - 1 \in 0 .. N
      BY <1>1
    <3> QED BY <1>3, <1>4, <3>1 DEF Recurses
  <2> QED BY <1>1, <1>4, <2>1 DEF Recurses
<1>6. Is(Chosen(items, wanted))
  BY <1>5, Zenon DEF Chosen
<1>7. PICK g : g = along
  OBVIOUS
<1>8. /\ g = [i \in 0 .. N |-> g[i]] /\ g[0] = <<>>
      /\ \A i \in 1 .. N : g[i] = Extended(g[i - 1], items[i], wanted)
  <2>1. Is(g)
    BY <1>6, <1>7
  <2> QED BY <1>1, <2>1
<1>9. \A i \in 1 .. N : g[i - 1] \in X => g[i] = step[i][g[i - 1]]
  BY <1>3, <1>8
<1>10. Recurses(g, N, X, <<>>, step)
  BY <1>1, <1>2, <1>3, <1>8, <1>9, RecursionIs
<1> QED BY <1>1, <1>7, <1>8, <1>10 DEF Recurses

\* What some loops multiply up to.
LEMMA FactorAlongIs ==
  ASSUME NEW S, Numbered(S), NEW loops \in Seq(S), NEW dim,
         NEW along, along = FactorAlong(loops, dim)
  PROVE  /\ along \in [0 .. Len(loops) -> Int] /\ along[0] = 1
         /\ \A i \in 1 .. Len(loops) : along[i] = Factored(along[i - 1], loops[i], dim)
<1> DEFINE step == [i \in 1 .. Len(loops) |-> [x \in Int |-> Factored(x, loops[i], dim)]]
           Is(f) == f = [i \in 0 .. Len(loops) |-> IF i = 0 THEN 1 ELSE Factored(f[i - 1], loops[i], dim)]
<1>1. PICK N, X : N = Len(loops) /\ X = Int /\ N \in Nat
  OBVIOUS
<1>2. 1 \in X /\ \A i \in 1 .. N : \A x \in X : Factored(x, loops[i], dim) \in X
  <2>1. \A i \in 1 .. N : loops[i] \in S
    BY <1>1
  <2> QED BY <1>1, <2>1 DEF Numbered, Factored
<1>3. Steps(N, X, step) /\ \A i \in 1 .. N : \A x \in X : step[i][x] = Factored(x, loops[i], dim)
  BY <1>1, <1>2 DEF Steps
<1> HIDE DEF step
<1>4. PICK f : Recurses(f, N, X, 1, step)
  BY <1>1, <1>2, <1>3, RecursionExists
<1>5. Is(f)
  <2>1. \A i \in 1 .. N : f[i] = Factored(f[i - 1], loops[i], dim)
    <3>1. \A i \in 1 .. N : i - 1 \in 0 .. N
      BY <1>1
    <3> QED BY <1>3, <1>4, <3>1 DEF Recurses
  <2> QED BY <1>1, <1>4, <2>1 DEF Recurses
<1>6. Is(FactorAlong(loops, dim))
  BY <1>5, Zenon DEF FactorAlong
<1>7. PICK g : g = along
  OBVIOUS
<1>8. /\ g = [i \in 0 .. N |-> g[i]] /\ g[0] = 1
      /\ \A i \in 1 .. N : g[i] = Factored(g[i - 1], loops[i], dim)
  <2>1. Is(g)
    BY <1>6, <1>7
  <2> QED BY <1>1, <2>1
<1>9. \A i \in 1 .. N : g[i - 1] \in X => g[i] = step[i][g[i - 1]]
  BY <1>3, <1>8
<1>10. Recurses(g, N, X, 1, step)
  BY <1>1, <1>2, <1>3, <1>8, <1>9, RecursionIs
<1> QED BY <1>1, <1>7, <1>8, <1>10 DEF Recurses

\* The points run by some loops, inside of them runs.
RunsEnd(runs, loops, dim) == RunsAlong(runs, loops, dim)[Len(loops)]

\* Loops follow one another.
LEMMA RunsConcat ==
  ASSUME NEW S, Numbered(S), NEW s \in Seq(S), NEW u \in Seq(S), NEW dim, NEW runs \in Runs
  PROVE  RunsEnd(runs, s \o u, dim) = RunsEnd(RunsEnd(runs, s, dim), u, dim) /\ RunsEnd(runs, s, dim) \in Runs
<1>1. PICK all, inner, m, n :
        all = RunsAlong(runs, s \o u, dim) /\ inner = RunsAlong(runs, s, dim) /\ m = Len(s) /\ n = Len(u)
  OBVIOUS
<1>2. PICK outer : outer = RunsAlong(inner[m], u, dim)
  OBVIOUS
<1>3. /\ m \in Nat /\ n \in Nat /\ s \o u \in Seq(S) /\ Len(s \o u) = m + n
      /\ \A i \in 1 .. m : (s \o u)[i] = s[i]
      /\ \A i \in 1 .. n : (s \o u)[m + i] = u[i]
  BY <1>1
<1>4. inner[0] = runs /\ inner[m] \in Runs /\ \A i \in 1 .. m : inner[i] = RunsOf(inner[i - 1], s[i], dim)
  <2>1. /\ inner \in [0 .. Len(s) -> Runs] /\ inner[0] = runs
        /\ \A i \in 1 .. Len(s) : inner[i] = RunsOf(inner[i - 1], s[i], dim)
    BY <1>1, RunsAlongIs
  <2> QED BY <1>1, <2>1
<1>5. all[0] = runs /\ \A i \in 1 .. m + n : all[i] = RunsOf(all[i - 1], (s \o u)[i], dim)
  <2>1. PICK w : w = s \o u
    OBVIOUS
  <2>2. w \in Seq(S) /\ all = RunsAlong(runs, w, dim) /\ Len(w) = m + n
    BY <1>1, <1>3, <2>1
  <2>3. all[0] = runs /\ \A i \in 1 .. Len(w) : all[i] = RunsOf(all[i - 1], w[i], dim)
    BY <2>2, RunsAlongIs
  <2> QED BY <2>1, <2>2, <2>3
<1>6. outer[0] = inner[m] /\ \A i \in 1 .. n : outer[i] = RunsOf(outer[i - 1], u[i], dim)
  <2>1. PICK r \in Runs : r = inner[m]
    BY <1>4
  <2>2. outer[0] = r /\ \A i \in 1 .. Len(u) : outer[i] = RunsOf(outer[i - 1], u[i], dim)
    BY <1>2, <2>1, RunsAlongIs
  <2> QED BY <1>1, <2>1, <2>2
<1>7. all[m] = inner[m]
  <2> DEFINE I == {i \in Nat : i <= m => all[i] = inner[i]}
  <2>1. 0 \in I
    BY <1>4, <1>5
  <2>2. ASSUME NEW i \in Nat, i \in I PROVE i + 1 \in I
    <3> SUFFICES ASSUME i + 1 <= m PROVE all[i + 1] = inner[i + 1]
      OBVIOUS
    <3>1. i + 1 \in 1 .. m /\ i + 1 \in 1 .. m + n /\ (i + 1) - 1 = i /\ all[i] = inner[i]
      BY <1>3, <2>2
    <3> QED BY <1>3, <1>4, <1>5, <3>1
  <2> HIDE DEF I
  <2>3. m \in I
    BY <1>3, <2>1, <2>2, NaturalsByInduction
  <2> QED BY <2>3 DEF I
<1>8. all[m + n] = outer[n]
  <2> DEFINE I == {i \in Nat : i <= n => all[m + i] = outer[i]}
  <2>1. 0 \in I
    BY <1>3, <1>6, <1>7
  <2>2. ASSUME NEW i \in Nat, i \in I PROVE i + 1 \in I
    <3> SUFFICES ASSUME i + 1 <= n PROVE all[m + (i + 1)] = outer[i + 1]
      OBVIOUS
    <3>1. /\ i + 1 \in 1 .. n /\ m + (i + 1) \in 1 .. m + n /\ (i + 1) - 1 = i
          /\ (m + (i + 1)) - 1 = m + i /\ all[m + i] = outer[i]
      BY <1>3, <2>2
    <3> QED BY <1>3, <1>5, <1>6, <3>1
  <2> HIDE DEF I
  <2>3. n \in I
    BY <1>3, <2>1, <2>2, NaturalsByInduction
  <2> QED BY <2>3 DEF I
<1> QED BY <1>1, <1>2, <1>3, <1>4, <1>8 DEF RunsEnd

\* One more loop at the outside runs what is inside of it.
LEMMA RunsAppend ==
  ASSUME NEW S, Numbered(S), NEW s \in Seq(S), NEW x \in S, NEW dim, NEW runs \in Runs
  PROVE  RunsEnd(runs, Append(s, x), dim) = RunsOf(RunsEnd(runs, s, dim), x, dim)
<1>1. /\ Append(s, x) = s \o <<x>> /\ <<x>> \in Seq(S) /\ Len(<<x>>) = 1 /\ <<x>>[1] = x
  OBVIOUS
<1>2. PICK one, r : one = <<x>> /\ r = RunsEnd(runs, s, dim)
  OBVIOUS
<1>3. one \in Seq(S) /\ Len(one) = 1 /\ one[1] = x
  BY <1>1, <1>2
<1>4. RunsEnd(runs, s \o one, dim) = RunsEnd(r, one, dim) /\ r \in Runs
  <2>1. one \in Seq(S)
    BY <1>3
  <2>2. RunsEnd(runs, s \o one, dim) = RunsEnd(RunsEnd(runs, s, dim), one, dim) /\ RunsEnd(runs, s, dim) \in Runs
    BY <2>1, RunsConcat, Zenon
  <2> QED BY <1>2, <2>2, Zenon
<1>5. RunsEnd(r, one, dim) = RunsOf(r, x, dim)
  <2>1. PICK along : along = RunsAlong(r, one, dim)
    OBVIOUS
  <2>2. along[0] = r /\ \A i \in 1 .. Len(one) : along[i] = RunsOf(along[i - 1], one[i], dim)
    BY <1>3, <1>4, <2>1, RunsAlongIs
  <2> QED BY <1>3, <2>1, <2>2 DEF RunsEnd
<1> QED BY <1>1, <1>2, <1>4, <1>5

\* All loops of a dimension have one end and one residual.
Uniform(loops, dim, e, r) ==
  \A i \in 1 .. Len(loops) : loops[i].dim = dim => loops[i].end = e /\ loops[i].residual = r

\* One more loop of the dimension may be counted first or last.
LEMMA MultipliedCommutes ==
  ASSUME NEW S, Numbered(S), NEW loops \in Seq(S), NEW dim, NEW e \in Int, NEW r \in Int,
         Uniform(loops, dim, e, r), NEW prod \in Int, NEW n \in Nat, n <= Len(loops)
  PROVE  MultipliedAlong(prod * e + r - 1, loops, dim)[n] = MultipliedAlong(prod, loops, dim)[n] * e + r - 1
<1>1. PICK before, after :
        before = MultipliedAlong(prod * e + r - 1, loops, dim) /\ after = MultipliedAlong(prod, loops, dim)
  OBVIOUS
<1>2. PICK first : first = prod * e + r - 1 /\ first \in Int
  OBVIOUS
<1>3. /\ before[0] = first
      /\ \A i \in 1 .. Len(loops) : before[i] = Multiplied(before[i - 1], loops[i], dim)
  BY <1>1, <1>2, MultipliedAlongIs
<1>4. /\ after[0] = prod
      /\ \A i \in 1 .. Len(loops) : after[i] = Multiplied(after[i - 1], loops[i], dim)
  BY <1>1, MultipliedAlongIs
<1> DEFINE I == {i \in Nat : i <= Len(loops) => before[i] = after[i] * e + r - 1}
<1>5. 0 \in I
  BY <1>2, <1>3, <1>4
<1>6. ASSUME NEW i \in Nat, i \in I PROVE i + 1 \in I
  <2> SUFFICES ASSUME i + 1 <= Len(loops) PROVE before[i + 1] = after[i + 1] * e + r - 1
    OBVIOUS
  <2>1. i + 1 \in 1 .. Len(loops) /\ (i + 1) - 1 = i /\ before[i] = after[i] * e + r - 1
    BY <1>6
  <2>2. before[i + 1] = Multiplied(before[i], loops[i + 1], dim) /\ after[i + 1] = Multiplied(after[i], loops[i + 1], dim)
    BY <1>3, <1>4, <2>1
  <2>3. CASE loops[i + 1].dim = dim
    <3>1. loops[i + 1].end = e /\ loops[i + 1].residual = r
      BY <2>1, <2>3 DEF Uniform
    <3>2. before[i + 1] = before[i] * e + r - 1 /\ after[i + 1] = after[i] * e + r - 1
      BY <2>2, <2>3, <3>1 DEF Multiplied
    <3> QED BY <2>1, <3>2
  <2>4. CASE loops[i + 1].dim # dim
    BY <2>1, <2>2, <2>4 DEF Multiplied
  <2> QED BY <2>3, <2>4
<1> HIDE DEF I
<1>7. n \in I
  BY <1>5, <1>6, NaturalsByInduction
<1> QED BY <1>1, <1>7 DEF I

\* What the loops of a tiling level run, trivial ones dropped, is what the check multiplies.
LEMMA LevelRuns ==
  ASSUME NEW S, Numbered(S), NEW loops \in Seq(S), NEW dim, NEW e \in Int, NEW r \in Int,
         Uniform(loops, dim, e, r), e >= 1, e = 1 => r = 1, NEW wanted,
         \A x \in S : x.dim = dim /\ x \notin wanted => x.end <= 1,
         NEW runs \in Runs, NEW prod \in Int
  PROVE  LET end == RunsEnd(runs, Where(loops, wanted), dim)
         IN  runs.all * MultipliedAlong(prod, loops, dim)[Len(loops)] + runs.last = end.all * prod + end.last
<1>1. PICK chosen : chosen = Chosen(loops, wanted)
  OBVIOUS
<1>2. /\ \A i \in 0 .. Len(loops) : chosen[i] \in Seq(S)
      /\ chosen[0] = <<>>
      /\ \A i \in 1 .. Len(loops) : chosen[i] = Extended(chosen[i - 1], loops[i], wanted)
  BY <1>1, ChosenIs
<1> DEFINE Prod(y, i) == MultipliedAlong(y, loops, dim)[i]
           End(i) == RunsEnd(runs, chosen[i], dim)
           I == {i \in Nat : i <= Len(loops) =>
                   \A y \in Int : runs.all * Prod(y, i) + runs.last = End(i).all * y + End(i).last}
<1>3. ASSUME NEW y \in Int
      PROVE  /\ Prod(y, 0) = y
             /\ \A i \in 0 .. Len(loops) : Prod(y, i) \in Int
             /\ \A i \in 1 .. Len(loops) : Prod(y, i) = Multiplied(Prod(y, i - 1), loops[i], dim)
  BY MultipliedAlongIs
<1>4. \A i \in 0 .. Len(loops) : End(i) \in Runs
  BY <1>2, RunsConcat
<1>5. \A y \in Int : \A i \in 0 .. Len(loops) : Prod(y * e + r - 1, i) = Prod(y, i) * e + r - 1
  BY MultipliedCommutes
<1>6. End(0) = runs
  <2>1. chosen[0] \in Seq(S) /\ Len(chosen[0]) = 0
    BY <1>2
  <2>2. RunsAlong(runs, chosen[0], dim)[0] = runs
    BY <2>1, RunsAlongIs
  <2> QED BY <2>1, <2>2 DEF RunsEnd
<1> HIDE DEF Prod, End
<1>7. 0 \in I
  BY <1>3, <1>6
<1>8. ASSUME NEW i \in Nat, i \in I PROVE i + 1 \in I
  <2> SUFFICES ASSUME i + 1 <= Len(loops), NEW y \in Int
               PROVE  runs.all * Prod(y, i + 1) + runs.last = End(i + 1).all * y + End(i + 1).last
    OBVIOUS
  <2>1. /\ i + 1 \in 1 .. Len(loops) /\ i \in 0 .. Len(loops) /\ i + 1 \in 0 .. Len(loops)
        /\ (i + 1) - 1 = i /\ loops[i + 1] \in S
    OBVIOUS
  <2>2. \A z \in Int : runs.all * Prod(z, i) + runs.last = End(i).all * z + End(i).last
    BY <1>8, <2>1
  <2>3. Prod(y, i + 1) = Multiplied(Prod(y, i), loops[i + 1], dim) /\ Prod(y, i) \in Int
    <3>1. \A k \in 1 .. Len(loops) : Prod(y, k) = Multiplied(Prod(y, k - 1), loops[k], dim)
      BY <1>3
    <3>2. Prod(y, i) \in Int
      BY <1>3, <2>1
    <3> QED BY <2>1, <3>1, <3>2
  <2>4. chosen[i + 1] = Extended(chosen[i], loops[i + 1], wanted) /\ chosen[i] \in Seq(S)
    BY <1>2, <2>1
  <2>5. runs.all \in Int /\ runs.last \in Int /\ End(i).all \in Int /\ End(i).last \in Int
    BY <1>4, <2>1 DEF Runs
  <2>6. CASE loops[i + 1].dim # dim
    <3>1. End(i + 1) = End(i)
      <4>1. CASE loops[i + 1] \in wanted
        <5>1. End(i + 1) = RunsOf(End(i), loops[i + 1], dim)
          BY <2>1, <2>4, <4>1, RunsAppend DEF Extended, End
        <5> QED BY <2>6, <5>1 DEF RunsOf
      <4>2. CASE loops[i + 1] \notin wanted
        BY <2>4, <4>2 DEF Extended, End
      <4> QED BY <4>1, <4>2
    <3>2. Prod(y, i + 1) = Prod(y, i)
      BY <2>3, <2>6 DEF Multiplied
    <3> QED BY <2>2, <3>1, <3>2
  <2>7. CASE loops[i + 1].dim = dim
    <3>1. loops[i + 1].end = e /\ loops[i + 1].residual = r
      BY <2>1, <2>7 DEF Uniform
    <3>2. Prod(y, i + 1) = Prod(y, i) * e + r - 1
      BY <2>3, <2>7, <3>1 DEF Multiplied
    <3>3. CASE loops[i + 1] \in wanted
      <4>1. End(i + 1) = RunsOf(End(i), loops[i + 1], dim)
        BY <2>1, <2>4, <3>3, RunsAppend DEF Extended, End
      <4>2. End(i + 1).all = e * End(i).all /\ End(i + 1).last = (r - 1) * End(i).all + End(i).last
        BY <2>7, <3>1, <4>1 DEF RunsOf
      <4>3. PICK z \in Int : z = y * e + r - 1
        OBVIOUS
      <4>4. runs.all * Prod(z, i) + runs.last = End(i).all * z + End(i).last /\ Prod(z, i) = Prod(y, i + 1)
        BY <1>5, <2>1, <2>2, <3>2, <4>3
      <4>5. End(i + 1).all * y + End(i + 1).last = End(i).all * z + End(i).last
        <5>1. PICK a \in Int, l \in Int : a = End(i).all /\ l = End(i).last
          BY <2>5
        <5>2. (e * a) * y + ((r - 1) * a + l) = a * (y * e + r - 1) + l
          OBVIOUS
        <5> QED BY <4>2, <4>3, <5>1, <5>2
      <4> QED BY <4>4, <4>5
    <3>4. CASE loops[i + 1] \notin wanted
      <4>1. e = 1 /\ r = 1
        BY <2>1, <2>7, <3>1, <3>4
      <4>2. End(i + 1) = End(i)
        BY <2>4, <3>4 DEF Extended, End
      <4>3. Prod(y, i + 1) = Prod(y, i)
        BY <2>3, <3>2, <4>1
      <4> QED BY <2>2, <4>2, <4>3
    <3> QED BY <3>3, <3>4
  <2> QED BY <2>6, <2>7
<1> HIDE DEF I
<1>9. Len(loops) \in I
  BY <1>7, <1>8, NaturalsByInduction
<1> QED BY <1>1, <1>9 DEF I, Prod, End, Where

\* What is chosen of some items: those wanted among them, in a sequence.
LEMMA WhereHas ==
  ASSUME NEW S, NEW items \in Seq(S), NEW wanted
  PROVE  /\ Where(items, wanted) \in Seq(S)
         /\ \A i \in 1 .. Len(items) : items[i] \in wanted =>
              \E j \in 1 .. Len(Where(items, wanted)) : Where(items, wanted)[j] = items[i]
         /\ \A j \in 1 .. Len(Where(items, wanted)) :
              \E i \in 1 .. Len(items) : items[i] = Where(items, wanted)[j] /\ items[i] \in wanted
<1>1. PICK chosen : chosen = Chosen(items, wanted)
  OBVIOUS
<1>2. /\ \A i \in 0 .. Len(items) : chosen[i] \in Seq(S)
      /\ chosen[0] = <<>>
      /\ \A i \in 1 .. Len(items) : chosen[i] = Extended(chosen[i - 1], items[i], wanted)
  BY <1>1, ChosenIs
<1> DEFINE Has(s, n) ==
             /\ \A i \in 1 .. n : items[i] \in wanted => \E j \in 1 .. Len(s) : s[j] = items[i]
             /\ \A j \in 1 .. Len(s) : \E i \in 1 .. n : items[i] = s[j] /\ items[i] \in wanted
           I == {n \in Nat : n <= Len(items) => Has(chosen[n], n)}
<1>3. 0 \in I
  BY <1>2
<1> HIDE DEF Has
<1>4. ASSUME NEW n \in Nat, n \in I PROVE n + 1 \in I
  <2> SUFFICES ASSUME n + 1 <= Len(items) PROVE Has(chosen[n + 1], n + 1)
    OBVIOUS
  <2>1. n + 1 \in 1 .. Len(items) /\ (n + 1) - 1 = n /\ n \in 0 .. Len(items) /\ Has(chosen[n], n)
    BY <1>4
  <2>2. PICK s, x : s = chosen[n] /\ x = items[n + 1]
    OBVIOUS
  <2>3. s \in Seq(S) /\ x \in S /\ chosen[n + 1] = Extended(s, x, wanted) /\ Has(s, n)
    BY <1>2, <2>1, <2>2
  <2>4. CASE x \notin wanted
    <3>1. chosen[n + 1] = s
      BY <2>3, <2>4 DEF Extended
    <3>2. Has(s, n + 1)
      BY <2>2, <2>3, <2>4 DEF Has
    <3> QED BY <3>1, <3>2
  <2>5. CASE x \in wanted
    <3>1. PICK u : u = Append(s, x)
      OBVIOUS
    <3>2. Len(u) = Len(s) + 1 /\ u[Len(s) + 1] = x /\ Len(s) \in Nat /\ \A j \in 1 .. Len(s) : u[j] = s[j]
      BY <2>3, <3>1
    <3>3. chosen[n + 1] = u
      BY <2>3, <2>5, <3>1 DEF Extended
    <3>4. ASSUME NEW i \in 1 .. n + 1, items[i] \in wanted PROVE \E j \in 1 .. Len(u) : u[j] = items[i]
      <4>1. CASE i = n + 1
        BY <2>2, <3>2, <4>1
      <4>2. CASE i # n + 1
        <5>1. i \in 1 .. n
          BY <4>2
        <5>2. PICK j \in 1 .. Len(s) : s[j] = items[i]
          BY <2>3, <3>4, <5>1 DEF Has
        <5>3. j \in 1 .. Len(u) /\ u[j] = items[i]
          BY <3>2, <5>2
        <5> QED BY <5>3
      <4> QED BY <4>1, <4>2
    <3>5. ASSUME NEW j \in 1 .. Len(u) PROVE \E i \in 1 .. n + 1 : items[i] = u[j] /\ items[i] \in wanted
      <4>1. CASE j = Len(s) + 1
        BY <2>2, <2>5, <3>2, <4>1
      <4>2. CASE j # Len(s) + 1
        <5>1. j \in 1 .. Len(s)
          BY <3>2, <4>2
        <5>2. PICK i \in 1 .. n : items[i] = s[j] /\ items[i] \in wanted
          BY <2>3, <5>1 DEF Has
        <5>3. i \in 1 .. n + 1 /\ items[i] = u[j]
          BY <3>2, <5>1, <5>2
        <5> QED BY <5>2, <5>3
      <4> QED BY <4>1, <4>2
    <3> QED BY <3>3, <3>4, <3>5 DEF Has
  <2> QED BY <2>4, <2>5
<1> HIDE DEF I
<1>5. Len(items) \in I
  BY <1>3, <1>4, NaturalsByInduction
<1>6. PICK w : w = chosen[Len(items)]
  OBVIOUS
<1>7. w \in Seq(S) /\ Has(w, Len(items))
  BY <1>2, <1>5, <1>6 DEF I
<1>8. w = Where(items, wanted)
  BY <1>1, <1>6 DEF Where
<1> QED BY <1>7, <1>8 DEF Has

---------------------------------------------------------------------------

\* A factor as the parser of mappings collects it: a loop of one iteration is whole.
Factor == {f \in [end : Nat \ {0}, residual : Nat] : f.end = 1 => f.residual = 1}

\* What ParseAndConstruct has collected, as far as the nest depends on it.
ParsedType(p) ==
  /\ p.factors \in [TilingLevels -> [Dims -> SUBSET Factor]]
  /\ p.permutations \in [TilingLevels -> Seq(Dims)]

\* A loop of the nest.
Loop == [dim : Dims, end : Nat \ {0}, residual : Nat, kind : {"Time", "SpaceX", "SpaceY"}]

\* There is a dimension.
LEMMA DimsAre == NumDims \in Nat \ {0} /\ Dims = 1 .. NumDims /\ NumDims \in Dims
BY WorkloadAssumption DEF WorkloadAssumption, Dims

\* A completed permutation has a dimension at every position a loop is made from.
LEMMA PaddedPermutationIs ==
  ASSUME NEW p, ParsedType(p), NEW t \in TilingLevels
  PROVE  PaddedPermutation(p, t) \in Seq(Dims) /\ Len(PaddedPermutation(p, t)) >= NumDims
<1>1. PICK order : order = p.permutations[t] /\ order \in Seq(Dims)
  BY DEF ParsedType
<1>2. CASE Len(order) = NumDims
  BY <1>1, <1>2, DimsAre DEF PaddedPermutation
<1>3. CASE Len(order) # NumDims
  <2>1. PICK ids : ids = [dim \in Dims |-> dim]
    OBVIOUS
  <2>2. ids \in Seq(Dims) /\ Len(ids) = NumDims /\ \A i \in Dims : ids[i] = i
    BY <2>1, DimsAre
  <2>3. PICK others, rest : others = Dims \ Range(order) /\ rest = Where(ids, others)
    OBVIOUS
  <2>4. /\ rest \in Seq(Dims)
        /\ \A i \in others : \E j \in 1 .. Len(rest) : rest[j] = i
    <3>1. ids \in Seq(Dims) /\ rest = Where(ids, others)
      BY <2>2, <2>3
    <3>2. /\ rest \in Seq(Dims)
          /\ \A i \in 1 .. Len(ids) : ids[i] \in others => \E j \in 1 .. Len(rest) : rest[j] = ids[i]
      BY <3>1, WhereHas
    <3>3. \A i \in others : i \in Dims
      BY <2>3
    <3> QED BY <2>2, <3>2, <3>3, DimsAre
  <2>5. PICK q : q = order \o rest
    OBVIOUS
  <2>6. /\ q \in Seq(Dims) /\ Len(q) = Len(order) + Len(rest)
        /\ \A i \in 1 .. Len(order) : q[i] = order[i]
        /\ \A i \in 1 .. Len(rest) : q[Len(order) + i] = rest[i]
    BY <1>1, <2>4, <2>5
  <2>7. PaddedPermutation(p, t) = q
    BY <1>1, <1>3, <2>1, <2>3, <2>5 DEF PaddedPermutation
  <2>8. \A i \in Dims : \E j \in 1 .. Len(q) : q[j] = i
    <3> SUFFICES ASSUME NEW i \in Dims PROVE \E j \in 1 .. Len(q) : q[j] = i
      OBVIOUS
    <3>1. CASE i \in Range(order)
      <4>1. PICK j \in 1 .. Len(order) : order[j] = i
        BY <1>1, <3>1 DEF Range
      <4>2. j \in 1 .. Len(q) /\ q[j] = i
        BY <1>1, <2>4, <2>6, <4>1
      <4> QED BY <4>2
    <3>2. CASE i \notin Range(order)
      <4>0. i \in others
        BY <2>3, <3>2
      <4>1. PICK j \in 1 .. Len(rest) : rest[j] = i
        BY <2>4, <4>0
      <4>2. Len(order) + j \in 1 .. Len(q) /\ q[Len(order) + j] = i
        <5>1. Len(order) \in Nat /\ Len(rest) \in Nat
          BY <1>1, <2>4
        <5>2. PICK m, n : m = Len(order) /\ n = Len(rest) /\ m \in Nat /\ n \in Nat
          BY <5>1
        <5>3. j \in 1 .. n /\ Len(q) = m + n /\ q[m + j] = rest[j]
          BY <2>6, <4>1, <5>2
        <5> QED BY <4>1, <5>2, <5>3
      <4> QED BY <4>2
    <3> QED BY <3>1, <3>2
  <2>9. q \in Surjection(1 .. Len(q), Dims)
    <3>1. q \in [1 .. Len(q) -> Dims]
      BY <2>6
    <3> QED BY <2>8, <3>1 DEF Surjection
  <2>10. Len(q) \in Nat /\ IsFiniteSet(1 .. Len(q)) /\ Cardinality(1 .. Len(q)) = Len(q)
    <3>1. Len(q) \in Nat
      BY <2>6
    <3>2. PICK n \in Nat : n = Len(q)
      BY <3>1
    <3>3. IsFiniteSet(1 .. n) /\ Cardinality(1 .. n) = IF 1 > n THEN 0 ELSE n - 1 + 1
      BY FS_Interval
    <3> QED BY <3>2, <3>3
  <2>11. Cardinality(Dims) = NumDims
    BY DimsAre, FS_Interval
  <2>12. Cardinality(Dims) <= Cardinality(1 .. Len(q))
    BY <2>9, <2>10, FS_Surjection
  <2> QED BY <2>6, <2>7, <2>10, <2>11, <2>12
<1> QED BY <1>2, <1>3

\* A factor that was not written is that of a trivial loop.
LEMMA PaddedFactorIs ==
  ASSUME NEW p, ParsedType(p), NEW t \in TilingLevels, NEW dim \in Dims
  PROVE  PaddedFactor(p, t, dim) \in Factor
<1>1. p.factors[t][dim] \subseteq Factor
  BY DEF ParsedType
<1>2. [end |-> 1, residual |-> 1] \in Factor
  BY DEF Factor
<1> QED BY <1>1, <1>2 DEF PaddedFactor

\* The loops of a tiling level: those of one dimension are alike.
LEMMA SubnestIs ==
  ASSUME NEW p, ParsedType(p), NEW t \in TilingLevels
  PROVE  /\ Subnest(p, t) \in Seq(Loop) /\ Len(Subnest(p, t)) = NumDims
         /\ \A i \in Dims : LET loop == Subnest(p, t)[i]
                            IN  /\ loop.dim = PaddedPermutation(p, t)[i]
                                /\ loop.end = PaddedFactor(p, t, loop.dim).end
                                /\ loop.residual = PaddedFactor(p, t, loop.dim).residual
                                /\ loop.kind = CASE ~IsSpatial(t) -> "Time"
                                                 [] IsSpatial(t) /\ i <= PaddedSplit(p, t) -> "SpaceX"
                                                 [] OTHER -> "SpaceY"
<1>1. PICK q : q = PaddedPermutation(p, t)
  OBVIOUS
<1>2. q \in Seq(Dims) /\ \A i \in Dims : q[i] \in Dims
  <2>1. q \in Seq(Dims) /\ Len(q) >= NumDims
    BY <1>1, PaddedPermutationIs
  <2> QED BY <2>1, DimsAre
<1> DEFINE kind(i) == CASE ~IsSpatial(t) -> "Time"
                        [] IsSpatial(t) /\ i <= PaddedSplit(p, t) -> "SpaceX"
                        [] OTHER -> "SpaceY"
           loop(i) == [dim |-> q[i], end |-> PaddedFactor(p, t, q[i]).end,
                       residual |-> PaddedFactor(p, t, q[i]).residual, kind |-> kind(i)]
<1>3. Subnest(p, t) = [i \in Dims |-> loop(i)]
  BY <1>1, Zenon DEF Subnest
<1>4. \A i : kind(i) \in {"Time", "SpaceX", "SpaceY"}
  OBVIOUS
<1> HIDE DEF kind
<1>5. \A i \in Dims : loop(i) \in Loop
  <2> SUFFICES ASSUME NEW i \in Dims PROVE loop(i) \in Loop
    OBVIOUS
  <2>1. PaddedFactor(p, t, q[i]) \in Factor
    BY <1>2, PaddedFactorIs
  <2> QED BY <1>2, <1>4, <2>1 DEF Factor, Loop
<1>6. PICK loops : loops = Subnest(p, t)
  OBVIOUS
<1>7. loops \in Seq(Loop) /\ Len(loops) = NumDims
  <2> HIDE DEF loop
  <2>1. loops \in [1 .. NumDims -> Loop]
    BY <1>3, <1>5, <1>6, DimsAre
  <2> QED BY <2>1, DimsAre
<1>8. \A i \in Dims : loops[i] = loop(i)
  BY <1>3, <1>6
<1>9. ASSUME NEW i \in Dims
      PROVE  /\ loops[i].dim = q[i]
             /\ loops[i].end = PaddedFactor(p, t, loops[i].dim).end
             /\ loops[i].residual = PaddedFactor(p, t, loops[i].dim).residual
             /\ loops[i].kind = kind(i)
  <2>1. loops[i] = loop(i)
    BY <1>8
  <2>2. loops[i].dim = q[i]
    BY <2>1
  <2>3. loops[i].end = PaddedFactor(p, t, q[i]).end /\ loops[i].residual = PaddedFactor(p, t, q[i]).residual
    BY <2>1
  <2>4. loops[i].kind = kind(i)
    BY <2>1
  <2> QED BY <2>2, <2>3, <2>4
<1> QED BY <1>1, <1>6, <1>7, <1>9 DEF kind

\* Loops have ends and residuals.
LEMMA LoopsNumbered == Numbered(Loop)
BY DEF Numbered, Loop

\* The filler of a temporal level without real loops is a loop of one iteration.
LEMMA KeptIs ==
  ASSUME NEW p, ParsedType(p), NEW t \in TilingLevels
  PROVE  /\ Kept(p, t) \in Seq(Loop)
         /\ Kept(p, t) = Where(Subnest(p, t), Real(Subnest(p, t)))
              \/ /\ Where(Subnest(p, t), Real(Subnest(p, t))) = <<>>
                 /\ Kept(p, t) = << [dim |-> NumDims, end |-> 1, residual |-> 1, kind |-> "Time"] >>
<1>1. PICK loops : loops = Subnest(p, t) /\ loops \in Seq(Loop)
  BY SubnestIs
<1>2. PICK real : real = Where(loops, Real(loops)) /\ real \in Seq(Loop)
  BY <1>1, WhereHas
<1>3. PICK filler : filler = [dim |-> NumDims, end |-> 1, residual |-> 1, kind |-> "Time"]
  OBVIOUS
<1>4. <<filler>> \in Seq(Loop)
  BY <1>3, DimsAre DEF Loop
<1>5. Kept(p, t) = IF real = <<>> /\ ~IsSpatial(t) THEN <<filler>> ELSE real
  BY <1>1, <1>2, <1>3, Zenon DEF Kept
<1> QED BY <1>1, <1>2, <1>3, <1>4, <1>5

\* No loop runs nothing more.
LEMMA RunsNone ==
  ASSUME NEW S, Numbered(S), NEW dim, NEW runs \in Runs
  PROVE  RunsEnd(runs, <<>>, dim) = runs
<1>1. PICK none : none = <<>>
  OBVIOUS
<1>2. none \in Seq(S)
  BY <1>1
<1>3. PICK along : along = RunsAlong(runs, none, dim)
  OBVIOUS
<1>4. along[0] = runs
  BY <1>2, <1>3, RunsAlongIs
<1>5. along[Len(none)] = runs
  BY <1>1, <1>4
<1> QED BY <1>1, <1>3, <1>5 DEF RunsEnd

\* What a tiling level runs, seen from inside and from outside.
LEMMA KeptRuns ==
  ASSUME NEW p, ParsedType(p), NEW t \in TilingLevels, NEW dim \in Dims,
         NEW runs \in Runs, NEW prod \in Int,
         NEW end, end = RunsEnd(runs, Kept(p, t), dim)
  PROVE  /\ end \in Runs
         /\ runs.all * MultipliedAlong(prod, Subnest(p, t), dim)[NumDims] + runs.last = end.all * prod + end.last
<1>1. PICK loops : loops = Subnest(p, t) /\ loops \in Seq(Loop) /\ Len(loops) = NumDims
  BY SubnestIs
<1>2. PICK real : real = Where(loops, Real(loops)) /\ real \in Seq(Loop)
  BY <1>1, WhereHas
<1>3. PICK e \in Nat, r \in Nat : e >= 1 /\ (e = 1 => r = 1) /\ Uniform(loops, dim, e, r)
  <2>1. PICK f \in Factor : f = PaddedFactor(p, t, dim)
    BY PaddedFactorIs
  <2>2. f.end \in Nat /\ f.residual \in Nat /\ f.end >= 1 /\ (f.end = 1 => f.residual = 1)
    BY <2>1 DEF Factor
  <2>3. Uniform(loops, dim, f.end, f.residual)
    BY <1>1, <2>1, SubnestIs, DimsAre DEF Uniform
  <2> QED BY <2>2, <2>3
<1>4. PICK used : used = Range(loops)
  OBVIOUS
<1>5. loops \in Seq(used) /\ Numbered(used) /\ \A x \in used : x \notin Real(loops) => x.end <= 1
  <2>1. used \subseteq Loop /\ loops \in Seq(used)
    BY <1>1, <1>4 DEF Range
  <2>2. Numbered(used)
    BY <2>1 DEF Numbered, Loop
  <2>3. \A x \in used : x \notin Real(loops) => x.end <= 1
    BY <1>4, <2>1 DEF Real, Loop
  <2> QED BY <2>1, <2>2, <2>3
<1>6. PICK after : after = RunsEnd(runs, real, dim)
  OBVIOUS
<1>7. after \in Runs
  <2>1. real \in Seq(Loop) /\ Numbered(Loop)
    BY <1>2, LoopsNumbered
  <2> QED BY <1>6, <2>1, RunsConcat
<1>8. runs.all * MultipliedAlong(prod, loops, dim)[Len(loops)] + runs.last = after.all * prod + after.last
  BY <1>2, <1>3, <1>5, <1>6, LevelRuns
<1>9. end = after
  <2>1. CASE Kept(p, t) = real
    BY <1>6, <2>1
  <2>2. CASE Kept(p, t) # real
    <3>1. PICK filler : filler = [dim |-> NumDims, end |-> 1, residual |-> 1, kind |-> "Time"]
      OBVIOUS
    <3>0. filler \in Loop
      BY <3>1, DimsAre DEF Loop
    <3>2. real = <<>> /\ Kept(p, t) = <<filler>>
      BY <1>1, <1>2, <2>2, <3>1, KeptIs
    <3>3. RunsEnd(runs, <<>>, dim) = runs
      BY LoopsNumbered, RunsNone
    <3>4. RunsEnd(runs, Append(<<>>, filler), dim) = RunsOf(RunsEnd(runs, <<>>, dim), filler, dim)
      <4>1. <<>> \in Seq(Loop)
        OBVIOUS
      <4> QED BY <3>0, <4>1, LoopsNumbered, RunsAppend
    <3>5. Append(<<>>, filler) = <<filler>>
      OBVIOUS
    <3>6. RunsOf(runs, filler, dim) = runs
      <4>1. filler.end = 1 /\ filler.residual = 1
        BY <3>1
      <4>2. runs.all \in Int /\ runs.last \in Int /\ runs = [all |-> runs.all, last |-> runs.last]
        BY DEF Runs
      <4>3. 1 * runs.all = runs.all /\ (1 - 1) * runs.all + runs.last = runs.last
        BY <4>2
      <4> QED BY <4>1, <4>2, <4>3 DEF RunsOf
    <3> QED BY <1>6, <3>2, <3>3, <3>4, <3>5, <3>6
  <2> QED BY <2>1, <2>2
<1> QED BY <1>1, <1>7, <1>8, <1>9

---------------------------------------------------------------------------
(* What a constructed nest runs, and that it is the bounds.                  *)

\* The tiling levels of a storage level are next to those of the level inside it.
LEMMA TilingStep ==
  /\ TemporalToTiling(0) = 0
  /\ TemporalToTiling(NumStorageLevels) = NumTilingLevels
  /\ \A l \in StorageLevels :
       TemporalToTiling(l) = TemporalToTiling(l - 1) + (IF l \in SpatialStorageLevels THEN 2 ELSE 1)
<1> DEFINE Inside(l) == {k \in SpatialStorageLevels : k <= l}
<1>1. NumStorageLevels \in Nat /\ StorageLevels = 1 .. NumStorageLevels
  BY MeshesAssumption DEF MeshesAssumption, NumStorageLevels, StorageLevels
<1>2. IsFiniteSet(SpatialStorageLevels) /\ SpatialStorageLevels \subseteq StorageLevels
  <2>1. IsFiniteSet(StorageLevels) /\ SpatialStorageLevels \subseteq StorageLevels
    BY <1>1, FS_Interval DEF SpatialStorageLevels
  <2> QED BY <2>1, FS_Subset
<1>3. \A l : TemporalToTiling(l) = l + Cardinality(Inside(l))
  BY DEF TemporalToTiling
<1>4. \A k \in SpatialStorageLevels : k \in Int /\ 1 <= k /\ k <= NumStorageLevels
  BY <1>1, <1>2
<1>5. TemporalToTiling(0) = 0
  <2>1. Inside(0) = {}
    BY <1>4
  <2>2. Cardinality(Inside(0)) = 0
    BY <2>1, FS_EmptySet
  <2> QED BY <1>3, <2>2
<1>6. TemporalToTiling(NumStorageLevels) = NumTilingLevels
  <2>1. Inside(NumStorageLevels) = SpatialStorageLevels
    BY <1>4
  <2> QED BY <1>3, <2>1 DEF NumTilingLevels
<1>7. ASSUME NEW l \in StorageLevels
      PROVE  TemporalToTiling(l) = TemporalToTiling(l - 1) + (IF l \in SpatialStorageLevels THEN 2 ELSE 1)
  <2>1. l \in Int /\ IsFiniteSet(Inside(l - 1)) /\ l \notin Inside(l - 1)
    <3>1. l \in Int
      BY <1>1
    <3>2. Inside(l - 1) \subseteq SpatialStorageLevels
      OBVIOUS
    <3> QED BY <1>2, <3>1, <3>2, FS_Subset
  <2>2. Cardinality(Inside(l - 1)) \in Nat
    BY <2>1, FS_CardinalityType
  <2>3. CASE l \in SpatialStorageLevels
    <3>0. \A k \in SpatialStorageLevels : k <= l <=> k <= l - 1 \/ k = l
      BY <1>4, <2>1
    <3>1. Inside(l) = Inside(l - 1) \cup {l}
      BY <2>3, <3>0
    <3> HIDE DEF Inside
    <3>2. Cardinality(Inside(l)) = Cardinality(Inside(l - 1)) + 1
      BY <2>1, <3>1, FS_AddElement
    <3> QED BY <1>3, <2>1, <2>2, <2>3, <3>2
  <2>4. CASE l \notin SpatialStorageLevels
    <3>1. Inside(l) = Inside(l - 1)
      BY <1>4, <2>1, <2>4
    <3> HIDE DEF Inside
    <3> QED BY <1>3, <2>1, <2>2, <2>4, <3>1
  <2> QED BY <2>3, <2>4
<1> QED BY <1>5, <1>6, <1>7

\* The product of the validity check, level by level.
LEMMA ProductFromOutsideIs ==
  ASSUME NEW p, ParsedType(p), NEW dim \in Dims, NEW prod, prod = ProductFromOutside(p, dim)
  PROVE  /\ prod \in [0 .. NumTilingLevels -> Int] /\ prod[0] = 0
         /\ \A n \in 1 .. NumTilingLevels :
              prod[n] = MultipliedAlong(prod[n - 1], Subnest(p, NumTilingLevels + 1 - n), dim)[NumDims]
<1> DEFINE M(x, n) == MultipliedAlong(x, Subnest(p, NumTilingLevels + 1 - n), dim)[NumDims]
           step == [n \in 1 .. NumTilingLevels |-> [x \in Int |-> M(x, n)]]
           Is(f) == f = [n \in 0 .. NumTilingLevels |-> IF n = 0 THEN 0 ELSE M(f[n - 1], n)]
<1>1. PICK N, X : N = NumTilingLevels /\ X = Int /\ N \in Nat
  BY TilingLevelsInRange
<1>2. 0 \in X /\ \A n \in 1 .. N : \A x \in X : M(x, n) \in X
  <2> SUFFICES ASSUME NEW n \in 1 .. N, NEW x \in Int PROVE M(x, n) \in Int
    BY <1>1
  <2>1. PICK t : t = NumTilingLevels + 1 - n /\ t \in TilingLevels
    BY <1>1 DEF TilingLevels
  <2>2. PICK loops : loops = Subnest(p, t) /\ loops \in Seq(Loop) /\ Len(loops) = NumDims
    BY <2>1, SubnestIs
  <2>3. PICK along : along = MultipliedAlong(x, loops, dim)
    OBVIOUS
  <2>4. along \in [0 .. Len(loops) -> Int]
    BY <2>2, <2>3, LoopsNumbered, MultipliedAlongIs
  <2> QED BY <2>1, <2>2, <2>3, <2>4, DimsAre
<1>3. Steps(N, X, step) /\ \A n \in 1 .. N : \A x \in X : step[n][x] = M(x, n)
  <2> HIDE DEF M
  <2> QED BY <1>1, <1>2 DEF Steps
<1>4. Is(ProductFromOutside(p, dim)) <=> Is(prod)
  OBVIOUS
<1> HIDE DEF step
<1>5. PICK f : Recurses(f, N, X, 0, step)
  BY <1>1, <1>2, <1>3, RecursionExists
<1>6. Is(f)
  <2> HIDE DEF M
  <2>1. \A n \in 1 .. N : f[n] = M(f[n - 1], n)
    <3>1. \A n \in 1 .. N : n - 1 \in 0 .. N
      BY <1>1
    <3> QED BY <1>3, <1>5, <3>1 DEF Recurses
  <2> QED BY <1>1, <1>5, <2>1 DEF Recurses
<1>7. Is(ProductFromOutside(p, dim))
  BY <1>6, Zenon DEF ProductFromOutside
<1>8. /\ prod = [n \in 0 .. N |-> prod[n]] /\ prod[0] = 0
      /\ \A n \in 1 .. N : prod[n] = M(prod[n - 1], n)
  <2> HIDE DEF M
  <2>1. Is(prod)
    BY <1>4, <1>7
  <2> QED BY <1>1, <2>1
<1> HIDE DEF M
<1>9. \A n \in 1 .. N : prod[n - 1] \in X => prod[n] = step[n][prod[n - 1]]
  BY <1>3, <1>8
<1>10. Recurses(prod, N, X, 0, step)
  BY <1>1, <1>2, <1>3, <1>8, <1>9, RecursionIs
<1>11. prod \in [0 .. NumTilingLevels -> Int] /\ prod[0] = 0
  BY <1>1, <1>10 DEF Recurses
<1> QED BY <1>1, <1>8, <1>11 DEF M

\* The points a nest runs, level by level.
LEMMA NestRunsIs ==
  ASSUME NEW m, \A l \in StorageLevels : m.nest[l] \in Seq(Loop), NEW dim \in Dims,
         NEW upto, upto = NestRuns(m, dim)
  PROVE  /\ upto \in [0 .. NumStorageLevels -> Runs] /\ upto[0] = [all |-> 1, last |-> 1]
         /\ \A l \in StorageLevels : upto[l] = RunsEnd(upto[l - 1], m.nest[l], dim)
<1> DEFINE one == [all |-> 1, last |-> 1]
           R(x, l) == RunsAlong(x, m.nest[l], dim)[Len(m.nest[l])]
           step == [l \in 1 .. NumStorageLevels |-> [x \in Runs |-> R(x, l)]]
           Is(f) == f = [l \in 0 .. NumStorageLevels |-> IF l = 0 THEN one ELSE R(f[l - 1], l)]
<1>1. PICK N, X : N = NumStorageLevels /\ X = Runs /\ N \in Nat /\ StorageLevels = 1 .. N
  BY MeshesAssumption DEF MeshesAssumption, NumStorageLevels, StorageLevels
<1>2. one \in X /\ \A l \in 1 .. N : \A x \in X : R(x, l) \in X
  <2>1. one \in Runs
    BY DEF Runs
  <2>2. ASSUME NEW l \in 1 .. N, NEW x \in Runs PROVE R(x, l) \in Runs
    <3>1. PICK loops : loops = m.nest[l] /\ loops \in Seq(Loop)
      BY <1>1
    <3>2. RunsEnd(x, loops, dim) \in Runs
      BY <3>1, LoopsNumbered, RunsConcat
    <3> QED BY <3>1, <3>2 DEF RunsEnd
  <2> QED BY <1>1, <2>1, <2>2
<1>3. Steps(N, X, step) /\ \A l \in 1 .. N : \A x \in X : step[l][x] = R(x, l)
  <2> HIDE DEF R
  <2> QED BY <1>1, <1>2 DEF Steps
<1> HIDE DEF step, one
<1>4. Is(NestRuns(m, dim)) <=> Is(upto)
  OBVIOUS
<1>5. PICK f : Recurses(f, N, X, one, step)
  BY <1>1, <1>2, <1>3, RecursionExists
<1>6. Is(f)
  <2> HIDE DEF R
  <2>1. \A l \in 1 .. N : f[l] = R(f[l - 1], l)
    <3>1. \A l \in 1 .. N : l - 1 \in 0 .. N
      BY <1>1
    <3> QED BY <1>3, <1>5, <3>1 DEF Recurses
  <2> QED BY <1>1, <1>5, <2>1 DEF Recurses
<1>7. Is(NestRuns(m, dim))
  BY <1>6, Zenon DEF NestRuns, one
<1>8. /\ upto = [l \in 0 .. N |-> upto[l]] /\ upto[0] = one
      /\ \A l \in 1 .. N : upto[l] = R(upto[l - 1], l)
  <2> HIDE DEF R
  <2>1. Is(upto)
    BY <1>4, <1>7
  <2> QED BY <1>1, <2>1
<1> HIDE DEF R
<1>9. \A l \in 1 .. N : upto[l - 1] \in X => upto[l] = step[l][upto[l - 1]]
  BY <1>3, <1>8
<1>10. Recurses(upto, N, X, one, step)
  BY <1>1, <1>2, <1>3, <1>8, <1>9, RecursionIs
<1>11. upto \in [0 .. NumStorageLevels -> Runs] /\ upto[0] = one
  BY <1>1, <1>10 DEF Recurses
<1> QED BY <1>1, <1>8, <1>11 DEF R, RunsEnd, one

\* The nest of a constructed mapping, level by level.
LEMMA ConstructedNest ==
  ASSUME NEW p, ParsedType(p), NEW l \in StorageLevels
  PROVE  LET nest == ConstructMapping(p).nest[l]
         IN  /\ nest \in Seq(Loop)
             /\ l \in SpatialStorageLevels =>
                  nest = Kept(p, SpatialToTiling(l)) \o Kept(p, TemporalToTiling(l))
             /\ l \notin SpatialStorageLevels => nest = Kept(p, TemporalToTiling(l))
<1> DEFINE kept == [t \in TilingLevels |-> Kept(p, t)]
<1>1. ConstructMapping(p).nest[l] = LevelNest(l, kept)
  BY DEF ConstructMapping
<1>2. TemporalToTiling(l) \in TilingLevels /\ Kept(p, TemporalToTiling(l)) \in Seq(Loop)
  BY TilingLevelsInRange, KeptIs
<1>3. kept[TemporalToTiling(l)] = Kept(p, TemporalToTiling(l))
  BY <1>2
<1>4. CASE l \in SpatialStorageLevels
  <2>1. SpatialToTiling(l) \in TilingLevels /\ Kept(p, SpatialToTiling(l)) \in Seq(Loop)
    BY <1>4, TilingLevelsInRange, KeptIs
  <2>2. kept[SpatialToTiling(l)] = Kept(p, SpatialToTiling(l))
    BY <2>1
  <2> HIDE DEF kept
  <2>3. LevelNest(l, kept) = Kept(p, SpatialToTiling(l)) \o Kept(p, TemporalToTiling(l))
    BY <1>3, <1>4, <2>2 DEF LevelNest
  <2>4. LevelNest(l, kept) \in Seq(Loop)
    BY <1>2, <2>1, <2>3
  <2> QED BY <1>1, <1>4, <2>3, <2>4
<1>5. CASE l \notin SpatialStorageLevels
  <2> HIDE DEF kept
  <2>1. PICK s : s = Kept(p, TemporalToTiling(l))
    OBVIOUS
  <2>2. <<>> \o s = s
    BY <1>2, <2>1
  <2>3. LevelNest(l, kept) = s
    BY <1>3, <1>5, <2>1, <2>2 DEF LevelNest
  <2> QED BY <1>1, <1>2, <1>5, <2>1, <2>3
<1> QED BY <1>4, <1>5

\* From the innermost level out, what has run and what the check has yet to multiply make up
\* the same number.
LEMMA NestRunsProduct ==
  ASSUME NEW p, ParsedType(p), NEW dim \in Dims
  PROVE  NestRuns(ConstructMapping(p), dim)[NumStorageLevels].last = Product(p, dim)
<1>1. PICK upto, prod, m :
        m = ConstructMapping(p) /\ upto = NestRuns(m, dim) /\ prod = ProductFromOutside(p, dim)
  OBVIOUS
<1>2. PICK N, T : N = NumStorageLevels /\ T = NumTilingLevels /\ N \in Nat /\ T \in Nat /\ StorageLevels = 1 .. N
  BY MeshesAssumption, TilingLevelsInRange DEF MeshesAssumption, NumStorageLevels, StorageLevels
<1>3. /\ \A l \in 0 .. N : upto[l] \in Runs
      /\ upto[0] = [all |-> 1, last |-> 1]
      /\ \A l \in StorageLevels : upto[l] = RunsEnd(upto[l - 1], m.nest[l], dim)
  <2>1. \A l \in StorageLevels : m.nest[l] \in Seq(Loop)
    BY <1>1, ConstructedNest
  <2>2. /\ upto \in [0 .. NumStorageLevels -> Runs] /\ upto[0] = [all |-> 1, last |-> 1]
        /\ \A l \in StorageLevels : upto[l] = RunsEnd(upto[l - 1], m.nest[l], dim)
    BY <1>1, <2>1, NestRunsIs
  <2> QED BY <1>2, <2>2
<1>4. /\ \A n \in 0 .. T : prod[n] \in Int
      /\ prod[0] = 0
      /\ \A n \in 1 .. T : prod[n] = MultipliedAlong(prod[n - 1], Subnest(p, T + 1 - n), dim)[NumDims]
  BY <1>1, <1>2, ProductFromOutsideIs
<1> DEFINE At(l) == TemporalToTiling(l)
           Outside(t) == prod[T - t]
           I == {l \in Nat : l <= N =>
                   upto[l].all * Outside(At(l)) + upto[l].last = upto[0].all * prod[T] + upto[0].last}
<1>5. ASSUME NEW t \in TilingLevels
      PROVE  /\ Outside(t) \in Int
             /\ Outside(t - 1) = MultipliedAlong(Outside(t), Subnest(p, t), dim)[NumDims]
  <2>1. PICK n : n = T + 1 - t /\ n \in 1 .. T /\ n - 1 = T - t /\ T + 1 - n = t /\ T - (t - 1) = n
    BY <1>2 DEF TilingLevels
  <2>2. n - 1 \in 0 .. T
    BY <1>2, <2>1
  <2>3. prod[n] = MultipliedAlong(prod[n - 1], Subnest(p, t), dim)[NumDims] /\ prod[n - 1] \in Int
    BY <1>4, <2>1, <2>2
  <2> QED BY <2>1, <2>3
<1> HIDE DEF Outside
<1>6. ASSUME NEW t \in TilingLevels, NEW runs \in Runs, NEW end, end = RunsEnd(runs, Kept(p, t), dim)
      PROVE  end \in Runs /\ runs.all * Outside(t - 1) + runs.last = end.all * Outside(t) + end.last
  <2>1. PICK x \in Int : x = Outside(t)
    BY <1>5
  <2>2. /\ end \in Runs
        /\ runs.all * MultipliedAlong(x, Subnest(p, t), dim)[NumDims] + runs.last = end.all * x + end.last
    BY <1>6, KeptRuns
  <2> QED BY <1>5, <2>1, <2>2
<1>7. 0 \in I
  <2>1. Outside(At(0)) = prod[T]
    BY <1>2, TilingStep DEF Outside
  <2> QED BY <2>1
<1>8. ASSUME NEW l \in Nat, l \in I PROVE l + 1 \in I
  <2> SUFFICES ASSUME l + 1 <= N
               PROVE  upto[l + 1].all * Outside(At(l + 1)) + upto[l + 1].last
                        = upto[0].all * prod[T] + upto[0].last
    OBVIOUS
  <2>1. PICK k : k = l + 1 /\ k \in StorageLevels /\ k - 1 = l /\ l \in 0 .. N
    BY <1>2
  <2>2. upto[l].all * Outside(At(l)) + upto[l].last = upto[0].all * prod[T] + upto[0].last
    BY <1>2, <1>8
  <2>3. PICK runs \in Runs : runs = upto[l]
    BY <1>3, <2>1
  <2>4. upto[k] = RunsEnd(runs, m.nest[k], dim)
    BY <1>3, <2>1, <2>3
  <2>5. At(k) \in TilingLevels /\ At(k) \in Int
    BY <2>1, <1>2, TilingLevelsInRange DEF TilingLevels
  <2>6. CASE k \notin SpatialStorageLevels
    <3>1. At(l) = At(k) - 1
      <4>1. At(k) = At(l) + 1 /\ At(l) \in Int
        <5>1. At(k) = At(k - 1) + 1
          BY <2>1, <2>6, TilingStep
        <5>2. At(l) \in Int
          <6>1. CASE l = 0
            BY <6>1, TilingStep
          <6>2. CASE l # 0
            <7>1. l \in StorageLevels
              BY <1>2, <2>1, <6>2
            <7> QED BY <7>1, <1>2, TilingLevelsInRange DEF TilingLevels
          <6> QED BY <6>1, <6>2
        <5> QED BY <2>1, <5>1, <5>2
      <4> QED BY <4>1
    <3>2. m.nest[k] = Kept(p, At(k))
      BY <1>1, <2>1, <2>6, ConstructedNest
    <3>3. runs.all * Outside(At(k) - 1) + runs.last = upto[k].all * Outside(At(k)) + upto[k].last
      BY <1>6, <2>4, <2>5, <3>2
    <3> QED BY <2>1, <2>2, <2>3, <3>1, <3>3
  <2>7. CASE k \in SpatialStorageLevels
    <3>1. PICK s : s = SpatialToTiling(k) /\ s \in TilingLevels /\ s = At(k) - 1 /\ s - 1 = At(l)
      <4>1. At(k) = At(l) + 2
        BY <2>1, <2>7, TilingStep
      <4>2. SpatialToTiling(k) \in TilingLevels /\ SpatialToTiling(k) = At(k) - 1
        BY <2>7, TilingLevelsInRange DEF SpatialToTiling
      <4>3. At(l) \in Int
        <5>1. CASE l = 0
          BY <5>1, TilingStep
        <5>2. CASE l # 0
          <6>1. l \in StorageLevels
            BY <1>2, <2>1, <5>2
          <6> QED BY <6>1, <1>2, TilingLevelsInRange DEF TilingLevels
        <5> QED BY <5>1, <5>2
      <4> QED BY <4>1, <4>2, <4>3
    <3>2. PICK inner, outer : inner = Kept(p, s) /\ outer = Kept(p, At(k))
      OBVIOUS
    <3>3. inner \in Seq(Loop) /\ outer \in Seq(Loop)
      BY <2>5, <3>1, <3>2, KeptIs
    <3>4. m.nest[k] = inner \o outer
      BY <1>1, <2>1, <2>7, <3>1, <3>2, ConstructedNest
    <3>5. PICK mid : mid = RunsEnd(runs, inner, dim)
      OBVIOUS
    <3>6. RunsEnd(runs, inner \o outer, dim) = RunsEnd(mid, outer, dim)
      BY <3>3, <3>5, LoopsNumbered, RunsConcat
    <3>7. mid \in Runs /\ runs.all * Outside(s - 1) + runs.last = mid.all * Outside(s) + mid.last
      BY <1>6, <3>1, <3>2, <3>5
    <3>8. upto[k] = RunsEnd(mid, outer, dim)
      BY <2>4, <3>4, <3>6
    <3>9. mid.all * Outside(At(k) - 1) + mid.last = upto[k].all * Outside(At(k)) + upto[k].last
      BY <1>6, <2>5, <3>2, <3>7, <3>8
    <3> QED BY <2>1, <2>2, <2>3, <3>1, <3>7, <3>9
  <2> QED BY <2>6, <2>7
<1> HIDE DEF I
<1>9. N \in I
  BY <1>2, <1>7, <1>8, NaturalsByInduction
<1>10. upto[N].all * prod[0] + upto[N].last = upto[0].all * prod[T] + upto[0].last
  <2>1. At(N) = T
    BY <1>2, TilingStep
  <2>2. T - At(N) = 0
    BY <1>2, <2>1
  <2>3. Outside(At(N)) = prod[0]
    BY <2>2, Zenon DEF Outside
  <2> QED BY <1>2, <1>9, <2>3 DEF I
<1>11. upto[N].all \in Int /\ upto[N].last \in Int /\ prod[T] \in Int
  BY <1>2, <1>3, <1>4 DEF Runs
<1>12. upto[N].last = 1 + prod[T]
  BY <1>3, <1>4, <1>10, <1>11
<1> QED BY <1>1, <1>2, <1>12 DEF Product

\* What the factor string of a directive yields.
LEMMA UserFactorsType ==
  ASSUME UnitTermsAreWhole, NEW d \in MappingInputs
  PROVE  ParseUserFactors(d) \in [Dims -> SUBSET Factor]
<1> DEFINE end(term, dim) == IF term.end = 0 THEN Bound[dim] ELSE term.end
           residual(term, dim) == IF term.residual = {} THEN end(term, dim)
                                  ELSE CHOOSE r \in term.residual : TRUE
           factor(term, dim) == [end |-> end(term, dim), residual |-> residual(term, dim)]
<1>1. ParseUserFactors(d) =
        [dim \in Dims |-> {factor(term, dim) : term \in LastTerm(d, TermsOf(d, dim, "="))}]
  BY Zenon DEF ParseUserFactors
<1>2. ASSUME NEW dim \in Dims, NEW term \in LastTerm(d, TermsOf(d, dim, "="))
      PROVE  factor(term, dim) \in Factor
  <2>1. PICK j \in DOMAIN d.factors : term = d.factors[j] /\ d.factors[j].dim = dim
    BY <1>2 DEF LastTerm, TermsOf
  <2>2. term.end \in Nat /\ term.residual \in SUBSET Nat /\ term.dim = dim
    BY <2>1, InputsAssumption DEF InputsAssumption
  <2>3. end(term, dim) \in Nat \ {0}
    BY <2>2, WorkloadAssumption DEF WorkloadAssumption
  <2>4. end(term, dim) = 1 => term.residual \subseteq {1}
    BY <2>1, <2>2 DEF UnitTermsAreWhole
  <2>5. residual(term, dim) \in Nat /\ (end(term, dim) = 1 => residual(term, dim) = 1)
    <3>1. CASE term.residual = {}
      BY <2>3, <3>1
    <3>2. CASE term.residual # {}
      <4>1. residual(term, dim) \in term.residual
        BY <3>2
      <4> HIDE DEF residual, end
      <4> QED BY <2>2, <2>4, <4>1
    <3> QED BY <3>1, <3>2
  <2> HIDE DEF residual, end
  <2> QED BY <2>3, <2>5 DEF Factor
<1> HIDE DEF factor
<1> QED BY <1>1, <1>2

\* Before the first directive nothing is wrong.
LEMMA NothingReadType == ParsedType(NothingRead)
<1>1. NothingRead.factors = [t \in TilingLevels |-> [dim \in Dims |-> {}]]
  BY DEF NothingRead
<1>2. NothingRead.permutations = [t \in TilingLevels |-> <<>>]
  BY DEF NothingRead
<1>3. <<>> \in Seq(Dims)
  OBVIOUS
<1>4. [dim \in Dims |-> {}] \in [Dims -> SUBSET Factor]
  OBVIOUS
<1> QED BY <1>1, <1>2, <1>3, <1>4 DEF ParsedType

\* A directive read to its end leaves what was collected in its type.
LEMMA DirectiveType ==
  ASSUME UnitTermsAreWhole, NEW p, ParsedType(p), NEW d \in MappingInputs, Readable(d)
  PROVE  ParsedType(ReadDirective(p, d))
<1>1. PICK r : r = ReadDirective(p, d)
  OBVIOUS
<1>2. CASE ~IsNestType(d.type)
  <2>1. r.factors = p.factors /\ r.permutations = p.permutations
    BY <1>1, <1>2 DEF ReadDirective, ParseUserDatatypeBypassSettings
  <2> QED BY <1>1, <2>1 DEF ParsedType
<1>3. CASE IsNestType(d.type)
  <2>1. UserLevel(d) \in TilingLevels
    BY <1>3, TilingLevelsInRange DEF Readable, UserLevel, IsNestType
  <2>2. d.prefix \in Seq(Dims)
    <3>1. d.prefix \in Seq(Int) /\ \A j \in DOMAIN d.prefix : d.prefix[j] \in Dims
      BY <1>3, InputsAssumption DEF Readable, InputsAssumption
    <3> QED BY <3>1
  <2>3. ParseUserFactors(d) \in [Dims -> SUBSET Factor]
    BY UserFactorsType
  <2>4. r = ReadNestDirective(p, d)
    BY <1>1, <1>3 DEF ReadDirective, IsNestType
  <2>5. r.factors = [p.factors EXCEPT ![UserLevel(d)] = ParseUserFactors(d)]
    BY <2>4 DEF ReadNestDirective
  <2>6. r.permutations = [p.permutations EXCEPT ![UserLevel(d)] = d.prefix]
    BY <2>4 DEF ReadNestDirective
  <2> QED BY <1>1, <2>1, <2>2, <2>3, <2>5, <2>6 DEF ParsedType
<1> QED BY <1>2, <1>3

---------------------------------------------------------------------------

\* The inductive invariant of the mapping's side: what was read has its type, and a mapping
\* is constructed only when all was read, from all that was read, if its factors multiply up.
ReadInv ==
  /\ ParsedType(parsed)
  /\ phase \in {"constraints", "mapping"} => mapping = {}
  /\ \A m \in mapping : Multiplies(parsed) /\ m = ConstructMapping(parsed)

\* It holds when the program starts ...
LEMMA InitRead == Init => ReadInv
BY NothingReadType DEF Init, ReadInv

\* ... and after every step.
LEMMA NextRead == UnitTermsAreWhole /\ ReadInv /\ [Next]_vars => ReadInv'
<1> SUFFICES ASSUME UnitTermsAreWhole, ReadInv, [Next]_vars PROVE ReadInv'
  OBVIOUS
<1>1. ASSUME NEW d \in ConstraintInputs, ParseConstraint(d) PROVE ReadInv'
  BY <1>1 DEF ParseConstraint, ReadInv
<1>2. CASE EndConstraints
  BY <1>2 DEF EndConstraints, ReadInv
<1>3. ASSUME NEW d \in MappingInputs, ParseDirective(d) PROVE ReadInv'
  <2>1. mapping' = {} /\ mapping = {}
    BY <1>3 DEF ParseDirective, ReadInv
  <2>2. parsed' = parsed \/ (Readable(d) /\ parsed' = ReadDirective(parsed, d))
    BY <1>3 DEF ParseDirective
  <2>3. ParsedType(parsed')
    BY <2>2, DirectiveType DEF ReadInv
  <2> QED BY <2>1, <2>3 DEF ReadInv
<1>4. CASE Construct
  BY <1>4 DEF Construct, ReadInv
<1>5. CASE Validate
  BY <1>5 DEF Validate, ReadInv
<1>6. CASE UNCHANGED vars
  BY <1>6 DEF vars, ReadInv
<1> QED BY <1>1, <1>2, <1>3, <1>4, <1>5, <1>6 DEF Next

\* Whatever mapping a user writes, over any number of levels and dimensions, with or
\* without imperfect factors: once constructed it runs every dimension over exactly its bound.
THEOREM ConstructedCovers == UnitTermsAreWhole => (Spec => []NestCoversBounds)
<1> SUFFICES ASSUME UnitTermsAreWhole PROVE Spec => []NestCoversBounds
  OBVIOUS
<1>1. ReadInv => NestCoversBounds
  BY NestRunsProduct DEF ReadInv, NestCoversBounds, Multiplies
<1> QED BY <1>1, InitRead, NextRead, PTL DEF Spec

---------------------------------------------------------------------------
(* What constraints in force say of a constructed mapping that is accepted.  *)

\* Where in the items what was chosen of them stands.
Placed(pos, w, items, wanted) ==
  /\ pos \in [1 .. Len(w) -> 1 .. Len(items)]
  /\ \A j \in 1 .. Len(w) : w[j] = items[pos[j]] /\ w[j] \in wanted
  /\ \A j, k \in 1 .. Len(w) : pos[j] = pos[k] => j = k

LEMMA WherePlaced ==
  ASSUME NEW S, NEW items \in Seq(S), NEW wanted
  PROVE  \E pos : Placed(pos, Where(items, wanted), items, wanted)
<1>1. PICK chosen : chosen = Chosen(items, wanted)
  OBVIOUS
<1>2. /\ \A i \in 0 .. Len(items) : chosen[i] \in Seq(S)
      /\ chosen[0] = <<>>
      /\ \A i \in 1 .. Len(items) : chosen[i] = Extended(chosen[i - 1], items[i], wanted)
  BY <1>1, ChosenIs
<1> DEFINE In(pos, w, n) ==
             /\ pos \in [1 .. Len(w) -> 1 .. n]
             /\ \A j \in 1 .. Len(w) : w[j] = items[pos[j]] /\ w[j] \in wanted
             /\ \A j, k \in 1 .. Len(w) : pos[j] = pos[k] => j = k
           I == {n \in Nat : n <= Len(items) => \E pos : In(pos, chosen[n], n)}
<1>3. 0 \in I
  <2>1. chosen[0] = <<>> /\ Len(chosen[0]) = 0
    BY <1>2
  <2>2. In([j \in 1 .. 0 |-> 0], chosen[0], 0)
    BY <2>1
  <2> HIDE DEF In
  <2> QED BY <2>2
<1> HIDE DEF In
<1>4. ASSUME NEW n \in Nat, n \in I PROVE n + 1 \in I
  <2> SUFFICES ASSUME n + 1 <= Len(items) PROVE \E pos : In(pos, chosen[n + 1], n + 1)
    OBVIOUS
  <2>1. n + 1 \in 1 .. Len(items) /\ (n + 1) - 1 = n /\ n \in 0 .. Len(items)
    OBVIOUS
  <2>2. PICK s, x : s = chosen[n] /\ x = items[n + 1]
    OBVIOUS
  <2>3. s \in Seq(S) /\ x \in S /\ chosen[n + 1] = Extended(s, x, wanted)
    BY <1>2, <2>1, <2>2
  <2>4. PICK pos : In(pos, s, n)
    BY <1>4, <2>1, <2>2
  <2>5. /\ pos \in [1 .. Len(s) -> 1 .. n]
        /\ \A j \in 1 .. Len(s) : s[j] = items[pos[j]] /\ s[j] \in wanted
        /\ \A j, k \in 1 .. Len(s) : pos[j] = pos[k] => j = k
    BY <2>4 DEF In
  <2>6. CASE x \notin wanted
    <3>1. chosen[n + 1] = s
      BY <2>3, <2>6 DEF Extended
    <3>2. In(pos, s, n + 1)
      BY <2>5 DEF In
    <3> QED BY <3>1, <3>2
  <2>7. CASE x \in wanted
    <3>1. PICK u, m : u = Append(s, x) /\ m = Len(s)
      OBVIOUS
    <3>2. Len(u) = m + 1 /\ u[m + 1] = x /\ m \in Nat /\ \A j \in 1 .. m : u[j] = s[j]
      BY <2>3, <3>1
    <3>3. chosen[n + 1] = u
      BY <2>3, <2>7, <3>1 DEF Extended
    <3> DEFINE at == [j \in 1 .. m + 1 |-> IF j = m + 1 THEN n + 1 ELSE pos[j]]
    <3>4. /\ \A j \in 1 .. m : at[j] = pos[j] /\ pos[j] \in 1 .. n
          /\ at[m + 1] = n + 1
      <4>1. \A j \in 1 .. m : j \in 1 .. m + 1 /\ j # m + 1
        BY <3>2
      <4>2. m + 1 \in 1 .. m + 1
        BY <3>2
      <4>3. \A j \in 1 .. m : pos[j] \in 1 .. n
        BY <2>5, <3>1
      <4> QED BY <4>1, <4>2, <4>3
    <3>5. at \in [1 .. m + 1 -> 1 .. n + 1]
      BY <2>5, <3>1, <3>2
    <3> HIDE DEF at
    <3>6. ASSUME NEW j \in 1 .. m + 1 PROVE u[j] = items[at[j]] /\ u[j] \in wanted
      <4>1. CASE j = m + 1
        BY <2>2, <2>7, <3>2, <3>4, <4>1
      <4>2. CASE j # m + 1
        <5>1. j \in 1 .. m
          BY <3>2, <4>2
        <5> QED BY <2>5, <3>1, <3>2, <3>4, <5>1
      <4> QED BY <4>1, <4>2
    <3>7. ASSUME NEW j \in 1 .. m + 1, NEW k \in 1 .. m + 1, at[j] = at[k] PROVE j = k
      <4>1. CASE j = m + 1 /\ k = m + 1
        BY <4>1
      <4>2. CASE j = m + 1 /\ k # m + 1
        <5>1. k \in 1 .. m
          BY <3>2, <4>2
        <5> QED BY <3>4, <3>7, <4>2, <5>1
      <4>3. CASE j # m + 1 /\ k = m + 1
        <5>1. j \in 1 .. m
          BY <3>2, <4>3
        <5> QED BY <3>4, <3>7, <4>3, <5>1
      <4>4. CASE j # m + 1 /\ k # m + 1
        <5>1. j \in 1 .. m /\ k \in 1 .. m
          BY <3>2, <4>4
        <5>2. pos[j] = pos[k]
          BY <3>4, <3>7, <5>1
        <5> QED BY <2>5, <3>1, <5>1, <5>2
      <4> QED BY <4>1, <4>2, <4>3, <4>4
    <3>8. In(at, u, n + 1)
      BY <3>2, <3>5, <3>6, <3>7 DEF In
    <3> QED BY <3>3, <3>8
  <2> QED BY <2>6, <2>7
<1> HIDE DEF I
<1>5. Len(items) \in I
  BY <1>3, <1>4, NaturalsByInduction
<1>6. PICK w : w = chosen[Len(items)]
  OBVIOUS
<1>7. PICK pos : In(pos, w, Len(items))
  BY <1>5, <1>6 DEF I
<1>8. w = Where(items, wanted)
  BY <1>1, <1>6 DEF Where
<1>9. Placed(pos, w, items, wanted)
  BY <1>7 DEF In, Placed
<1> QED BY <1>8, <1>9

\* The first n chosen are not changed by an item at the end.
LEMMA WhereAppend ==
  ASSUME NEW S, NEW s \in Seq(S), NEW x \in S, NEW wanted
  PROVE  Where(Append(s, x), wanted) = Extended(Where(s, wanted), x, wanted)
<1>1. PICK u, n : u = Append(s, x) /\ n = Len(s)
  OBVIOUS
<1>2. u \in Seq(S) /\ n \in Nat /\ Len(u) = n + 1 /\ u[n + 1] = x /\ \A i \in 1 .. n : u[i] = s[i]
  BY <1>1
<1>3. PICK long, short : long = Chosen(u, wanted) /\ short = Chosen(s, wanted)
  OBVIOUS
<1>4. long[0] = <<>> /\ \A i \in 1 .. Len(u) : long[i] = Extended(long[i - 1], u[i], wanted)
  BY <1>2, <1>3, ChosenIs
<1>5. short[0] = <<>> /\ \A i \in 1 .. Len(s) : short[i] = Extended(short[i - 1], s[i], wanted)
  BY <1>3, ChosenIs
<1> DEFINE I == {i \in Nat : i <= n => long[i] = short[i]}
<1>6. 0 \in I
  BY <1>4, <1>5
<1>7. ASSUME NEW i \in Nat, i \in I PROVE i + 1 \in I
  <2> SUFFICES ASSUME i + 1 <= n PROVE long[i + 1] = short[i + 1]
    OBVIOUS
  <2>1. i + 1 \in 1 .. n /\ i + 1 \in 1 .. n + 1 /\ (i + 1) - 1 = i /\ long[i] = short[i]
    BY <1>2, <1>7
  <2> QED BY <1>1, <1>2, <1>4, <1>5, <2>1
<1> HIDE DEF I
<1>8. n \in I
  BY <1>2, <1>6, <1>7, NaturalsByInduction
<1>9. long[n + 1] = Extended(short[n], x, wanted)
  <2>1. n + 1 \in 1 .. Len(u) /\ (n + 1) - 1 = n
    BY <1>2
  <2> QED BY <1>2, <1>4, <1>8, <2>1 DEF I
<1> QED BY <1>1, <1>2, <1>3, <1>9 DEF Where

\* Choosing twice is choosing once what is wanted both times.
LEMMA WhereWhere ==
  ASSUME NEW S, NEW items \in Seq(S), NEW first, NEW second, NEW both, both = first \cap second
  PROVE  Where(Where(items, first), second) = Where(items, both)
<1>1. PICK chosen, once : chosen = Chosen(items, first) /\ once = Chosen(items, both)
  OBVIOUS
<1>2. /\ \A i \in 0 .. Len(items) : chosen[i] \in Seq(S)
      /\ chosen[0] = <<>>
      /\ \A i \in 1 .. Len(items) : chosen[i] = Extended(chosen[i - 1], items[i], first)
  BY <1>1, ChosenIs
<1>3. once[0] = <<>> /\ \A i \in 1 .. Len(items) : once[i] = Extended(once[i - 1], items[i], both)
  BY <1>1, ChosenIs
<1> DEFINE I == {i \in Nat : i <= Len(items) => Where(chosen[i], second) = once[i]}
<1>4. 0 \in I
  <2>1. PICK none : none = <<>>
    OBVIOUS
  <2>2. none \in Seq(S)
    BY <2>1
  <2>3. PICK along : along = Chosen(none, second)
    OBVIOUS
  <2>4. along[0] = <<>>
    BY <2>2, <2>3, ChosenIs
  <2>5. along[Len(none)] = <<>>
    BY <2>1, <2>4
  <2>6. Where(none, second) = <<>>
    BY <2>3, <2>5 DEF Where
  <2> QED BY <1>2, <1>3, <2>1, <2>6
<1>5. ASSUME NEW i \in Nat, i \in I PROVE i + 1 \in I
  <2> SUFFICES ASSUME i + 1 <= Len(items) PROVE Where(chosen[i + 1], second) = once[i + 1]
    OBVIOUS
  <2>1. i + 1 \in 1 .. Len(items) /\ (i + 1) - 1 = i /\ i \in 0 .. Len(items)
    OBVIOUS
  <2>2. PICK s, x : s = chosen[i] /\ x = items[i + 1]
    OBVIOUS
  <2>3. /\ s \in Seq(S) /\ x \in S /\ chosen[i + 1] = Extended(s, x, first)
        /\ once[i + 1] = Extended(once[i], x, both) /\ Where(s, second) = once[i]
    <3>1. s \in Seq(S) /\ x \in S /\ chosen[i + 1] = Extended(s, x, first)
      BY <1>2, <2>1, <2>2
    <3>2. once[i + 1] = Extended(once[i], x, both)
      BY <1>3, <2>1, <2>2
    <3>3. i <= Len(items) => Where(chosen[i], second) = once[i]
      BY <1>5
    <3> QED BY <2>1, <2>2, <3>1, <3>2, <3>3
  <2>4. CASE x \notin first
    <3>1. x \notin both
      BY <2>4
    <3> QED BY <2>3, <2>4, <3>1 DEF Extended
  <2>5. CASE x \in first
    <3>1. chosen[i + 1] = Append(s, x)
      BY <2>3, <2>5 DEF Extended
    <3>2. Where(Append(s, x), second) = Extended(once[i], x, second)
      BY <2>3, WhereAppend
    <3>3. Extended(once[i], x, second) = Extended(once[i], x, both)
      BY <2>5 DEF Extended
    <3> QED BY <2>3, <3>1, <3>2, <3>3
  <2> QED BY <2>4, <2>5
<1> HIDE DEF I
<1>6. Len(items) \in I
  BY <1>4, <1>5, NaturalsByInduction
<1> QED BY <1>1, <1>6 DEF I, Where

\* Of loops of different dimensions, a dimension's factor is the end of its loop.
LEMMA FactorOfOne ==
  ASSUME NEW loops \in Seq(Loop), NEW dim, NEW e \in Int,
         \A i, j \in 1 .. Len(loops) : loops[i].dim = loops[j].dim => i = j,
         \A j \in 1 .. Len(loops) : loops[j].dim = dim => loops[j].end = e,
         (\A j \in 1 .. Len(loops) : loops[j].dim # dim) => e = 1
  PROVE  FactorAlong(loops, dim)[Len(loops)] = e
<1>1. PICK along : along = FactorAlong(loops, dim)
  OBVIOUS
<1>2. along[0] = 1 /\ \A i \in 1 .. Len(loops) : along[i] = Factored(along[i - 1], loops[i], dim)
  BY <1>1, LoopsNumbered, FactorAlongIs
<1> DEFINE I == {n \in Nat : n <= Len(loops) =>
                   /\ (\A j \in 1 .. n : loops[j].dim # dim) => along[n] = 1
                   /\ (\E j \in 1 .. n : loops[j].dim = dim) => along[n] = e}
<1>3. 0 \in I
  BY <1>2
<1>4. ASSUME NEW n \in Nat, n \in I PROVE n + 1 \in I
  <2> SUFFICES ASSUME n + 1 <= Len(loops)
               PROVE  /\ (\A j \in 1 .. n + 1 : loops[j].dim # dim) => along[n + 1] = 1
                      /\ (\E j \in 1 .. n + 1 : loops[j].dim = dim) => along[n + 1] = e
    OBVIOUS
  <2>1. n + 1 \in 1 .. Len(loops) /\ (n + 1) - 1 = n /\ \A j \in 1 .. n : j \in 1 .. Len(loops) /\ j # n + 1
    OBVIOUS
  <2>2. along[n + 1] = Factored(along[n], loops[n + 1], dim)
    BY <1>2, <2>1
  <2>3. /\ (\A j \in 1 .. n : loops[j].dim # dim) => along[n] = 1
        /\ (\E j \in 1 .. n : loops[j].dim = dim) => along[n] = e
    BY <1>4, <2>1
  <2>4. CASE loops[n + 1].dim = dim
    <3>1. \A j \in 1 .. n : loops[j].dim # dim
      BY <2>1, <2>4
    <3>2. along[n] = 1 /\ loops[n + 1].end = e
      BY <2>1, <2>3, <2>4, <3>1
    <3>3. along[n + 1] = e
      BY <2>2, <2>4, <3>2 DEF Factored
    <3>4. n + 1 \in 1 .. n + 1
      OBVIOUS
    <3> QED BY <2>4, <3>3, <3>4
  <2>5. CASE loops[n + 1].dim # dim
    <3>1. along[n + 1] = along[n]
      BY <2>2, <2>5 DEF Factored
    <3>2. \A j \in 1 .. n + 1 : j = n + 1 \/ j \in 1 .. n
      OBVIOUS
    <3>3. \A j \in 1 .. n : j \in 1 .. n + 1
      OBVIOUS
    <3> QED BY <2>3, <2>5, <3>1, <3>2, <3>3
  <2> QED BY <2>4, <2>5
<1> HIDE DEF I
<1>5. Len(loops) \in I
  BY <1>3, <1>4, NaturalsByInduction
<1>6. /\ (\A j \in 1 .. Len(loops) : loops[j].dim # dim) => along[Len(loops)] = 1
      /\ (\E j \in 1 .. Len(loops) : loops[j].dim = dim) => along[Len(loops)] = e
  BY <1>5 DEF I
<1> QED BY <1>1, <1>6

\* Where all loops of a dimension have one end, the last recorded is that one.
LEMMA LastEndIs ==
  ASSUME NEW loops \in Seq(Loop), NEW dim, NEW e,
         \A j \in 1 .. Len(loops) : loops[j].dim = dim => loops[j].end = e,
         (\A j \in 1 .. Len(loops) : loops[j].dim # dim) => e = 1
  PROVE  LastEnd(loops, dim) = e
<1> DEFINE found == {j \in DOMAIN loops : loops[j].dim = dim}
<1>1. LastEnd(loops, dim) = IF found = {} THEN 1 ELSE loops[CHOOSE j \in found : \A k \in found : k <= j].end
  BY Zenon DEF LastEnd
<1>2. CASE found = {}
  BY <1>1, <1>2
<1>3. CASE found # {}
  <2>1. \E j \in found : \A k \in found : k <= j
    <3>1. found \subseteq Int /\ \A j \in found : j <= Len(loops)
      OBVIOUS
    <3> DEFINE I == {n \in Nat : (\E j \in found : Len(loops) - j <= n) => \E j \in found : \A k \in found : k <= j}
    <3> HIDE DEF found
    <3>2. 0 \in I
      BY <3>1
    <3>3. ASSUME NEW n \in Nat, n \in I PROVE n + 1 \in I
      <4> SUFFICES ASSUME NEW j \in found, Len(loops) - j <= n + 1
                   PROVE  \E i \in found : \A k \in found : k <= i
        OBVIOUS
      <4>1. CASE \E i \in found : Len(loops) - i <= n
        BY <3>3, <4>1
      <4>2. CASE ~\E i \in found : Len(loops) - i <= n
        <5>1. \A k \in found : k <= j
          BY <3>1, <4>2
        <5> QED BY <5>1
      <4> QED BY <4>1, <4>2
    <3> HIDE DEF I
    <3>4. PICK j \in found : TRUE
      BY <1>3
    <3>5. Len(loops) - j \in Nat
      BY <3>1
    <3>6. Len(loops) - j \in I
      BY <3>2, <3>3, <3>5, NaturalsByInduction
    <3>7. \E i \in found : Len(loops) - i <= Len(loops) - j
      BY <3>1, <3>4
    <3> QED BY <3>6, <3>7 DEF I
  <2>2. PICK j \in found : j = CHOOSE i \in found : \A k \in found : k <= i
    <3> HIDE DEF found
    <3> QED BY <2>1
  <2>3. LastEnd(loops, dim) = loops[j].end
    <3> HIDE DEF found
    <3> QED BY <1>1, <1>3, <2>2
  <2> QED BY <2>3
<1> QED BY <1>2, <1>3

\* Tiling levels are numbered inside out.
LEMMA TilingGrows ==
  \A k, l \in StorageLevels : k < l =>
    TemporalToTiling(k) + (IF l \in SpatialStorageLevels THEN 2 ELSE 1) <= TemporalToTiling(l)
<1> DEFINE At(l) == TemporalToTiling(l)
<1>1. PICK N : N = NumStorageLevels /\ N \in Nat /\ StorageLevels = 1 .. N
  BY MeshesAssumption DEF MeshesAssumption, NumStorageLevels, StorageLevels
<1>2. \A l \in StorageLevels : At(l) \in Int
  BY TilingLevelsInRange DEF TilingLevels
<1>3. \A l \in StorageLevels : At(l) = At(l - 1) + (IF l \in SpatialStorageLevels THEN 2 ELSE 1)
  BY TilingStep
<1> HIDE DEF At
<1> DEFINE I == {n \in Nat : n <= N => \A k \in 1 .. n : At(k) <= At(n)}
<1>4. 0 \in I
  OBVIOUS
<1>5. ASSUME NEW n \in Nat, n \in I PROVE n + 1 \in I
  <2> SUFFICES ASSUME n + 1 <= N, NEW k \in 1 .. n + 1 PROVE At(k) <= At(n + 1)
    OBVIOUS
  <2>1. n + 1 \in StorageLevels /\ k \in StorageLevels
    BY <1>1
  <2>2. CASE k = n + 1
    BY <1>2, <2>1, <2>2
  <2>3. CASE k # n + 1
    <3>1. k \in 1 .. n /\ n \in StorageLevels /\ (n + 1) - 1 = n
      BY <1>1, <2>3
    <3>2. At(k) <= At(n)
      BY <1>1, <1>5, <3>1
    <3>3. At(n) <= At(n + 1)
      BY <1>2, <1>3, <2>1, <3>1
    <3> QED BY <1>2, <2>1, <3>1, <3>2, <3>3
  <2> QED BY <2>2, <2>3
<1> HIDE DEF I
<1>6. \A n \in Nat : n \in I
  BY <1>4, <1>5, NaturalsByInduction
<1>7. ASSUME NEW k \in StorageLevels, NEW l \in StorageLevels, k < l
      PROVE  At(k) + (IF l \in SpatialStorageLevels THEN 2 ELSE 1) <= At(l)
  <2>1. PICK n : n = l - 1 /\ n \in Nat /\ n <= N /\ k \in 1 .. n /\ n \in StorageLevels
    BY <1>1, <1>7
  <2>2. At(k) <= At(n)
    BY <1>6, <2>1 DEF I
  <2> QED BY <1>2, <1>3, <2>1, <2>2
<1> QED BY <1>7 DEF At

\* The storage level of a tiling level, and its kind.
LEMMA TilingIs ==
  /\ \A l \in StorageLevels :
       TilingToStorage(TemporalToTiling(l)) = l /\ ~IsSpatial(TemporalToTiling(l))
  /\ \A l \in SpatialStorageLevels :
       TilingToStorage(SpatialToTiling(l)) = l /\ IsSpatial(SpatialToTiling(l))
<1> DEFINE At(l) == TemporalToTiling(l)
           Levels(l) == {At(l)} \cup {SpatialToTiling(k) : k \in SpatialStorageLevels \cap {l}}
<1>1. PICK N : N = NumStorageLevels /\ N \in Nat /\ StorageLevels = 1 .. N
  BY MeshesAssumption DEF MeshesAssumption, NumStorageLevels, StorageLevels
<1>2. \A l \in StorageLevels : At(l) \in Int
  BY TilingLevelsInRange DEF TilingLevels
<1>3. SpatialStorageLevels \subseteq StorageLevels
  BY DEF SpatialStorageLevels
<1>4. \A k, l \in StorageLevels : k < l =>
        At(k) < At(l) /\ (l \in SpatialStorageLevels => At(k) < SpatialToTiling(l))
  BY <1>2, TilingGrows DEF SpatialToTiling
<1>5. \A l \in SpatialStorageLevels : SpatialToTiling(l) = At(l) - 1
  BY DEF SpatialToTiling
<1>6. \A t : TilingToStorage(t) = CHOOSE l \in StorageLevels : t \in Levels(l)
  BY Zenon DEF TilingToStorage
<1> HIDE DEF At
<1>7. ASSUME NEW k \in StorageLevels, NEW l \in StorageLevels, NEW t, t \in Levels(k), t \in Levels(l)
      PROVE  k = l
  <2>1. t = At(k) \/ (k \in SpatialStorageLevels /\ t = At(k) - 1)
    BY <1>5, <1>7
  <2>2. t = At(l) \/ (l \in SpatialStorageLevels /\ t = At(l) - 1)
    BY <1>5, <1>7
  <2>3. ~(k < l)
    BY <1>2, <1>4, <1>5, <2>1, <2>2
  <2>4. ~(l < k)
    BY <1>2, <1>4, <1>5, <2>1, <2>2
  <2> QED BY <1>1, <2>3, <2>4
<1> HIDE DEF Levels
<1>8. ASSUME NEW l \in StorageLevels, NEW t, t \in Levels(l) PROVE TilingToStorage(t) = l
  BY <1>6, <1>7, <1>8
<1>9. ASSUME NEW l \in StorageLevels PROVE TilingToStorage(At(l)) = l /\ ~IsSpatial(At(l))
  <2>1. At(l) \in Levels(l)
    BY DEF Levels
  <2> QED BY <1>8, <2>1 DEF IsSpatial, At
<1>10. ASSUME NEW l \in SpatialStorageLevels
       PROVE  TilingToStorage(SpatialToTiling(l)) = l /\ IsSpatial(SpatialToTiling(l))
  <2>1. SpatialToTiling(l) \in Levels(l) /\ l \in StorageLevels
    BY <1>3 DEF Levels
  <2>2. TilingToStorage(SpatialToTiling(l)) = l
    BY <1>8, <2>1
  <2>3. SpatialToTiling(l) # At(l)
    BY <1>2, <1>5, <2>1
  <2> QED BY <2>2, <2>3 DEF IsSpatial, At
<1> QED BY <1>9, <1>10 DEF At

---------------------------------------------------------------------------

\* No permutation collected lists a dimension twice.
ListedOnce(p) ==
  \A t \in TilingLevels : \A i, j \in 1 .. Len(p.permutations[t]) :
    p.permutations[t][i] = p.permutations[t][j] => i = j

\* Completing a permutation lists no dimension twice.
LEMMA PaddedListedOnce ==
  ASSUME NEW p, ParsedType(p), ListedOnce(p), NEW t \in TilingLevels,
         NEW q, q = PaddedPermutation(p, t), NEW i \in 1 .. Len(q), NEW j \in 1 .. Len(q), q[i] = q[j]
  PROVE  i = j
<1>1. PICK order, m : order = p.permutations[t] /\ m = Len(order) /\ order \in Seq(Dims) /\ m \in Nat
  <2>1. PICK order : order = p.permutations[t]
    OBVIOUS
  <2>2. order \in Seq(Dims)
    BY <2>1 DEF ParsedType
  <2>3. Len(order) \in Nat
    BY <2>2
  <2> QED BY <2>1, <2>2, <2>3
<1>2. \A a, b \in 1 .. m : order[a] = order[b] => a = b
  BY <1>1 DEF ListedOnce
<1>3. CASE m = NumDims
  <2>1. q = order
    BY <1>1, <1>3 DEF PaddedPermutation
  <2> QED BY <1>1, <1>2, <2>1
<1>4. CASE m # NumDims
  <2>1. PICK ids : ids = [dim \in Dims |-> dim]
    OBVIOUS
  <2>2. ids \in Seq(Dims) /\ Len(ids) = NumDims /\ \A a \in 1 .. NumDims : ids[a] = a
    BY <2>1, DimsAre
  <2>3. PICK others, rest, n : others = Dims \ Range(order) /\ rest = Where(ids, others) /\ n = Len(rest)
    OBVIOUS
  <2>4. PICK pos : Placed(pos, rest, ids, others)
    BY <2>2, <2>3, WherePlaced
  <2>5. rest \in Seq(Dims) /\ n \in Nat
    <3>1. rest \in Seq(Dims)
      BY <2>2, <2>3, WhereHas
    <3> QED BY <2>3, <3>1
  <2>6. \A a \in 1 .. n : rest[a] = pos[a] /\ rest[a] \in others
    BY <2>2, <2>3, <2>4 DEF Placed
  <2>7. \A a, b \in 1 .. n : rest[a] = rest[b] => a = b
    <3>1. \A a, b \in 1 .. n : pos[a] = pos[b] => a = b
      BY <2>3, <2>4 DEF Placed
    <3> QED BY <2>6, <3>1
  <2>8. \A a \in 1 .. m, b \in 1 .. n : order[a] # rest[b]
    <3>1. \A a \in 1 .. m : order[a] \in Range(order)
      BY <1>1 DEF Range
    <3> QED BY <2>3, <2>6, <3>1
  <2>9. q = order \o rest
    BY <1>1, <1>4, <2>1, <2>3 DEF PaddedPermutation
  <2>10. /\ Len(q) = m + n
         /\ \A a \in 1 .. m : q[a] = order[a]
         /\ \A a \in m + 1 .. m + n : q[a] = rest[a - m]
    BY <1>1, <2>3, <2>5, <2>9
  <2>11. CASE i \in 1 .. m /\ j \in 1 .. m
    BY <1>2, <2>10, <2>11
  <2>12. CASE i \in 1 .. m /\ j \notin 1 .. m
    <3>1. j \in m + 1 .. m + n /\ j - m \in 1 .. n
      BY <1>1, <2>5, <2>10, <2>12
    <3> QED BY <2>8, <2>10, <2>12, <3>1
  <2>13. CASE i \notin 1 .. m /\ j \in 1 .. m
    <3>1. i \in m + 1 .. m + n /\ i - m \in 1 .. n
      BY <1>1, <2>5, <2>10, <2>13
    <3> QED BY <2>8, <2>10, <2>13, <3>1
  <2>14. CASE i \notin 1 .. m /\ j \notin 1 .. m
    <3>1. i \in m + 1 .. m + n /\ i - m \in 1 .. n /\ j \in m + 1 .. m + n /\ j - m \in 1 .. n
      BY <1>1, <2>5, <2>10, <2>14
    <3>2. i - m = j - m
      BY <2>7, <2>10, <3>1
    <3> QED BY <1>1, <3>1, <3>2
  <2> QED BY <2>11, <2>12, <2>13, <2>14
<1> QED BY <1>1, <1>3, <1>4

\* Loops of different dimensions.
Different(loops) == \A i, j \in 1 .. Len(loops) : loops[i].dim = loops[j].dim => i = j

\* The loops kept of a tiling level are of different dimensions and of its kind.
LEMMA KeptLoops ==
  ASSUME NEW p, ParsedType(p), ListedOnce(p), NEW t \in TilingLevels, NEW w, w = Kept(p, t)
  PROVE  /\ w \in Seq(Loop) /\ Different(w)
         /\ IsSpatial(t) => \A j \in 1 .. Len(w) : w[j].kind # "Time" /\ w[j].end > 1
         /\ ~IsSpatial(t) => \A j \in 1 .. Len(w) : w[j].kind = "Time"
<1>1. PICK loops : loops = Subnest(p, t) /\ loops \in Seq(Loop) /\ Len(loops) = NumDims
  BY SubnestIs
<1>2. PICK wanted, real : wanted = Real(loops) /\ real = Where(loops, wanted)
  OBVIOUS
<1>3. PICK pos : Placed(pos, real, loops, wanted)
  BY <1>1, <1>2, WherePlaced
<1>4. PICK q : q = PaddedPermutation(p, t) /\ q \in Seq(Dims) /\ Len(q) >= NumDims
  BY PaddedPermutationIs
<1>5. \A i \in 1 .. NumDims : i \in 1 .. Len(q)
  BY <1>4, DimsAre
<1>6. \A i, j \in 1 .. NumDims : q[i] = q[j] => i = j
  BY <1>4, <1>5, PaddedListedOnce
<1>7. ASSUME NEW i \in 1 .. NumDims
      PROVE  /\ loops[i].dim = q[i]
             /\ IsSpatial(t) => loops[i].kind # "Time"
             /\ ~IsSpatial(t) => loops[i].kind = "Time"
  BY <1>1, <1>4, SubnestIs, DimsAre
<1>8. \A j \in 1 .. Len(real) : pos[j] \in 1 .. NumDims /\ real[j] = loops[pos[j]] /\ real[j] \in wanted
  BY <1>1, <1>3 DEF Placed
<1>9. Different(real)
  <2> SUFFICES ASSUME NEW i \in 1 .. Len(real), NEW j \in 1 .. Len(real), real[i].dim = real[j].dim PROVE i = j
    BY DEF Different
  <2>1. q[pos[i]] = q[pos[j]]
    BY <1>7, <1>8
  <2>2. pos[i] = pos[j]
    BY <1>6, <1>8, <2>1
  <2> QED BY <1>3, <2>2 DEF Placed
<1>10. \A j \in 1 .. Len(real) : /\ IsSpatial(t) => real[j].kind # "Time" /\ real[j].end > 1
                                 /\ ~IsSpatial(t) => real[j].kind = "Time"
  BY <1>2, <1>7, <1>8 DEF Real
<1>11. PICK filler : filler = [dim |-> NumDims, end |-> 1, residual |-> 1, kind |-> "Time"]
  OBVIOUS
<1>12. w = IF real = <<>> /\ ~IsSpatial(t) THEN <<filler>> ELSE real
  BY <1>1, <1>2, <1>11, Zenon DEF Kept
<1>13. w \in Seq(Loop)
  BY KeptIs
<1>14. CASE w = real
  BY <1>9, <1>10, <1>13, <1>14
<1>15. CASE w # real
  <2>1. w = <<filler>> /\ ~IsSpatial(t)
    BY <1>12, <1>15
  <2>2. Len(w) = 1 /\ w[1] = filler /\ \A j \in 1 .. Len(w) : j = 1
    BY <2>1
  <2> QED BY <1>11, <1>13, <2>1, <2>2 DEF Different
<1> QED BY <1>14, <1>15

\* The loops of a storage level: in time, of different dimensions; in space, likewise and none trivial.
Tidy(nest) ==
  /\ nest \in Seq(Loop)
  /\ \A i, j \in 1 .. Len(nest) :
       nest[i].dim = nest[j].dim /\ ((nest[i].kind = "Time") <=> (nest[j].kind = "Time")) => i = j
  /\ \A i \in 1 .. Len(nest) : nest[i].kind # "Time" => nest[i].end > 1

\* Every storage level of a constructed mapping is so.
LEMMA ConstructedTidy ==
  ASSUME NEW p, ParsedType(p), ListedOnce(p), NEW l \in StorageLevels
  PROVE  Tidy(ConstructMapping(p).nest[l])
<1>1. PICK nest : nest = ConstructMapping(p).nest[l] /\ nest \in Seq(Loop)
  BY ConstructedNest
<1>2. TemporalToTiling(l) \in TilingLevels /\ ~IsSpatial(TemporalToTiling(l))
  BY TilingLevelsInRange, TilingIs
<1>3. PICK u : u = Kept(p, TemporalToTiling(l))
  OBVIOUS
<1>4. u \in Seq(Loop) /\ Different(u) /\ \A j \in 1 .. Len(u) : u[j].kind = "Time"
  BY <1>2, <1>3, KeptLoops
<1>5. CASE l \notin SpatialStorageLevels
  <2>1. nest = u
    BY <1>1, <1>3, <1>5, ConstructedNest
  <2> QED BY <1>1, <1>4, <2>1 DEF Tidy, Different
<1>6. CASE l \in SpatialStorageLevels
  <2>1. SpatialToTiling(l) \in TilingLevels /\ IsSpatial(SpatialToTiling(l))
    BY <1>6, TilingLevelsInRange, TilingIs
  <2>2. PICK s : s = Kept(p, SpatialToTiling(l))
    OBVIOUS
  <2>3. s \in Seq(Loop) /\ Different(s) /\ \A j \in 1 .. Len(s) : s[j].kind # "Time" /\ s[j].end > 1
    BY <2>1, <2>2, KeptLoops
  <2>4. PICK m, n : m = Len(s) /\ n = Len(u) /\ m \in Nat /\ n \in Nat
    <3>1. s \in Seq(Loop) /\ u \in Seq(Loop)
      BY <1>4, <2>3
    <3>2. Len(s) \in Nat /\ Len(u) \in Nat
      BY <3>1
    <3> QED BY <3>2, Zenon
  <2>5. nest = s \o u
    BY <1>1, <1>3, <1>6, <2>2, ConstructedNest
  <2>6. /\ Len(nest) = m + n
        /\ \A a \in 1 .. m : nest[a] = s[a]
        /\ \A a \in m + 1 .. m + n : nest[a] = u[a - m]
    BY <1>4, <2>3, <2>4, <2>5
  <2>7. \A a \in 1 .. m : nest[a].kind # "Time" /\ nest[a].end > 1
    BY <2>3, <2>4, <2>6
  <2>8. \A a \in m + 1 .. m + n : a - m \in 1 .. n /\ nest[a].kind = "Time"
    BY <1>4, <2>4, <2>6
  <2>9. \A a \in 1 .. m + n : a \in 1 .. m \/ a \in m + 1 .. m + n
    BY <2>4
  <2>10. ASSUME NEW i \in 1 .. m + n, NEW j \in 1 .. m + n,
                nest[i].dim = nest[j].dim, (nest[i].kind = "Time") <=> (nest[j].kind = "Time")
         PROVE  i = j
    <3>1. CASE nest[i].kind = "Time"
      <4>1. i \in m + 1 .. m + n /\ j \in m + 1 .. m + n
        BY <2>7, <2>9, <2>10, <3>1
      <4>2. i - m \in 1 .. n /\ j - m \in 1 .. n /\ u[i - m].dim = u[j - m].dim
        BY <2>6, <2>8, <2>10, <4>1
      <4>3. i - m = j - m
        BY <1>4, <2>4, <4>2 DEF Different
      <4> QED BY <2>4, <4>1, <4>3
    <3>2. CASE nest[i].kind # "Time"
      <4>1. i \in 1 .. m /\ j \in 1 .. m
        BY <2>8, <2>9, <2>10, <3>2
      <4> QED BY <2>3, <2>4, <2>6, <2>10, <4>1 DEF Different
    <3> QED BY <3>1, <3>2
  <2>11. \A a \in 1 .. m + n : nest[a].kind # "Time" => nest[a].end > 1
    BY <2>7, <2>8, <2>9
  <2> QED BY <1>1, <2>6, <2>10, <2>11 DEF Tidy
<1> QED BY <1>1, <1>5, <1>6

\* The loops in space.
InSpace(loops) == {loop \in Range(loops) : loop.kind # "Time"}

\* The loops that a constraint is about are those in time or those in space.
LEMMA LoopsOfIs ==
  ASSUME NEW m, NEW d, NEW nest, nest = m.nest[d.target]
  PROVE  /\ d.type = "temporal" => LoopsOf(m, d) = Where(nest, OfKind(nest, "Time"))
         /\ d.type = "spatial" => LoopsOf(m, d) = Where(nest, InSpace(nest))
<1>1. CASE d.type = "temporal"
  <2>1. {loop \in Range(nest) : (loop.kind = "Time") = (d.type = "temporal")} = OfKind(nest, "Time")
    BY <1>1 DEF OfKind
  <2> QED BY <1>1, <2>1 DEF LoopsOf
<1>2. CASE d.type = "spatial"
  <2>1. {loop \in Range(nest) : (loop.kind = "Time") = (d.type = "temporal")} = InSpace(nest)
    <3>1. (d.type = "temporal") = FALSE
      BY <1>2
    <3>2. \A loop : ((loop.kind = "Time") = FALSE) <=> loop.kind # "Time"
      OBVIOUS
    <3> QED BY <3>1, <3>2 DEF InSpace
  <2> QED BY <1>2, <2>1 DEF LoopsOf
<1> QED BY <1>1, <1>2

\* All in time, or all in space.
SameKind(wanted) == \A x, y \in wanted : (x.kind = "Time") <=> (y.kind = "Time")

\* e is the end of all wanted loops of a dimension, 1 if there is none.
EndOf(nest, wanted, dim, e) ==
  /\ \A i \in 1 .. Len(nest) : nest[i] \in wanted /\ nest[i].dim = dim => nest[i].end = e
  /\ (\A i \in 1 .. Len(nest) : ~(nest[i] \in wanted /\ nest[i].dim = dim)) => e = 1

\* Among loops of a tidy nest that are all in time or all in space, a dimension has one factor,
\* whether multiplied up or looked up.
LEMMA ChosenLoops ==
  ASSUME NEW nest, Tidy(nest), NEW wanted, SameKind(wanted), NEW dim, NEW e \in Nat, EndOf(nest, wanted, dim, e),
         NEW w, w = Where(nest, wanted)
  PROVE  FactorAlong(w, dim)[Len(w)] = e /\ LastEnd(w, dim) = e
<1>1. nest \in Seq(Loop)
  BY DEF Tidy
<1>2. PICK pos : Placed(pos, w, nest, wanted)
  BY <1>1, WherePlaced
<1>3. /\ \A j \in 1 .. Len(w) : pos[j] \in 1 .. Len(nest) /\ w[j] = nest[pos[j]] /\ w[j] \in wanted
      /\ \A j, k \in 1 .. Len(w) : pos[j] = pos[k] => j = k
  BY <1>2 DEF Placed
<1>4. /\ w \in Seq(Loop)
      /\ \A i \in 1 .. Len(nest) : nest[i] \in wanted => \E j \in 1 .. Len(w) : w[j] = nest[i]
  BY <1>1, WhereHas
<1>5. \A i, j \in 1 .. Len(w) : w[i].dim = w[j].dim => i = j
  <2> SUFFICES ASSUME NEW i \in 1 .. Len(w), NEW j \in 1 .. Len(w), w[i].dim = w[j].dim PROVE i = j
    OBVIOUS
  <2>1. PICK a, b : a = pos[i] /\ b = pos[j]
    OBVIOUS
  <2>2. a \in 1 .. Len(nest) /\ b \in 1 .. Len(nest) /\ w[i] = nest[a] /\ w[j] = nest[b]
    BY <1>3, <2>1
  <2>3. (nest[a].kind = "Time") <=> (nest[b].kind = "Time")
    BY <1>3, <2>2 DEF SameKind
  <2>4. a = b
    BY <2>2, <2>3 DEF Tidy
  <2> QED BY <1>3, <2>1, <2>4
<1>6. \A j \in 1 .. Len(w) : w[j].dim = dim => w[j].end = e
  BY <1>3 DEF EndOf
<1>7. (\A j \in 1 .. Len(w) : w[j].dim # dim) => e = 1
  <2> SUFFICES ASSUME \A j \in 1 .. Len(w) : w[j].dim # dim PROVE e = 1
    OBVIOUS
  <2>1. ASSUME NEW i \in 1 .. Len(nest), nest[i] \in wanted, nest[i].dim = dim PROVE FALSE
    <3>1. PICK j \in 1 .. Len(w) : w[j] = nest[i]
      BY <1>4, <2>1
    <3> QED BY <2>1, <3>1
  <2> QED BY <2>1 DEF EndOf
<1>8. LastEnd(w, dim) = e
  BY <1>4, <1>6, <1>7, LastEndIs
<1>9. FactorAlong(w, dim)[Len(w)] = e
  BY <1>4, <1>5, <1>6, <1>7, FactorOfOne
<1> QED BY <1>8, <1>9

\* The factor that Generate records is what the level's loops multiply up to: in time ...
LEMMA TemporalFactorIs ==
  ASSUME NEW m, NEW l, NEW nest, nest = m.nest[l], Tidy(nest), NEW dim \in Dims,
         NEW loops, loops = Where(nest, OfKind(nest, "Time"))
  PROVE  TemporalFactors(m, l)[dim] = FactorAlong(loops, dim)[Len(loops)]
<1>1. PICK time, real : time = OfKind(nest, "Time") /\ real = Real(nest) \cap OfKind(nest, "Time")
  OBVIOUS
<1>2. nest \in Seq(Loop)
  BY DEF Tidy
<1>3. \A i \in 1 .. Len(nest) :
        /\ nest[i] \in Loop /\ nest[i].end \in Nat \ {0}
        /\ nest[i] \in time <=> nest[i].kind = "Time"
        /\ nest[i] \in real <=> (nest[i].kind = "Time" /\ nest[i].end > 1)
  <2> SUFFICES ASSUME NEW i \in 1 .. Len(nest)
               PROVE  /\ nest[i] \in Loop /\ nest[i].end \in Nat \ {0}
                      /\ nest[i] \in time <=> nest[i].kind = "Time"
                      /\ nest[i] \in real <=> (nest[i].kind = "Time" /\ nest[i].end > 1)
    OBVIOUS
  <2>1. nest[i] \in Loop /\ nest[i] \in Range(nest)
    BY <1>2 DEF Range
  <2>2. nest[i].end \in Nat \ {0}
    BY <2>1 DEF Loop
  <2> QED BY <1>1, <2>1, <2>2 DEF OfKind, Real
<1>4. SameKind(time) /\ SameKind(real)
  BY <1>1 DEF OfKind, SameKind
<1>5. PICK n \in Nat : EndOf(nest, time, dim, n)
  <2>1. CASE \A i \in 1 .. Len(nest) : ~(nest[i] \in time /\ nest[i].dim = dim)
    <3>1. EndOf(nest, time, dim, 1)
      BY <2>1 DEF EndOf
    <3> QED BY <3>1
  <2>2. CASE \E i \in 1 .. Len(nest) : nest[i] \in time /\ nest[i].dim = dim
    <3>1. PICK i \in 1 .. Len(nest) : nest[i] \in time /\ nest[i].dim = dim
      BY <2>2
    <3>2. \A j \in 1 .. Len(nest) : nest[j] \in time /\ nest[j].dim = dim => i = j
      BY <1>3, <3>1 DEF Tidy
    <3>3. nest[i].end \in Nat
      BY <1>3
    <3>4. EndOf(nest, time, dim, nest[i].end)
      BY <3>1, <3>2 DEF EndOf
    <3> QED BY <3>3, <3>4
  <2> QED BY <2>1, <2>2
<1>6. FactorAlong(loops, dim)[Len(loops)] = n
  BY <1>1, <1>4, <1>5, ChosenLoops
<1>7. LastEnd(Where(nest, real), dim) = n
  <2>1. \A i \in 1 .. Len(nest) : nest[i] \in real /\ nest[i].dim = dim => nest[i].end = n
    BY <1>3, <1>5 DEF EndOf
  <2>2. ASSUME \A i \in 1 .. Len(nest) : ~(nest[i] \in real /\ nest[i].dim = dim) PROVE n = 1
    <3>1. CASE \E i \in 1 .. Len(nest) : nest[i] \in time /\ nest[i].dim = dim
      <4>1. PICK i \in 1 .. Len(nest) : nest[i] \in time /\ nest[i].dim = dim
        BY <3>1
      <4>2. nest[i].end = n /\ nest[i] \notin real
        BY <1>5, <2>2, <4>1 DEF EndOf
      <4> QED BY <1>3, <4>1, <4>2
    <3>2. CASE ~\E i \in 1 .. Len(nest) : nest[i] \in time /\ nest[i].dim = dim
      BY <1>5, <3>2 DEF EndOf
    <3> QED BY <3>1, <3>2
  <2>3. EndOf(nest, real, dim, n)
    BY <2>1, <2>2 DEF EndOf
  <2> QED BY <1>4, <2>3, ChosenLoops
<1>8. TemporalFactors(m, l)[dim] = LastEnd(Where(nest, real), dim)
  BY <1>1 DEF TemporalFactors, RealLoops
<1> QED BY <1>6, <1>7, <1>8

\* ... and in space, its X and Y loops together.
LEMMA SpatialFactorIs ==
  ASSUME NEW m, NEW l, NEW nest, nest = m.nest[l], Tidy(nest), NEW dim \in Dims,
         NEW loops, loops = Where(nest, InSpace(nest))
  PROVE  SpatialFactors(m, l)[dim] = FactorAlong(loops, dim)[Len(loops)]
<1>1. PICK space, xs, ys : /\ space = InSpace(nest)
                           /\ xs = Real(nest) \cap OfKind(nest, "SpaceX")
                           /\ ys = Real(nest) \cap OfKind(nest, "SpaceY")
  OBVIOUS
<1>2. nest \in Seq(Loop)
  BY DEF Tidy
<1>3. \A i \in 1 .. Len(nest) :
        /\ nest[i].end \in Nat
        /\ nest[i] \in space <=> nest[i].kind # "Time"
        /\ nest[i] \in xs <=> nest[i].kind = "SpaceX"
        /\ nest[i] \in ys <=> nest[i].kind = "SpaceY"
        /\ nest[i].kind \in {"Time", "SpaceX", "SpaceY"}
  <2> SUFFICES ASSUME NEW i \in 1 .. Len(nest)
               PROVE  /\ nest[i].end \in Nat
                      /\ nest[i] \in space <=> nest[i].kind # "Time"
                      /\ nest[i] \in xs <=> nest[i].kind = "SpaceX"
                      /\ nest[i] \in ys <=> nest[i].kind = "SpaceY"
                      /\ nest[i].kind \in {"Time", "SpaceX", "SpaceY"}
    OBVIOUS
  <2>1. nest[i] \in Loop /\ nest[i] \in Range(nest)
    BY <1>2 DEF Range
  <2>2. nest[i].end \in Nat /\ nest[i].kind \in {"Time", "SpaceX", "SpaceY"}
    BY <2>1 DEF Loop
  <2>3. nest[i].kind # "Time" => nest[i].end > 1
    BY DEF Tidy
  <2> QED BY <1>1, <2>1, <2>2, <2>3 DEF OfKind, Real, InSpace
<1>4. SameKind(space) /\ SameKind(xs) /\ SameKind(ys)
  BY <1>1 DEF OfKind, InSpace, SameKind
<1>5. PICK u, w : u = Where(nest, xs) /\ w = Where(nest, ys)
  OBVIOUS
<1>6. SpatialFactors(m, l)[dim] = LastEnd(u, dim) * LastEnd(w, dim)
  BY <1>1, <1>5 DEF SpatialFactors, RealLoops
<1>7. ASSUME NEW a \in Nat, NEW x \in Nat, NEW y \in Nat, a = x * y,
             EndOf(nest, space, dim, a), EndOf(nest, xs, dim, x), EndOf(nest, ys, dim, y)
      PROVE  SpatialFactors(m, l)[dim] = FactorAlong(loops, dim)[Len(loops)]
  <2>1. FactorAlong(loops, dim)[Len(loops)] = a
    BY <1>1, <1>4, <1>7, ChosenLoops
  <2>2. LastEnd(u, dim) = x
    BY <1>4, <1>5, <1>7, ChosenLoops
  <2>3. LastEnd(w, dim) = y
    BY <1>4, <1>5, <1>7, ChosenLoops
  <2> QED BY <1>6, <1>7, <2>1, <2>2, <2>3
<1>8. CASE \A i \in 1 .. Len(nest) : ~(nest[i].kind # "Time" /\ nest[i].dim = dim)
  <2>1. EndOf(nest, space, dim, 1) /\ EndOf(nest, xs, dim, 1) /\ EndOf(nest, ys, dim, 1)
    BY <1>3, <1>8 DEF EndOf
  <2>2. 1 = 1 * 1
    OBVIOUS
  <2> QED BY <1>7, <2>1, <2>2
<1>9. CASE \E i \in 1 .. Len(nest) : nest[i].kind # "Time" /\ nest[i].dim = dim
  <2>1. PICK i \in 1 .. Len(nest) : nest[i].kind # "Time" /\ nest[i].dim = dim
    BY <1>9
  <2>2. \A j \in 1 .. Len(nest) : nest[j].kind # "Time" /\ nest[j].dim = dim => i = j
    BY <2>1 DEF Tidy
  <2>3. PICK n \in Nat : n = nest[i].end
    BY <1>3
  <2>4. EndOf(nest, space, dim, n)
    BY <1>3, <2>1, <2>2, <2>3 DEF EndOf
  <2>5. CASE nest[i].kind = "SpaceX"
    <3>1. EndOf(nest, xs, dim, n) /\ EndOf(nest, ys, dim, 1)
      BY <1>3, <2>1, <2>2, <2>3, <2>5 DEF EndOf
    <3>2. n = n * 1
      OBVIOUS
    <3> QED BY <1>7, <2>4, <3>1, <3>2
  <2>6. CASE nest[i].kind = "SpaceY"
    <3>1. EndOf(nest, xs, dim, 1) /\ EndOf(nest, ys, dim, n)
      BY <1>3, <2>1, <2>2, <2>3, <2>6 DEF EndOf
    <3>2. n = 1 * n
      OBVIOUS
    <3> QED BY <1>7, <2>4, <3>1, <3>2
  <2> QED BY <1>3, <2>1, <2>5, <2>6
<1> QED BY <1>8, <1>9

\* What is chosen of some of the items is these.
LEMMA WhereRange ==
  ASSUME NEW S, NEW items \in Seq(S), NEW wanted, wanted \subseteq Range(items), NEW w, w = Where(items, wanted)
  PROVE  Range(w) = wanted
<1>1. w \in Seq(S) /\ \A i \in 1 .. Len(items) : items[i] \in wanted => \E j \in 1 .. Len(w) : w[j] = items[i]
  BY WhereHas
<1>2. PICK pos : Placed(pos, w, items, wanted)
  BY WherePlaced
<1>3. ASSUME NEW x \in Range(w) PROVE x \in wanted
  <2>1. PICK j \in 1 .. Len(w) : w[j] = x
    BY <1>1 DEF Range
  <2> QED BY <1>2, <2>1 DEF Placed
<1>4. ASSUME NEW x \in wanted PROVE x \in Range(w)
  <2>1. PICK i \in 1 .. Len(items) : items[i] = x
    BY DEF Range
  <2>2. PICK j \in 1 .. Len(w) : w[j] = x
    BY <1>1, <2>1
  <2> QED BY <1>1, <2>2 DEF Range
<1> QED BY <1>3, <1>4

\* The split that Generate records is the number of the level's X loops.
LEMMA SplitIs ==
  ASSUME NEW m, NEW l, NEW nest, nest = m.nest[l], Tidy(nest),
         NEW loops, loops = Where(nest, InSpace(nest))
  PROVE  Len(Where(loops, OfKind(loops, "SpaceX"))) = SpatialSplit(m, l)
<1>1. nest \in Seq(Loop) /\ loops \in Seq(Loop)
  <2>1. nest \in Seq(Loop)
    BY DEF Tidy
  <2>2. PICK space : space = InSpace(nest)
    OBVIOUS
  <2> QED BY <2>1, <2>2, WhereHas
<1>3. Range(loops) = InSpace(nest)
  <2>1. PICK space : space = InSpace(nest)
    OBVIOUS
  <2>2. space \subseteq Range(nest)
    BY <2>1 DEF InSpace
  <2> QED BY <1>1, <2>1, <2>2, WhereRange
<1>4. OfKind(loops, "SpaceX") = OfKind(nest, "SpaceX")
  BY <1>3 DEF OfKind, InSpace
<1>5. InSpace(nest) \cap OfKind(nest, "SpaceX") = OfKind(nest, "SpaceX")
  BY DEF OfKind, InSpace
<1>6. Real(nest) \cap OfKind(nest, "SpaceX") = OfKind(nest, "SpaceX")
  <2>1. \A x \in Range(nest) : x.kind = "SpaceX" => x.end > 1
    <3>1. \A i \in 1 .. Len(nest) : nest[i].kind # "Time" => nest[i].end > 1
      BY DEF Tidy
    <3>2. Range(nest) = {nest[i] : i \in 1 .. Len(nest)}
      BY <1>1 DEF Range
    <3> QED BY <3>1, <3>2
  <2> QED BY <2>1 DEF OfKind, Real
<1>7. Where(loops, OfKind(loops, "SpaceX")) = Where(nest, OfKind(nest, "SpaceX"))
  <2>1. PICK space, xs : space = InSpace(nest) /\ xs = OfKind(nest, "SpaceX")
    OBVIOUS
  <2>2. xs = space \cap xs
    BY <1>5, <2>1
  <2>3. Where(Where(nest, space), xs) = Where(nest, xs)
    BY <1>1, <2>2, WhereWhere
  <2> QED BY <1>4, <2>1, <2>3
<1> QED BY <1>6, <1>7 DEF SpatialSplit, RealLoops

---------------------------------------------------------------------------

\* What a constraint in force says of its level holds of a mapping that the check admits.
LEMMA ValidatedKeeps ==
  ASSUME NEW c, NEW d, Accepted(d), IsNestType(d.type), Holds(c, d),
         NEW m, SatisfiedBy(c, m), Tidy(m.nest[d.target]),
         NEW loops, loops = LoopsOf(m, d)
  PROVE  /\ \A dim \in Dims :
              /\ \A f \in ParseFactors(d)[dim] : FactorAlong(loops, dim)[Len(loops)] = f
              /\ \A f \in ParseMaxFactors(d)[dim] : FactorAlong(loops, dim)[Len(loops)] <= f
         /\ d.type = "spatial" => \A s \in d.split : Len(Where(loops, OfKind(loops, "SpaceX"))) = s
<1>1. PICK t, l, nest : t = FindTargetTilingLevel(d) /\ l = d.target /\ nest = m.nest[l]
  OBVIOUS
<1>2. t \in TilingLevels /\ l \in StorageLevels
  BY <1>1, TargetInRange DEF Accepted
<1>3. /\ \A dim \in Dims : /\ ParseFactors(d)[dim] \subseteq c.factors[t][dim]
                           /\ ParseMaxFactors(d)[dim] \subseteq c.max_factors[t][dim]
      /\ d.type = "spatial" => d.split \subseteq c.splits[t]
  BY <1>1 DEF Holds, NestHolds
<1>4. ConstrainsNest(c, t) =>
        /\ \A dim \in Dims : /\ \A f \in c.factors[t][dim] : LevelFactors(m, t)[dim] = f
                             /\ \A f \in c.max_factors[t][dim] : LevelFactors(m, t)[dim] <= f
        /\ \A s \in c.splits[t] : SpatialSplit(m, TilingToStorage(t)) = s
  BY <1>2 DEF SatisfiedBy
<1>5. /\ \A dim \in Dims : \A f \in c.factors[t][dim] \cup c.max_factors[t][dim] : ConstrainsNest(c, t)
      /\ \A s \in c.splits[t] : ConstrainsNest(c, t)
  BY DEF ConstrainsNest
<1>6. \A dim \in Dims : LevelFactors(m, t)[dim] = FactorAlong(loops, dim)[Len(loops)]
  <2>1. CASE d.type = "temporal"
    <3>1. t = TemporalToTiling(l)
      BY <1>1, <2>1 DEF FindTargetTilingLevel
    <3>2. TilingToStorage(t) = l /\ ~IsSpatial(t)
      BY <1>2, <3>1, TilingIs
    <3>3. loops = Where(nest, OfKind(nest, "Time"))
      BY <1>1, <2>1, LoopsOfIs
    <3>4. \A dim \in Dims : TemporalFactors(m, l)[dim] = FactorAlong(loops, dim)[Len(loops)]
      BY <1>1, <3>3, TemporalFactorIs
    <3> QED BY <3>2, <3>4 DEF LevelFactors
  <2>2. CASE d.type = "spatial"
    <3>1. t = SpatialToTiling(l) /\ l \in SpatialStorageLevels
      BY <1>1, <2>2 DEF FindTargetTilingLevel, Accepted, HasTarget, IsDatatype
    <3>2. TilingToStorage(t) = l /\ IsSpatial(t)
      BY <3>1, TilingIs
    <3>3. loops = Where(nest, InSpace(nest))
      BY <1>1, <2>2, LoopsOfIs
    <3>4. \A dim \in Dims : SpatialFactors(m, l)[dim] = FactorAlong(loops, dim)[Len(loops)]
      BY <1>1, <3>3, SpatialFactorIs
    <3> QED BY <3>2, <3>4 DEF LevelFactors
  <2> QED BY <2>1, <2>2 DEF IsNestType
<1>7. ASSUME d.type = "spatial"
      PROVE  SpatialSplit(m, TilingToStorage(t)) = Len(Where(loops, OfKind(loops, "SpaceX")))
  <2>1. t = SpatialToTiling(l) /\ l \in SpatialStorageLevels
    BY <1>1, <1>7 DEF FindTargetTilingLevel, Accepted, HasTarget, IsDatatype
  <2>2. TilingToStorage(t) = l
    BY <2>1, TilingIs
  <2>3. loops = Where(nest, InSpace(nest))
    BY <1>1, <1>7, LoopsOfIs
  <2> QED BY <1>1, <2>2, <2>3, SplitIs
<1>8. ASSUME NEW dim \in Dims
      PROVE  /\ \A f \in ParseFactors(d)[dim] : FactorAlong(loops, dim)[Len(loops)] = f
             /\ \A f \in ParseMaxFactors(d)[dim] : FactorAlong(loops, dim)[Len(loops)] <= f
  BY <1>3, <1>4, <1>5, <1>6
<1>9. d.type = "spatial" => \A s \in d.split : Len(Where(loops, OfKind(loops, "SpaceX"))) = s
  BY <1>3, <1>4, <1>5, <1>7
<1> QED BY <1>8, <1>9

\* A directive that lists no dimension twice leaves none listed twice.
LEMMA DirectiveListedOnce ==
  ASSUME DimensionsListedOnce, NEW p, ParsedType(p), ListedOnce(p), NEW d \in MappingInputs, Readable(d)
  PROVE  ListedOnce(ReadDirective(p, d))
<1>1. PICK r : r = ReadDirective(p, d)
  OBVIOUS
<1>2. CASE ~IsNestType(d.type)
  <2>1. r.permutations = p.permutations
    BY <1>1, <1>2 DEF ReadDirective, ParseUserDatatypeBypassSettings
  <2> QED BY <1>1, <2>1 DEF ListedOnce
<1>3. CASE IsNestType(d.type)
  <2>1. r = ReadNestDirective(p, d)
    BY <1>1, <1>3 DEF ReadDirective, IsNestType
  <2>2. r.permutations = [p.permutations EXCEPT ![UserLevel(d)] = d.prefix]
    BY <2>1 DEF ReadNestDirective
  <2>3. DOMAIN d.prefix = 1 .. Len(d.prefix)
    <3>1. d.prefix \in Seq(Int)
      BY InputsAssumption DEF InputsAssumption
    <3> QED BY <3>1
  <2>4. \A i, j \in 1 .. Len(d.prefix) : d.prefix[i] = d.prefix[j] => i = j
    BY <2>3 DEF DimensionsListedOnce
  <2>5. \A t \in TilingLevels : r.permutations[t] = p.permutations[t] \/ r.permutations[t] = d.prefix
    BY <2>2 DEF ParsedType
  <2> QED BY <1>1, <2>4, <2>5 DEF ListedOnce
<1> QED BY <1>2, <1>3

\* The inductive invariant of validation: no dimension is listed twice, the mapping is that of
\* ReadInv, and an accepted one has passed the check against the constraints, which no longer change.
AcceptedInv ==
  /\ SetupInv /\ ReadInv
  /\ ListedOnce(parsed)
  /\ phase = "accepted" => \A m \in mapping : SatisfiedBy(constraints, m)

\* It holds when the program starts ...
LEMMA InitAccepted == Init => AcceptedInv
<1> SUFFICES ASSUME Init PROVE AcceptedInv
  OBVIOUS
<1>1. ListedOnce(NothingRead)
  <2>1. NothingRead.permutations = [t \in TilingLevels |-> <<>>]
    BY DEF NothingRead
  <2>2. \A t \in TilingLevels : NothingRead.permutations[t] = <<>>
    BY <2>1
  <2> QED BY <2>2 DEF ListedOnce
<1> QED BY <1>1, InitSetup, InitRead DEF AcceptedInv, Init

\* ... and after every step.
LEMMA NextAccepted == UnitTermsAreWhole /\ DimensionsListedOnce /\ AcceptedInv /\ [Next]_vars => AcceptedInv'
<1> SUFFICES ASSUME UnitTermsAreWhole, DimensionsListedOnce, AcceptedInv, [Next]_vars PROVE AcceptedInv'
  OBVIOUS
<1>1. SetupInv' /\ ReadInv'
  BY NextSetup, NextRead DEF AcceptedInv
<1>2. ListedOnce(parsed') /\ (phase' = "accepted" => \A m \in mapping' : SatisfiedBy(constraints', m))
  <2>1. ASSUME NEW d \in ConstraintInputs, ParseConstraint(d)
        PROVE  ListedOnce(parsed') /\ phase' # "accepted"
    BY <2>1 DEF ParseConstraint, AcceptedInv
  <2>2. CASE EndConstraints
    BY <2>2 DEF EndConstraints, AcceptedInv
  <2>3. ASSUME NEW d \in MappingInputs, ParseDirective(d)
        PROVE  ListedOnce(parsed') /\ phase' # "accepted"
    <3>1. parsed' = parsed \/ (Readable(d) /\ parsed' = ReadDirective(parsed, d))
      BY <2>3 DEF ParseDirective
    <3>2. phase' # "accepted"
      BY <2>3 DEF ParseDirective
    <3> QED BY <3>1, <3>2, DirectiveListedOnce DEF AcceptedInv, ReadInv
  <2>4. CASE Construct
    BY <2>4 DEF Construct, AcceptedInv
  <2>5. CASE Validate
    BY <2>5 DEF Validate, AcceptedInv
  <2>6. CASE UNCHANGED vars
    BY <2>6 DEF vars, AcceptedInv
  <2> QED BY <2>1, <2>2, <2>3, <2>4, <2>5, <2>6 DEF Next
<1> QED BY <1>1, <1>2 DEF AcceptedInv

\* Whatever constraints and mapping a user writes: an accepted mapping has the factors that the
\* constraints fix, none above those they bound, and the split they ask for.
THEOREM ConstraintsKept ==
  UnitTermsAreWhole /\ DimensionsListedOnce => (Spec => []AcceptedKeepsFactors)
<1> SUFFICES ASSUME UnitTermsAreWhole, DimensionsListedOnce PROVE Spec => []AcceptedKeepsFactors
  OBVIOUS
<1>1. AcceptedInv => AcceptedKeepsFactors
  <2> SUFFICES ASSUME AcceptedInv, phase = "accepted", NEW m \in mapping, NEW i \in DOMAIN given,
                      IsNestType(given[i].type)
               PROVE  LET d == given[i]
                          loops == LoopsOf(m, d)
                          Along(dim) == FactorAlong(loops, dim)[Len(loops)]
                      IN  /\ \A dim \in Dims : /\ \A f \in ParseFactors(d)[dim] : Along(dim) = f
                                               /\ \A f \in ParseMaxFactors(d)[dim] : Along(dim) <= f
                          /\ d.type = "spatial" => \A s \in d.split : Len(Where(loops, OfKind(loops, "SpaceX"))) = s
    BY DEF AcceptedKeepsFactors
  <2>1. PICK d : d = given[i]
    OBVIOUS
  <2>2. Accepted(d) /\ Holds(constraints, d)
    BY <2>1 DEF AcceptedInv, SetupInv
  <2>3. SatisfiedBy(constraints, m)
    BY DEF AcceptedInv
  <2>4. d.target \in StorageLevels
    BY <2>2, TargetInRange DEF Accepted
  <2>5. Tidy(m.nest[d.target])
    BY <2>4, ConstructedTidy DEF AcceptedInv, ReadInv
  <2>6. PICK loops : loops = LoopsOf(m, d)
    OBVIOUS
  <2>7. /\ \A dim \in Dims :
             /\ \A f \in ParseFactors(d)[dim] : FactorAlong(loops, dim)[Len(loops)] = f
             /\ \A f \in ParseMaxFactors(d)[dim] : FactorAlong(loops, dim)[Len(loops)] <= f
        /\ d.type = "spatial" => \A s \in d.split : Len(Where(loops, OfKind(loops, "SpaceX"))) = s
    BY <2>1, <2>2, <2>3, <2>5, <2>6, ValidatedKeeps
  <2> QED BY <2>1, <2>6, <2>7
<1> QED BY <1>1, InitAccepted, NextAccepted, PTL DEF Spec
=============================================================================
