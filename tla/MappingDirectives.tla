------------------------- MODULE MappingDirectives --------------------------
(***************************************************************************)
(* A mapping and the directives it is written in.  The same directive      *)
(* format serves the mapping of timeloop-model, the constraints of a        *)
(* mapspace and the files the mapper prints, and each reader takes from a   *)
(* directive what it knows.                                                 *)
(*                                                                         *)
(* An optional value is a set of at most one element.  A directive is a     *)
(* record with                                                              *)
(*   type, target     the kind and the storage level                        *)
(*   factors          the terms of the factor string, in order: [dim, rel,  *)
(*                    end, residual], rel one of "=", "<=", ">="            *)
(*   default_max, default_min   optional defaults for the bounds            *)
(*   prefix, suffix   the dimensions before and after the separator of the  *)
(*                    permutation string                                    *)
(*   split, remainders, min, proportion, skew   optional values             *)
(*   keep, bypass     sets of data spaces                                   *)
(*   flags            the data spaces listed under each flag's key          *)
(*                                                                         *)
(* A mapping is a record with the loops of every storage level, innermost   *)
(* first ([dim, end, residual, kind]), without and with the trivial ones,   *)
(* the levels that keep each data space, and the flags, skews, confidence   *)
(* thresholds and fan-outs of the storage levels.                           *)
(*                                                                         *)
(* Dimensions have names of one letter, as the permutation strings need:    *)
(* the printers take the length of such a string for a number of loops.     *)
(***************************************************************************)
EXTENDS SequencesExt, Integers, Sequences, FiniteSets

(***************************************************************************)
(* What the mapping code knows of an architecture: the fan-out below each  *)
(* storage level and the numbering of the tiling levels.  Every storage    *)
(* level has a temporal tiling level, and a spatial one just inside it when *)
(* its fan-out exceeds one.                                                 *)
(*                                                                         *)
(* Meshes[1] is the mesh of the arithmetic level, Meshes[l + 1] the mesh of *)
(* storage level l; levels count from 1, innermost first.                   *)
(***************************************************************************)

CONSTANT Meshes

\* The assertions of DeriveFanouts: an outer mesh divides the one inside it.
ASSUME MeshesAssumption ==
  /\ Len(Meshes) >= 2
  /\ Meshes \in Seq([x : Nat \ {0}, y : Nat \ {0}])
  /\ \A l \in 1 .. Len(Meshes) - 1 : /\ (Meshes[l].x % Meshes[l + 1].x) = 0
                                     /\ (Meshes[l].y % Meshes[l + 1].y) = 0

NumStorageLevels == Len(Meshes) - 1
StorageLevels == 1 .. NumStorageLevels

\* How many instances inside a level each of its instances fans out to.
DeriveFanouts ==
  [l \in StorageLevels |->
     [x |-> Meshes[l].x \div Meshes[l + 1].x, y |-> Meshes[l].y \div Meshes[l + 1].y]]

FanoutX(l) == DeriveFanouts[l].x
FanoutY(l) == DeriveFanouts[l].y
Fanout(l) == FanoutX(l) * FanoutY(l)

\* The storage levels with a spatial tiling level (spatial_to_tiling_map_).
SpatialStorageLevels == {l \in StorageLevels : Fanout(l) > 1}

\* Construct numbers the tiling levels inside out, a level's spatial one first.
TemporalToTiling(l) == l + Cardinality({k \in SpatialStorageLevels : k <= l})
SpatialToTiling(l) == TemporalToTiling(l) - 1

NumTilingLevels == NumStorageLevels + Cardinality(SpatialStorageLevels)
TilingLevels == 1 .. NumTilingLevels

TilingToStorage(t) ==
  CHOOSE l \in StorageLevels : t \in {TemporalToTiling(l)}
                                 \cup {SpatialToTiling(k) : k \in SpatialStorageLevels \cap {l}}

IsSpatial(t) == t # TemporalToTiling(TilingToStorage(t))

-----------------------------------------------------------------------------
CONSTANTS NumDims,      \* NumFlattenedDimensions
          Bound,        \* GetFlattenedBound of every dimension
          DataSpaces

Dims == 1 .. NumDims

ASSUME WorkloadAssumption == /\ NumDims \in Nat \ {0}
                             /\ Bound \in [Dims -> Nat \ {0}]

FlagNames == {"no_link_transfer", "no_multicast", "no_temporal_reuse",
              "rmw_first_update", "no_coalesce"}

\* A directive that says nothing yet.
Directive(type, target) ==
  [type |-> type, target |-> target, factors |-> <<>>, default_max |-> {}, default_min |-> {},
   prefix |-> <<>>, suffix |-> <<>>, split |-> {}, remainders |-> {}, min |-> {},
   proportion |-> {}, skew |-> {}, keep |-> {}, bypass |-> {}, flags |-> <<>>]

IsNestType(type) == type \in {"temporal", "spatial"}

\* The new value where there is one, otherwise the old.
Override(old, new) == IF new = {} THEN old ELSE new

\* Where the directive's terms of this relation for a dimension are, and the last of
\* some positions' terms.
TermsOf(d, dim, rel) == {j \in DOMAIN d.factors : d.factors[j].dim = dim /\ d.factors[j].rel = rel}
LastTerm(d, positions) == {d.factors[j] : j \in {k \in positions : \A l \in positions : l <= k}}

\* The data spaces listed under the first of these keys the directive has.
FirstKey(d, keys) ==
  LET found == {j \in DOMAIN keys : keys[j] \in DOMAIN d.flags}
  IN  {d.flags[keys[j]] : j \in {k \in found : \A l \in found : k <= l}}

\* What is chosen of the first n of some items, in their order.
Extended(chosen, item, wanted) == IF item \in wanted THEN Append(chosen, item) ELSE chosen

Chosen(items, wanted) ==
  LET chosen[n \in 0 .. Len(items)] ==
        IF n = 0 THEN <<>> ELSE Extended(chosen[n - 1], items[n], wanted)
  IN  chosen

Where(items, wanted) == Chosen(items, wanted)[Len(items)]

---------------------------------------------------------------------------
(* Reading a mapping level by level, as every printer and Generate do.      *)

\* A loop of a single iteration is a trivial one.
Real(loops) == {loop \in Range(loops) : loop.end > 1}
OfKind(loops, kind) == {loop \in Range(loops) : loop.kind = kind}

RealLoops(m, l, kind) == Where(m.nest[l], Real(m.nest[l]) \cap OfKind(m.nest[l], kind))

\* A dimension's factor among loops: of two loops of one dimension the last is recorded.
LastEnd(loops, dim) ==
  LET found == {j \in DOMAIN loops : loops[j].dim = dim}
  IN  IF found = {} THEN 1 ELSE loops[CHOOSE j \in found : \A k \in found : k <= j].end

Order(loops) == [j \in DOMAIN loops |-> loops[j].dim]

WithUnits_First(order, factors) ==
  Where([dim \in Dims |-> dim], {dim \in Dims : factors[dim] = 1}) \o order

\* The unit factors, in the order of the dimensions, close a permutation.
WithUnits(order, factors) ==
  order \o Where([dim \in Dims |-> dim], {dim \in Dims : factors[dim] = 1})

TemporalFactors(m, l) == [dim \in Dims |-> LastEnd(RealLoops(m, l, "Time"), dim)]
TemporalPermutation(m, l) ==
  WithUnits(Order(RealLoops(m, l, "Time")), TemporalFactors(m, l))

\* The X and Y loops are merged into one spatial level; the split is where Y begins.
SpatialOrder(m, l) == Order(RealLoops(m, l, "SpaceX")) \o Order(RealLoops(m, l, "SpaceY"))
SpatialFactors(m, l) ==
  [dim \in Dims |-> LastEnd(RealLoops(m, l, "SpaceX"), dim) * LastEnd(RealLoops(m, l, "SpaceY"), dim)]

SpatialPermutation(m, l) == WithUnits(SpatialOrder(m, l), SpatialFactors(m, l))
SpatialSplit(m, l) == Len(RealLoops(m, l, "SpaceX"))

---------------------------------------------------------------------------
(* The printers.                                                            *)

Term(dim, end) == [dim |-> dim, rel |-> "=", end |-> end, residual |-> {}]

DatatypeDirective(m, l) ==
  [Directive("datatype", l) EXCEPT !.keep = {v \in DataSpaces : m.keep[v][l]},
                                   !.bypass = {v \in DataSpaces : ~m.keep[v][l]}]

\* Printed only when the level has a spatial loop.
SpatialDirectives(m, l) ==
  IF SpatialOrder(m, l) = <<>> THEN <<>>
  ELSE << [Directive("spatial", l) EXCEPT
             !.factors = [dim \in Dims |-> Term(dim, SpatialFactors(m, l)[dim])],
             !.prefix = SpatialPermutation(m, l),
             !.split = {SpatialSplit(m, l)}] >>

TemporalDirective(m, l) ==
  [Directive("temporal", l) EXCEPT
     !.factors = [dim \in Dims |-> Term(dim, TemporalFactors(m, l)[dim])],
     !.prefix = TemporalPermutation(m, l)]

\* The three printers write the same directives, and no residual, flag or skew.
FormatAsConstraints(m) ==
  [l \in StorageLevels |-> DatatypeDirective(m, l)]
    \o FlattenSeq([l \in StorageLevels |-> Append(SpatialDirectives(m, l), TemporalDirective(m, l))])

FormatAsLibConfig(m) == FormatAsConstraints(m)
FormatAsYaml(m) == FormatAsConstraints(m)

=============================================================================
