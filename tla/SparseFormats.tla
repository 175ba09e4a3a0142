---------------------------- MODULE SparseFormats ----------------------------
(***************************************************************************)
(* How a tile of a sparse tensor is represented                            *)
(* (src/src/sparse-analysis/representation-analyzer.cpp,                   *)
(* src/src/loop-analysis/tiling-tile-info.cpp and                          *)
(* src/src/workload/format-models/).  The loops that walk over the tile    *)
(* are mapped to the ranks of a tree of fibres, each rank has a format,    *)
(* and the expected number of metadata and payload units of each rank      *)
(* follows from the density of the tensor.                                 *)
(*                                                                         *)
(* A loop is a record of its dimension and bound; loops come with the      *)
(* extents of the tile they and the loops below them walk over.  Rank 1 is *)
(* the innermost.  A format f is a record: has_metadata, compressed,       *)
(* models (the format name of each rank), rules (for each rank a set of    *)
(* sets of dimensions that may be flattened into it; {} for no rule) and   *)
(* inner_to_outer.                                                         *)
(***************************************************************************)
EXTENDS DensityModels

Trivial(loop) == loop.bound <= 1

FormatRanks(f) == IF f.has_metadata THEN Len(f.models) ELSE 1

\* ExistFlatteningRule and FoundDimensionInFlatteningRule.
ExistRule(f, r) == f.has_metadata /\ f.rules[r] # {}

RuleOf(f, r, dim) == UNION {rule \in f.rules[r] : dim \in rule}

\* May loop i open rank r, and may a loop further on join the rank it opened?
Opens(f, r, loop) == ~ExistRule(f, r) \/ \E rule \in f.rules[r] : loop.dim \in rule

Joins(f, r, opener, loop) ==
  \/ ~f.has_metadata
  \/ /\ ExistRule(f, r)
     /\ Trivial(loop) \/ loop.dim \in RuleOf(f, r, opener.dim)

NonTrivial(loops) == SelectSeq(loops, LAMBDA l : ~Trivial(l))

SkipTrivial(loops, i, step) ==
  LET later == {j \in DOMAIN loops : (j - i) * step >= 0 /\ ~Trivial(loops[j])} IN
  IF later = {} THEN IF step > 0 THEN Len(loops) + 1 ELSE 0
  ELSE IF step > 0 THEN Min(later) ELSE Max(later)

\* The first loop past i that does not join the rank loop i opened.
RankEnd(f, r, loops, i, step) ==
  LET others == {j \in DOMAIN loops : (j - i) * step > 0}
      refused == IF f.has_metadata /\ ~ExistRule(f, r) THEN others
                 ELSE {j \in others : ~Joins(f, r, loops[i], loops[j])}
  IN IF refused = {} THEN IF step > 0 THEN Len(loops) + 1 ELSE 0
     ELSE IF step > 0 THEN Min(refused) ELSE Max(refused)

Section(loops, i, end, step) ==
  IF step > 0 THEN SubSeq(loops, i, end - 1) ELSE Reverse(SubSeq(loops, end + 1, i))

\* ApplyRanksOuterToInner above rank inner: m holds the ranks and tiles found
\* so far and r and i, the last rank used and the next loop.  A rank no loop
\* may open stays empty, and is put at the outer end.
RECURSIVE OuterToInner(_, _, _, _, _)
OuterToInner(f, inner, loops, tiles, m) ==
  LET i == SkipTrivial(loops, m.i, -1)
      r == m.r - 1
      end == RankEnd(f, r, loops, i, -1)
  IN IF r <= inner \/ m.i < 1 THEN m
     ELSE IF i < 1 THEN OuterToInner(f, inner, loops, tiles, [m EXCEPT !.i = 0])
     ELSE IF ~Opens(f, r, loops[i]) THEN
       OuterToInner(f, inner, loops, tiles,
         [m EXCEPT !.i = i, !.r = r, !.ranks = Append(@, <<>>), !.tiles = Append(@, tiles[1])])
     ELSE OuterToInner(f, inner, loops, tiles,
            [m EXCEPT !.i = end, !.r = r,
                      !.ranks = <<NonTrivial(Section(loops, i, end, -1))>> \o @,
                      !.tiles = <<tiles[i]>> \o @])

\* What is left: ranks no loop was found for are dummies, loops no rank was
\* found for make the format too small.
ApplyRanksOuterToInner(f, inner, loops, tiles) ==
  LET m == OuterToInner(f, inner, loops, tiles,
             [ranks |-> <<>>, tiles |-> <<>>, r |-> FormatRanks(f) + 1, i |-> Len(loops)])
      dummies == 1 .. Max({0, m.r - 1 - inner})
  IN [ranks |-> [k \in dummies |-> <<>>] \o m.ranks,
      tiles |-> [k \in dummies |-> tiles[1]] \o m.tiles,
      more |-> \E j \in 1 .. m.i : ~Trivial(loops[j])]

\* ApplyRanksInnerToOuter.  The tile of a rank is that of its first loop.
RECURSIVE InnerToOuter(_, _, _, _)
InnerToOuter(f, loops, tiles, m) ==
  LET i == SkipTrivial(loops, m.i, 1)
      r == m.r + 1
      end == RankEnd(f, r, loops, i, 1)
      dimension == CHOOSE d \in UNION f.rules[r] : TRUE
      scalar == [k \in DOMAIN tiles[1] |-> 1]
  IN IF m.r >= FormatRanks(f) \/ m.i > Len(loops) THEN m
     ELSE IF i > Len(loops) THEN InnerToOuter(f, loops, tiles, [m EXCEPT !.i = i])
     ELSE IF ~Opens(f, r, loops[i]) THEN
       InnerToOuter(f, loops, tiles,
         [m EXCEPT !.i = i, !.r = r, !.ranks = Append(@, <<[dim |-> dimension, bound |-> 1]>>),
                   !.tiles = Append(@, scalar)])
     ELSE InnerToOuter(f, loops, tiles,
            [m EXCEPT !.i = end, !.r = r,
                      !.ranks = Append(@, NonTrivial(Section(loops, i, end, 1))),
                      !.tiles = Append(@, tiles[i])])

ApplyRanksInnerToOuter(f, inner, loops, tiles) ==
  LET m == InnerToOuter(f, loops, tiles, [ranks |-> <<>>, tiles |-> <<>>, r |-> inner, i |-> 1])
      dummies == 1 .. Max({0, FormatRanks(f) - m.r})
  IN [ranks |-> m.ranks \o [k \in dummies |-> <<>>],
      tiles |-> m.tiles \o [k \in dummies |-> tiles[1]],
      more |-> \E j \in m.i .. Len(loops) : ~Trivial(loops[j])]

-----------------------------------------------------------------------------
\* GetOccupancy of the format models: metadata and payload units of a rank
\* with at most fibers fibres of the given shape, of which full, on average,
\* are not empty, each with so many coordinates.
Listed(full, coordinates) == QMul(full, Int2Q(Ceiling(coordinates)))

BitmaskUnits(full, shape, coordinates) == [md |-> QMul(full, Int2Q(shape)), pl |-> Listed(full, coordinates)]

CoordinatePayloadUnits(full, coordinates) == [md |-> Listed(full, coordinates), pl |-> Listed(full, coordinates)]

RunLengthUnits(full, coordinates) == [md |-> QMul(full, coordinates), pl |-> QMul(full, coordinates)]

UncompressedBitmaskUnits(fibers, shape) == [md |-> Int2Q(fibers * shape), pl |-> Int2Q(fibers * shape)]

UncompressedOffsetPairUnits(full, shape) == [md |-> Zero, pl |-> QMul(full, Int2Q(shape + 1))]

Units(model, fibers, shape, full, coordinates) ==
  CASE model = "bitmask" -> BitmaskUnits(full, shape, coordinates)
    [] model = "coordinate_payload" -> CoordinatePayloadUnits(full, coordinates)
    [] model = "run_length_encoding" -> RunLengthUnits(full, coordinates)
    [] model = "uncompressed_bitmask" -> UncompressedBitmaskUnits(fibers, shape)
    [] OTHER -> UncompressedOffsetPairUnits(full, shape)

\* The tile of the rank is cur, those of its coordinates are next.
Nonempty(m, tile) == Minus(One, TileOccupancyProbability(m, tile, 0))

RankOccupancy(model, m, fibers, shape, cur, next) ==
  Units(model, fibers, shape, QMul(Int2Q(fibers), Nonempty(m, cur)), QMul(Int2Q(shape), Nonempty(m, next)))

NoUnits == [md |-> Zero, pl |-> Zero]

\* GetMetaDataTileOccupancyGivenDataTile: rank by rank from the outermost, a
\* dummy rank counting nothing.  The last rank's payload is the data.
DataIsNoPayload(units) ==
  LET counted == {r \in DOMAIN units : units[r] # NoUnits} IN
  [r \in DOMAIN units |-> IF counted # {} /\ r = Min(counted) THEN [units[r] EXCEPT !.pl = Zero] ELSE units[r]]

MetaDataOccupancy(f, m, rep, tile) ==
  LET n == Len(f.models)
      extents(r) == [ext |-> rep.tiles[r], constraint |-> tile.constraint]
      fibers(r) == FoldRight(LAMBDA s, product : s * product, SubSeq(rep.fibers, r + 1, n), 1)
      dummy(r) == /\ rep.fibers[r] = 1
                  /\ IF f.inner_to_outer THEN r # 1 ELSE r # n
  IN DataIsNoPayload([r \in 1 .. n |->
       IF dummy(r) THEN NoUnits
       ELSE RankOccupancy(f.models[r], m, fibers(r), rep.fibers[r],
                          IF r = n THEN tile ELSE extents(r + 1), extents(r))])

\* GetExpectedAggregatedMetaDataTileOccupancy.
AggregatedMetaData(md) ==
  FoldLeft(LAMBDA sum, u : QAdd(sum, QAdd(u.md, u.pl)), Zero, md)

-----------------------------------------------------------------------------
\* CalculateExpectedOccupancy for one tile: the probability of each occupancy
\* that can occur.  When the parent has metadata an empty tile is never sent:
\* the first probability is taken for that of the empty tile, the rest are
\* scaled up and it is dropped.
Occupancies(m, tile) ==
  {x \in MinTileOccupancy(m, tile) .. MaxTileOccupancy(m, tile) :
     TileOccupancyProbability(m, tile, x) # Zero}

DropsEmpty(m, tile, parent_has_metadata) == parent_has_metadata /\ MinTileOccupancy(m, tile) = 0

FirstProbability(m, tile) == TileOccupancyProbability(m, tile, Min(Occupancies(m, tile)))

OccupancyWeight(m, tile, parent_has_metadata, x) ==
  IF ~DropsEmpty(m, tile, parent_has_metadata) THEN TileOccupancyProbability(m, tile, x)
  ELSE IF x = Min(Occupancies(m, tile)) THEN Zero
  ELSE QDiv(TileOccupancyProbability(m, tile, x), Minus(One, FirstProbability(m, tile)))

\* expected_data_occupancy, avg_replication_factor's scale and
\* expected_metadata_occupancy.
ExpectedData(m, tile, parent_has_metadata) ==
  SumQ(Occupancies(m, tile), LAMBDA x : QMul(Int2Q(x), OccupancyWeight(m, tile, parent_has_metadata, x)))

SentShare_Everything(m, tile, parent_has_metadata) == One

SentShare(m, tile, parent_has_metadata) ==
  IF DropsEmpty(m, tile, parent_has_metadata)
    THEN Minus(One, FirstProbability(m, tile)) ELSE One

AddUnits(u, v, weight) ==
  [r \in DOMAIN v |-> [md |-> QAdd(u[r].md, QMul(weight, v[r].md)), pl |-> QAdd(u[r].pl, QMul(weight, v[r].pl))]]

ExpectedMetaData(f, m, rep, tile, parent_has_metadata) ==
  LET given(x) == [ext |-> tile.ext, constraint |-> [shape |-> Shape(tile), occupancy |-> x, ext |-> tile.ext]]
      occupancies == SetToSortSeq(Occupancies(m, tile), <)
  IN FoldLeft(LAMBDA u, x : AddUnits(u, MetaDataOccupancy(f, m, rep, given(x)),
                                     OccupancyWeight(m, tile, parent_has_metadata, x)),
              [r \in 1 .. Len(f.models) |-> NoUnits], occupancies)
===============================================================================
