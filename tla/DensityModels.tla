---------------------------- MODULE DensityModels ----------------------------
(***************************************************************************)
(* The density models of a sparse tensor                                   *)
(* (src/src/workload/density-models/): how likely a tile holds a given     *)
(* number of nonzeros, how many it holds at most and on average.           *)
(*                                                                         *)
(* A tile is a record: ext its extent along each rank of the data space,   *)
(* and constraint either None or the tile it lies in, a record of that     *)
(* tile's shape, occupancy and extents.  A model is a record: type, size   *)
(* the number of points of the workload's tensor, and                      *)
(*   hypergeometric   nnz, the nonzeros, placed anywhere,                  *)
(*   fixed_structured density, the same in every tile,                     *)
(*   banded           order and band: a square matrix whose nonzeros are   *)
(*                    the diagonal and band diagonals on each side of it.  *)
(* Probabilities are exact rationals; a confidence is 1.                   *)
(***************************************************************************)
EXTENDS Rational, Combinatorics, SequencesExt, FiniteSetsExt

None == [shape |-> 0, occupancy |-> 0, ext |-> <<>>]

Extents(ext) == [ext |-> ext, constraint |-> None]

Volume(ext) == FoldLeft(LAMBDA v, e : v * e, 1, ext)

Shape(tile) == Volume(tile.ext)

Ceiling(q) == -((-q[1]) \div q[2])

One == Int2Q(1)

Minus(p, q) == QSub(p, q)

SumQ(S, f(_)) == MapThenFoldSet(QAdd, Zero, f, LAMBDA T : CHOOSE x \in T : TRUE, S)

-----------------------------------------------------------------------------
\* The constructors with SetWorkloadTensorSize: a tensor of the given extents.
Hypergeometric(ext, density) ==
  [type |-> "hypergeometric", size |-> Volume(ext),
   nnz |-> Ceiling(QMul(density, Int2Q(Volume(ext)))), density |-> density]

FixedStructured(ext, density) == [type |-> "fixed_structured", size |-> Volume(ext), density |-> density]

\* total_nnzs sums the lengths of the diagonals.
Banded(order, band) ==
  LET nnz == order + 2 * FoldLeft(LAMBDA s, ud : s + order - ud, 0, [i \in 1 .. band |-> i])
  IN [type |-> "banded", size |-> order * order, order |-> order, band |-> band,
      density |-> Q(nnz, order * order)]

-----------------------------------------------------------------------------
\* CalculateProbability and both forms of GetProbability: x of the r nonzeros
\* among N points fall into n of them.
HypergeometricProbability(n, x, N, r) ==
  IF (n + r > N /\ x < n + r - N) \/ x > r \/ x > n THEN Zero
  ELSE Q(choose(r, x) * choose(N - r, n - x), choose(N, n))

\* The expected number is between two integers, which share the probability.
StructuredProbability(exact, x) ==
  LET above == Minus(exact, Int2Q(QTrunc(exact))) IN
  CASE x = QTrunc(exact) -> Minus(One, above)
    [] x = Ceiling(exact) /\ x # QTrunc(exact) -> above
    [] OTHER -> Zero

\* ComputeNNZForSpecificTile, for the rows and columns from min up to max.
BandedCount(m, min, max) ==
  FoldLeft(LAMBDA nnz, r : LET from == Max({min[2], r - m.band, 0})
                               to == Min({max[2], r + m.band + 1})
                           IN nnz + Max({0, to - from}),
           0, [i \in 1 .. Max({0, max[1] - min[1]}) |-> min[1] + i - 1])

\* GetProbabilityDistributionForTileMold.  Row groups are walked through the
\* warm-up, where the band is cut off by the matrix's edge, and one more, which
\* stands for the steady state; the cool-down mirrors the warm-up.
RowGroups(m, ext) == m.order \div ext[1]

ColumnGroups(m, ext) == m.order \div ext[2]

WarmUpGroups(m, ext) == Ceiling(Q(m.band, ext[1]))

GroupWeight_NoCoolDown(m, ext, g) ==
  IF g >= WarmUpGroups(m, ext) THEN Max({0, RowGroups(m, ext) - WarmUpGroups(m, ext)}) ELSE 1

GroupWeight(m, ext, g) ==
  IF g >= WarmUpGroups(m, ext) THEN Max({0, RowGroups(m, ext) - 2 * WarmUpGroups(m, ext)})
  ELSE IF WarmUpGroups(m, ext) # RowGroups(m, ext) THEN 2 ELSE 1

GroupsWalked(m, ext) ==
  (0 .. Min({WarmUpGroups(m, ext), RowGroups(m, ext) - 1})) \X (0 .. ColumnGroups(m, ext) - 1)

BandedOccupancy(m, ext, g) ==
  LET row == g[1] * ext[1]
      column == g[2] * ext[2]
  IN IF column > row + ext[1] - 1 + m.band THEN 0
     ELSE BandedCount(m, <<row, column>>, <<row + ext[1], column + ext[2]>>)

BandedProbability(m, ext, x) ==
  Q(MapThenSumSet(LAMBDA g : GroupWeight(m, ext, g[1]),
                  {g \in GroupsWalked(m, ext) : BandedOccupancy(m, ext, g) = x}),
    RowGroups(m, ext) * ColumnGroups(m, ext))

\* The keys of the lookup table, 0 always among them.
BandedOccupancies(m, ext) == {0} \union {BandedOccupancy(m, ext, g) : g \in GroupsWalked(m, ext)}

\* GetReprPointSetForTileOccupancy: the first tile of that occupancy; past the
\* band a row of tiles is left after one look.
IsBefore(g, h) == g[1] < h[1] \/ (g[1] = h[1] /\ g[2] < h[2])

First(groups) == CHOOSE g \in groups : \A h \in groups : h = g \/ IsBefore(g, h)

Representative(m, ext, occupancy) ==
  LET past(g) == g[2] * ext[2] > g[1] * ext[1] + ext[1] - 1 + m.band
      looked(g) == past(g) => g[2] = 0 \/ ~past(<<g[1], g[2] - 1>>)
  IN First({g \in GroupsWalked(m, ext) : looked(g) /\ BandedOccupancy(m, ext, g) = occupancy})

\* GetZeroOccupancyProbForConstrainedTileMold: the share of empty tiles in the
\* tile that stands for the constraint.  Its corner is added to an offset that
\* starts at the corner.
IsEmpty(m, ext, corner, offset) ==
  BandedCount(m, <<corner[1] + offset[1], corner[2] + offset[2]>>, <<offset[1] + ext[1], offset[2] + ext[2]>>) = 0

EmptyShare(m, ext, within, corner) ==
  LET groups == (0 .. within[1] \div ext[1] - 1) \X (0 .. within[2] \div ext[2] - 1) IN
  Q(Cardinality({h \in groups : IsEmpty(m, ext, corner, <<corner[1] + h[1] * ext[1], corner[2] + h[2] * ext[2]>>)}),
    Cardinality(groups))

ConstrainedEmpty(m, ext, within, occupancy) ==
  IF Volume(within) = 0 THEN One
  ELSE EmptyShare(m, ext, within,
                  [i \in 1 .. 2 |-> Representative(m, within, occupancy)[i] * within[i]])

-----------------------------------------------------------------------------
\* GetTileOccupancyProbability of the three models.
PlacedProbability(m, tile, x) ==
  IF tile.constraint = None THEN HypergeometricProbability(Shape(tile), x, m.size, m.nnz)
  ELSE HypergeometricProbability(Shape(tile), x, tile.constraint.shape, tile.constraint.occupancy)

FixedProbability(m, tile, x) ==
  StructuredProbability(IF tile.constraint = None THEN QMul(Int2Q(Shape(tile)), m.density)
                        ELSE Q(Shape(tile) * tile.constraint.occupancy, tile.constraint.shape), x)

BandProbability(m, tile, x) ==
  IF Shape(tile) = 0 THEN IF x = 0 THEN One ELSE Zero
  ELSE IF tile.constraint = None THEN BandedProbability(m, tile.ext, x)
  ELSE ConstrainedEmpty(m, tile.ext, tile.constraint.ext, tile.constraint.occupancy)

TileOccupancyProbability(m, tile, x) ==
  CASE m.type = "hypergeometric" -> PlacedProbability(m, tile, x)
    [] m.type = "fixed_structured" -> FixedProbability(m, tile, x)
    [] OTHER -> BandProbability(m, tile, x)

\* GetMaxTileOccupancyByConfidence at confidence 1, which is more than the
\* probability of the floor unless the expected number is an integer.
PlacedMax(m, tile) == Min({Shape(tile), m.nnz})

FixedMax(m, tile) == Ceiling(QMul(Int2Q(Shape(tile)), m.density))

BandMax(m, tile) == IF Shape(tile) = 0 THEN 0 ELSE Max(BandedOccupancies(m, tile.ext))

MaxTileOccupancy(m, tile) ==
  CASE m.type = "hypergeometric" -> PlacedMax(m, tile)
    [] m.type = "fixed_structured" -> FixedMax(m, tile)
    [] OTHER -> BandMax(m, tile)

\* floor(GetMinTileDensity * shape): DataMovementInfo::GetMinDataTileOccupancy.
\* The hypergeometric model divides integers.
PlacedMin(m, tile) ==
  IF Shape(tile) <= m.size - m.nnz THEN 0
  ELSE ((Shape(tile) - m.size + m.nnz) \div Shape(tile)) * Shape(tile)

FixedMin(m, tile) == QTrunc(QMul(Int2Q(Shape(tile)), m.density))

BandMin(m, tile) == IF Shape(tile) = 0 THEN 0 ELSE Min(BandedOccupancies(m, tile.ext))

MinTileOccupancy(m, tile) ==
  CASE m.type = "hypergeometric" -> PlacedMin(m, tile)
    [] m.type = "fixed_structured" -> FixedMin(m, tile)
    [] OTHER -> BandMin(m, tile)

\* GetExpectedTileOccupancy.
ExpectedTileOccupancy(m, tile) ==
  IF m.type = "hypergeometric"
    THEN SumQ(0 .. PlacedMax(m, tile), LAMBDA x : QMul(Int2Q(x), TileOccupancyProbability(m, tile, x)))
    ELSE QMul(Int2Q(Shape(tile)), m.density)

\* GetMaxNumElementByConfidence: how many of the tiles a fibre is cut into may
\* hold a nonzero.  The banded model scales by the share of empty ones.
MaxElements(m, fiber, elements) == Min({MaxTileOccupancy(m, fiber), elements})

BandElements(m, fiber, element, elements) ==
  Ceiling(QMul(Int2Q(elements),
    TileOccupancyProbability(m, [element EXCEPT !.constraint =
      [shape |-> Shape(fiber), occupancy |-> MaxTileOccupancy(m, fiber), ext |-> fiber.ext]], 0)))

MaxNumElement(m, fiber, element) ==
  IF m.type # "banded" THEN MaxElements(m, fiber, Shape(fiber) \div Shape(element))
  ELSE BandElements(m, fiber, element, Shape(fiber) \div Shape(element))

-----------------------------------------------------------------------------
\* What the probabilities stand for: among all placements of the nonzeros, and
\* all places of the tile, the share that leaves x nonzeros in the tile.
PlacedShare(m, n, x) ==
  LET placements == kSubset(m.nnz, 1 .. m.size) IN
  Q(Cardinality({s \in placements : Cardinality(s \cap (1 .. n)) = x}), Cardinality(placements))

BandedShare(m, ext, x) ==
  LET places == (0 .. m.order \div ext[1] - 1) \X (0 .. m.order \div ext[2] - 1)
      inside(p) == {q \in (p[1] * ext[1] .. p[1] * ext[1] + ext[1] - 1)
                          \X (p[2] * ext[2] .. p[2] * ext[2] + ext[2] - 1) :
                       q[1] - q[2] \in -m.band .. m.band}
  IN Q(Cardinality({p \in places : Cardinality(inside(p)) = x}), Cardinality(places))
===============================================================================
