------------------------------ MODULE PointSets ------------------------------
(***************************************************************************)
(* Sets of data points as the nest analysis represents them                *)
(* (src/src/loop-analysis/point-set-aahr.cpp, point-set-multi-aahr.cpp,    *)
(* aahr-carve.cpp and src/src/workload/shape-models/operation-space.cpp).  *)
(* An AAHR is an axis-aligned box [min, max) of points, a point is a       *)
(* sequence of coordinates and a point set is a list of disjoint boxes.    *)
(* Carve cuts the section between two points of a space that is walked in  *)
(* linear order into boxes, so that a loop over a flattened dimension can  *)
(* be projected onto the data spaces.                                      *)
(***************************************************************************)
EXTENDS Integers, Sequences, SequencesExt, FiniteSetsExt

Null == <<>>    \* Point(): a point of order 0

IsZero(p) == \A i \in DOMAIN p : p[i] = 0

Plus(p, q) == [i \in DOMAIN p |-> p[i] + q[i]]

AAHR(min, max) == [min |-> min, max |-> max]

AAHRSize(a) == FoldLeft(LAMBDA s, i : s * (a.max[i] - a.min[i]), 1, [i \in DOMAIN a.min |-> i])

Apart(a, b) == \E r \in DOMAIN a.min : a.max[r] <= b.min[r] \/ b.max[r] <= a.min[r]

\* One rank of MultiSubtract: what lies left and right of b is cut off the box
\* in the middle.
Slices(cut, b, r) ==
  LET m == cut.middle
      left == IF m.min[r] < b.min[r] THEN <<[m EXCEPT !.max[r] = b.min[r]]>> ELSE <<>>
      advanced == IF m.min[r] < b.min[r] THEN [m EXCEPT !.min[r] = b.min[r]] ELSE m
      right == IF b.max[r] < m.max[r] THEN <<[advanced EXCEPT !.min[r] = b.max[r]]>> ELSE <<>>
      regressed == IF b.max[r] < m.max[r] THEN [advanced EXCEPT !.max[r] = b.max[r]] ELSE advanced
  IN [middle |-> regressed, slices |-> cut.slices \o left \o right]

\* AxisAlignedHyperRectangle::MultiSubtract.
MultiSubtract(a, b) ==
  IF Apart(a, b) THEN <<a>>
  ELSE FoldLeft(LAMBDA cut, r : Slices(cut, b, r), [middle |-> a, slices |-> <<>>],
                [r \in DOMAIN a.min |-> r]).slices

-----------------------------------------------------------------------------
\* MultiAAHR.
Size(s) == FoldLeft(LAMBDA n, a : n + AAHRSize(a), 0, s)

Empty(s) == \A i \in DOMAIN s : AAHRSize(s[i]) = 0

Subtract(s, other) ==
  FoldLeft(LAMBDA mine, b : FlattenSeq([i \in DOMAIN mine |-> MultiSubtract(mine[i], b)]), s, other)

Union(s, other) == Subtract(s, other) \o SelectSeq(other, LAMBDA a : AAHRSize(a) # 0)

FromCorners(boxes) == FoldLeft(LAMBDA s, a : Union(s, <<a>>), <<>>, boxes)

\* operator ==: every box of s is a box of other; the same points cut in
\* another way are not noticed.
SamePoints(s, other) == Len(s) = Len(other) /\ \A i \in DOMAIN s : \E j \in DOMAIN other : s[i] = other[j]

HasPoint(a, p) == \A r \in DOMAIN p : p[r] >= a.min[r] /\ p[r] < a.max[r]

\* MergeIfAdjacent: the point is next to the box along one rank, where the box
\* is one wide along the others.
Adjacent(a, p) ==
  /\ \E r \in DOMAIN p : p[r] = a.min[r] - 1 \/ p[r] = a.max[r]
  /\ \A r, q \in DOMAIN p : (p[r] \in {a.min[r] - 1, a.max[r]} /\ p[q] \in {a.min[q] - 1, a.max[q]}) => r = q
  /\ \A r \in DOMAIN p : p[r] \in {a.min[r] - 1, a.max[r]} \/ (p[r] = a.min[r] /\ a.min[r] + 1 = a.max[r])

Merged(a, p) == AAHR([r \in DOMAIN p |-> Min({a.min[r], p[r]})], [r \in DOMAIN p |-> Max({a.max[r], p[r] + 1})])

\* operator +=(Point).
AddPoint(s, p) ==
  IF \E i \in DOMAIN s : HasPoint(s[i], p) THEN s
  ELSE IF \E i \in DOMAIN s : Adjacent(s[i], p)
    THEN LET i == CHOOSE j \in DOMAIN s : Adjacent(s[j], p) /\ \A k \in 1 .. j - 1 : ~Adjacent(s[k], p)
         IN [s EXCEPT ![i] = Merged(s[i], p)]
    ELSE Append(s, AAHR(p, [r \in DOMAIN p |-> p[r] + 1]))

\* round(): halves away from zero.
Rounded(n, d) == IF n >= 0 THEN (2 * n + d) \div (2 * d) ELSE -((d - 2 * n) \div (2 * d))

\* Twice the sum of the coordinates of all points along a rank.
Moment(s, r) == FoldLeft(LAMBDA m, a : m + (a.min[r] + a.max[r] - 1) * AAHRSize(a), 0, s)

\* GetTranslation: how far the centre of mass moves, 0 if a set is empty.
GetTranslation(s, other, order) ==
  IF Size(s) = 0 \/ Size(other) = 0 THEN [r \in 1 .. order |-> 0]
  ELSE [r \in 1 .. order |->
         Rounded(Moment(other, r) * Size(s) - Moment(s, r) * Size(other), 2 * Size(s) * Size(other))]

Translate(s, v) == [i \in DOMAIN s |-> AAHR(Plus(s[i].min, v), Plus(s[i].max, v))]

-----------------------------------------------------------------------------
\* Steps to the next and the previous point in linear order, at a rank and up.
Increment(p, rank, shape) ==
  LET order == Len(p)
      wraps(r) == \A q \in rank .. r - 1 : p[q] = shape[q] - 1
  IN [r \in 1 .. order |->
       IF r < rank \/ ~wraps(r) THEN p[r]
       ELSE IF r = order THEN p[r] + 1 ELSE (p[r] + 1) % shape[r]]

Decrement(p, rank, shape) ==
  LET order == Len(p)
      wraps(r) == \A q \in rank .. r - 1 : p[q] = 0
  IN [r \in 1 .. order |->
       IF r < rank \/ ~wraps(r) THEN p[r]
       ELSE IF r = order THEN p[r] - 1 ELSE (p[r] + shape[r] - 1) % shape[r]]

UpTo(p, rank, fill) == [r \in DOMAIN p |-> IF r <= rank THEN fill[r] ELSE p[r]]

\* March forward from base and backward from bound, rank by rank, cutting off
\* a box wherever the coordinate is not at the end of its rank.
Forward(march, shape, rank) ==
  IF march.base[rank] = 0 THEN march
  ELSE [base |-> Increment([march.base EXCEPT ![rank] = 0], rank + 1, shape),
        boxes |-> Append(march.boxes, <<march.base, UpTo(march.base, rank, [r \in DOMAIN shape |-> shape[r] - 1])>>)]

Backward(march, shape, rank) ==
  IF march.bound[rank] = shape[rank] - 1 THEN march
  ELSE [bound |-> Decrement([march.bound EXCEPT ![rank] = shape[rank] - 1], rank + 1, shape),
        boxes |-> Append(march.boxes, <<UpTo(march.bound, rank, [r \in DOMAIN shape |-> 0]), march.bound>>)]

Inner(order) == [r \in 1 .. order - 1 |-> r]

MarchForward(base, shape) ==
  FoldLeft(LAMBDA m, r : Forward(m, shape, r), [base |-> base, boxes |-> <<>>], Inner(Len(base)))

MarchBackward(bound, shape, boxes) ==
  FoldLeft(LAMBDA m, r : Backward(m, shape, r), [bound |-> bound, boxes |-> boxes], Inner(Len(bound)))

\* What the marches leave in the middle, at the outermost rank.
Close(base, back, top) ==
  back.boxes \o (IF base[top] <= back.bound[top] THEN <<<<base, back.bound>>>> ELSE <<>>)

BackFrom(front, bound, shape) == Close(front.base, MarchBackward(bound, shape, front.boxes), Len(bound))

CarveApart_BoundingBox(base, bound, shape) ==
  <<<<UpTo(base, Len(base) - 1, [r \in DOMAIN shape |-> 0]),
      UpTo(bound, Len(bound) - 1, [r \in DOMAIN shape |-> shape[r] - 1])>>>>

CarveApart(base, bound, shape) == BackFrom(MarchForward(base, shape), bound, shape)

\* Carve: ranks on which base and bound agree from the top are passed on
\* unchanged; the section below them is cut into boxes (pairs of inclusive
\* corners).  A space that is empty has base one past bound at the top.
WithTop(boxes, top) == [i \in DOMAIN boxes |-> <<boxes[i][1] \o top, boxes[i][2] \o top>>]

CarveBelow(base, bound, shape, split) ==
  IF split = 0 THEN <<<<Null, Null>>>>
  ELSE IF base[split] > bound[split] THEN <<>>
  ELSE CarveApart(SubSeq(base, 1, split), SubSeq(bound, 1, split), SubSeq(shape, 1, split))

CarveAt(base, bound, shape, split) ==
  WithTop(CarveBelow(base, bound, shape, split), SubSeq(base, split + 1, Len(base)))

Carve(base, bound, shape) ==
  CarveAt(base, bound, shape, Max({0} \cup {r \in DOMAIN base : base[r] # bound[r]}))

-----------------------------------------------------------------------------
\* A workload: [factors: for each flattened dimension the factorized ones it
\* stands for, low to high; bounds: the factorized bounds; projections: for
\* each data space and each of its ranks the terms <<dimension, coefficient>>;
\* written: the read-write data spaces].
UsesFlattening(w) == \E d \in DOMAIN w.factors : Len(w.factors[d]) # 1

\* FactorizeGrouped for one flattened dimension.
FactorGroup(w, d, coordinate) ==
  LET place(i) == FoldLeft(LAMBDA n, j : n * w.bounds[w.factors[d][j]], 1, [j \in 1 .. i - 1 |-> j])
  IN [i \in DOMAIN w.factors[d] |-> (coordinate \div place(i)) % w.bounds[w.factors[d][i]]]

GroupBounds(w, d) == [i \in DOMAIN w.factors[d] |-> w.bounds[w.factors[d][i]]]

\* A corner of a combination of boxes, one per flattened dimension, scattered
\* to the factorized dimensions.
Scatter(w, corners) ==
  [f \in DOMAIN w.bounds |->
    LET d == CHOOSE e \in DOMAIN w.factors : \E i \in DOMAIN w.factors[e] : w.factors[e][i] = f
        i == CHOOSE j \in DOMAIN w.factors[d] : w.factors[d][j] = f
    IN corners[d][i]]

\* FactorizeCarveMultiply: the cartesian product of the boxes of all dimensions.
RECURSIVE Products(_)
Products(lists) ==
  IF lists = <<>> THEN <<<<>>>>
  ELSE LET inner == Products(Front(lists))
       IN FlattenSeq([i \in DOMAIN Last(lists) |-> [j \in DOMAIN inner |-> Append(inner[j], Last(lists)[i])]])

ScatterAll(w, combined) ==
  [i \in DOMAIN combined |->
    <<Scatter(w, [d \in DOMAIN w.factors |-> combined[i][d][1]]),
      Scatter(w, [d \in DOMAIN w.factors |-> combined[i][d][2]])>>]

FactorizeCarveMultiply(w, low, high) ==
  ScatterAll(w, Products([d \in DOMAIN w.factors |->
    Carve(FactorGroup(w, d, low[d]), FactorGroup(w, d, high[d]), GroupBounds(w, d))]))

\* ProjectLowHigh: a negative coefficient swaps the corners.
ProjectLowHigh(w, pv, low, high) ==
  LET side(terms, a, b) == FoldLeft(LAMBDA s, t : s + t[2] * (IF t[2] < 0 THEN b[t[1]] ELSE a[t[1]]), 0, terms)
      ranks == w.projections[pv]
  IN <<[r \in DOMAIN ranks |-> side(ranks[r], low, high)], [r \in DOMAIN ranks |-> side(ranks[r], high, low)]>>

\* OperationSpace(low, high), inclusive corners in flattened space: the boxes
\* of every data space.
ToAAHR(corners) == AAHR(corners[1], [r \in DOMAIN corners[2] |-> corners[2][r] + 1])

ProjectBoxes(w, boxes) ==
  [pv \in DOMAIN w.projections |->
    FromCorners([i \in DOMAIN boxes |-> ToAAHR(ProjectLowHigh(w, pv, boxes[i][1], boxes[i][2]))])]

OperationSpace(w, low, high) ==
  ProjectBoxes(w, IF UsesFlattening(w) THEN FactorizeCarveMultiply(w, low, high) ELSE <<<<low, high>>>>)

NoSpace(w) == [pv \in DOMAIN w.projections |-> <<>>]

\* Factorize and Project of one operation point.
Factorize(w, p) == Scatter(w, [d \in DOMAIN w.factors |-> FactorGroup(w, d, p[d])])

Project(w, pv, f) == ProjectLowHigh(w, pv, f, f)[1]

AddOperation(w, space, p) == [pv \in DOMAIN space |-> AddPoint(space[pv], Project(w, pv, Factorize(w, p)))]

\* SaveAndSubtractIfSameStride for one data space: what is new since the last
\* set, unless the set moves by another stride than before; then everything is
\* new and the stride forgotten.
SubtractMoved(last, translation, now, move) ==
  IF ~IsZero(move) /\ translation # Null /\ move # translation
    THEN [delta |-> now, last |-> now, translation |-> Null]
    ELSE [delta |-> Subtract(now, last), last |-> now,
          translation |-> IF IsZero(move) THEN translation ELSE move]

SubtractIfSameStride(last, translation, now, order) ==
  SubtractMoved(last, translation, now, IF Empty(last) THEN Null ELSE GetTranslation(last, now, order))
=============================================================================
