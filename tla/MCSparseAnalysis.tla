--------------------------- MODULE MCSparseAnalysis ---------------------------
(***************************************************************************)
(* SparseAnalysis on matrix products Z[m, n] += A[m, k] * B[k, n], mapped  *)
(* to three storage levels, with formats, densities and optimizations of   *)
(* each kind.                                                              *)
(***************************************************************************)
EXTENDS SparseAnalysis

Proj == [A |-> <<"m", "k">>, B |-> <<"k", "n">>, Z |-> <<"m", "n">>]

Loop(dim, bound, st) == [dim |-> dim, bound |-> bound, st |-> st]

T(dim, bound) == Loop(dim, bound, "Time")
X(dim, bound) == Loop(dim, bound, "SpaceX")
Y(dim, bound) == Loop(dim, bound, "SpaceY")

Everywhere == [A |-> 1 .. 3, B |-> 1 .. 3, Z |-> 1 .. 3]

\* The loops of the levels and where the data spaces are kept.  A complete nest
\* has a temporal loop for each dimension at each level.
Complete(loops) ==
  loops \o SelectSeq(<<T("k", 1), T("m", 1), T("n", 1)>>,
                     LAMBDA t : \A i \in DOMAIN loops : loops[i].dim # t.dim \/ IsSpatial(loops[i]))

Mapping(levels, keep) == [levels |-> [l \in DOMAIN levels |-> Complete(levels[l])], keep |-> keep]

Mappings == <<
  Mapping(<<<<T("k", 2)>>, <<X("m", 2)>>, <<T("n", 2), T("k", 2)>>>>, Everywhere),
  Mapping(<<<<T("n", 2)>>, <<X("k", 2), T("m", 2)>>, <<T("k", 2)>>>>, [Everywhere EXCEPT !.A = {1, 3}]),
  Mapping(<<<<T("k", 4)>>, <<T("n", 2)>>, <<T("m", 2)>>>>, [Everywhere EXCEPT !.Z = {1, 3}, !.B = {2, 3}]),
  Mapping(<<<<>>, <<X("k", 4), Y("n", 2)>>, <<T("m", 2)>>>>, [Everywhere EXCEPT !.B = {1, 3}]),
  Mapping(<<<<T("k", 2)>>, <<X("k", 2), T("m", 2)>>, <<T("n", 2)>>>>, [Everywhere EXCEPT !.A = {1, 3}, !.Z = 1 .. 2]),
  Mapping(<<<<T("k", 2)>>, <<T("m", 2), T("k", 2)>>, <<T("m", 2), T("n", 2)>>>>, [Everywhere EXCEPT !.B = {1, 3}]) >>

IterationsOf(mapping, dim) ==
  FoldLeft(LAMBDA n, loop : IF loop.dim = dim THEN n * loop.bound ELSE n, 1, FlattenSeq(mapping.levels))

\* The dense counts of a mapping: a tile is read each time a temporal loop at
\* or outside the first that moves it advances, into every instance.
BoundsOf(loops, keep(_)) == FoldLeft(LAMBDA n, loop : IF keep(loop) THEN n * loop.bound ELSE n, 1, loops)

From(e, l) == FlattenSeq(SubSeq(e.levels, l, Top(e)))

Advances(e, pv, l) ==
  LET loops == SelectSeq(From(e, l), LAMBDA loop : ~IsSpatial(loop))
      moving == {i \in DOMAIN loops : ~Trivial(loops[i]) /\ loops[i].dim \in DimsOf(e, pv)}
  IN IF moving = {} THEN 1 ELSE BoundsOf(SubSeq(loops, Min(moving), Len(loops)), LAMBDA loop : TRUE)

DenseCounts(e, pv, l) ==
  LET child == ChildLevel(e, pv, l)
      sent == IF child = 0 THEN 1 ELSE Shape(TileOf(e, pv, Mold(e, child, Len(e.levels[child]))))
      wide == BoundsOf(FlattenSeq(SubSeq(e.levels, child + 1, l)),
                         LAMBDA loop : IsSpatial(loop) /\ loop.dim \in DimsOf(e, pv))
      reads == Advances(e, pv, child + 1) * sent * wide
      shape == Shape(TileOf(e, pv, Mold(e, l, Len(e.levels[l]))))
  IN IF l \notin e.keep[pv] THEN [reads |-> 0, fills |-> 0, updates |-> 0, reductions |-> 0, instances |-> 0]
     ELSE [reads |-> reads,
           fills |-> IF l = Max(e.keep[pv]) THEN 0 ELSE Advances(e, pv, l + 1) * shape,
           updates |-> IF pv = "Z" THEN reads ELSE 0,
           reductions |-> IF pv = "Z" THEN reads - shape ELSE 0,
           instances |-> BoundsOf(From(e, l + 1), IsSpatial)]

\* Formats: the levels' ranks from the innermost, and flattening rules.
RankFormat(models, rules, compressed) ==
  [has_metadata |-> TRUE, compressed |-> compressed, models |-> models, rules |-> rules, inner_to_outer |-> FALSE]

Dense == [has_metadata |-> FALSE, compressed |-> FALSE, models |-> <<>>, rules |-> <<>>, inner_to_outer |-> FALSE]

All3(f) == <<f, f, f>>

Flattened == RankFormat(<<"coordinate_payload">>, <<{{"m", "k", "n"}}>>, TRUE)

Growing ==
  <<RankFormat(<<"run_length_encoding">>, <<{{"m", "k", "n"}}>>, TRUE),
    RankFormat(<<"run_length_encoding", "bitmask">>, <<{{"m", "k", "n"}}, {}>>, TRUE),
    RankFormat(<<"run_length_encoding", "bitmask", "uncompressed_offset_pair">>, <<{{"m", "k", "n"}}, {}, {{"m", "k", "n"}}>>, TRUE)>>

InnerFirst == [RankFormat(<<"bitmask", "coordinate_payload">>, <<{}, {{"m", "k", "n"}}>>, TRUE) EXCEPT !.inner_to_outer = TRUE]

Bitmask == RankFormat(<<"uncompressed_bitmask", "uncompressed_offset_pair">>, <<{{"k", "m"}}, {{"m", "n"}}>>, FALSE)

\* Formats of A and B; Z is dense.
Formats == <<
  [A |-> All3(Dense), B |-> All3(Dense)],
  [A |-> All3(Flattened), B |-> All3(Dense)],
  [A |-> Growing, B |-> Growing],
  [A |-> All3(InnerFirst), B |-> All3(Flattened)],
  [A |-> <<Dense, Flattened, Flattened>>, B |-> All3(Bitmask)],
  [A |-> <<Growing[1], Flattened, Flattened>>, B |-> All3(Dense)] >>

\* Densities of A and B for their extents.  A square A is banded.
Densities(a, b) ==
  IF a[1] = a[2]
    THEN {[A |-> Banded(a[1], 1), B |-> Hypergeometric(b, Q(3, 8)), Z |-> Hypergeometric(<<a[1], b[2]>>, One)]}
    ELSE {[A |-> Hypergeometric(a, Q(1, 4)), B |-> Hypergeometric(b, Q(1, 2)), Z |-> Hypergeometric(<<a[1], b[2]>>, One)],
          [A |-> FixedStructured(a, Q(1, 4)), B |-> FixedStructured(b, Q(1, 2)), Z |-> Hypergeometric(<<a[1], b[2]>>, One)]}

Option(target, on) == [target |-> target, on |-> on]

Space(target, on) == [target |-> target, on |-> on]

OptionGroups(gate, skip, spatial) == [gate |-> gate, skip |-> skip, spatial |-> spatial]

\* Groups of options with the level they are given for.
Optimizations == <<
  OptionGroups(<<>>, <<>>, <<>>),
  OptionGroups(<<<<2, <<Option("A", <<"B">>)>>>>>>, <<<<1, <<Option("A", <<"B">>)>>>>>>, <<>>),
  OptionGroups(<<<<1, <<Option("B", <<"A">>)>>>>>>, <<<<1, <<Option("B", <<"A">>), Option("A", <<"B">>)>>>>, <<3, <<Option("A", <<"B">>)>>>>>>, <<>>),
  OptionGroups(<<>>, <<<<1, <<Option("A", <<"B">>)>>>>, <<1, <<Option("B", <<"A">>)>>>>, <<3, <<Option("Z", <<"A", "B">>)>>>>, <<1, <<Option("Z", <<"A", "B">>)>>>>>>, <<>>),
  OptionGroups(<<>>, <<>>, <<<<2, Space("B", "A")>>>>),
  OptionGroups(<<<<3, <<Option("A", <<"B">>)>>>>>>, <<>>, <<<<2, Space("Z", "A")>>>>) >>

Evaluation(mapping, formats, density, optimizations, gate, skip, supports) ==
  LET e == [order |-> <<"k", "m", "n">>, proj |-> Proj, rw |-> {"Z"},
            levels |-> mapping.levels, keep |-> mapping.keep]
  IN [order |-> e.order, proj |-> e.proj, rw |-> e.rw, levels |-> e.levels, keep |-> e.keep,
      density |-> density,
      block |-> <<1, 1, 2>>, md_ratio |-> <<1, 1, 1>>, read_energy |-> <<1, 4, 20>>,
      format |-> [A |-> formats.A, B |-> formats.B, Z |-> All3(Dense)],
      dense |-> [pv \in {"A", "B", "Z"} |-> [l \in 1 .. 3 |-> DenseCounts(e, pv, l)]],
      compute |-> [accesses |-> BoundsOf(From(e, 1), LAMBDA loop : ~IsSpatial(loop)),
                   instances |-> BoundsOf(From(e, 1), IsSpatial)],
      partition |-> IF supports THEN 1 .. 3 ELSE {}, decompression |-> 1 .. 3, compression |-> {},
      gate |-> optimizations.gate, skip |-> optimizations.skip, spatial |-> optimizations.spatial,
      fanout |-> [a \in 0 .. 2 |-> [X |-> IF a = 1 THEN 4 ELSE 1, Y |-> IF a = 1 THEN 2 ELSE 1]],
      operands |-> <<"A", "B">>, last |-> "Z",
      gate_on_zero_operand |-> gate, skip_on_not_aligned_operands |-> skip]

\* The representation of the target of a spatial option leaves instances out
\* already: the option's share would be taken of what is left.
SpatialTargetsDense(e) ==
  \A i \in DOMAIN e.spatial : ~e.format[e.spatial[i][2].target][3].has_metadata

\* A tile below a level with metadata may be empty: else GetMinTileDensity,
\* which divides integers, takes it for one that may.
MayBeEmpty(e) ==
  \A pv \in {"A", "B"} : \A l \in e.keep[pv] :
    LET parent == ParentLevel(e, pv, l) IN
    parent = 0 \/ ~e.format[pv][parent].has_metadata
    \/ TileOccupancyProbability(e.density[pv], TileOf(e, pv, Mold(e, l, Len(e.levels[l]))), 0) # Zero

\* The options of the compute level, and whether tiles can be cut up.
Hardware == {<<FALSE, FALSE, TRUE>>, <<TRUE, FALSE, FALSE>>, <<TRUE, TRUE, TRUE>>}

Evaluated(mapping, formats, hardware) ==
  {Evaluation(mapping, formats[f], density, Optimizations[o], h[1], h[2], h[3]) :
     f \in DOMAIN formats, o \in DOMAIN Optimizations, h \in hardware,
     density \in Densities(<<IterationsOf(mapping, "m"), IterationsOf(mapping, "k")>>,
                            <<IterationsOf(mapping, "k"), IterationsOf(mapping, "n")>>)}

MCEvaluations ==
  {e \in UNION {Evaluated(Mappings[i], Formats, Hardware) : i \in DOMAIN Mappings} :
     SpatialTargetsDense(e) /\ MayBeEmpty(e)}

===============================================================================
