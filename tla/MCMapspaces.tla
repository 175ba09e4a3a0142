----------------------------- MODULE MCMapspaces -----------------------------
(***************************************************************************)
(* Two families of mapspaces.  Nests: three dimensions of bounds 2, 2 and  *)
(* 4 over two or three tiling levels, with a spatial level of each kind (X *)
(* and Y, X only, Y only) and every kind of user constraint; their 4 to 54 *)
(* factorizations are split evenly and with a residue.  Bounds: one        *)
(* dimension, with squares, primes and several divisors, over two or three *)
(* levels, with all choices of given factors (dividing the bound or not)   *)
(* and a limit at one level.                                               *)
(***************************************************************************)
EXTENDS Mapspaces

Level(spatial, x, y, prefix, suffix, split) ==
  [spatial |-> spatial, fanoutX |-> x, fanoutY |-> y,
   user_prefix |-> prefix, user_suffix |-> suffix, user_split |-> split,
   fixed |-> <<>>, max |-> <<>>, min |-> <<>>, remainder |-> {}]

Temporal(prefix, suffix) == Level(FALSE, 1, 1, prefix, suffix, NoSplit)

Spatial(x, y, prefix, split) == Level(TRUE, x, y, prefix, <<>>, split)

NestConfig(template, levels, bypass, min_parallelism) ==
  [template |-> template, levels |-> levels, bound |-> [d \in Dims |-> IF d = 2 THEN 4 ELSE 2],
   bypass |-> bypass, min_parallelism |-> min_parallelism]

WithRemainder(level, b) == [level EXCEPT !.remainder = {b}]

UberNests == {
  NestConfig("uber", <<Spatial(2, 4, <<>>, NoSplit), Temporal(<<>>, <<>>)>>, <<<<>>>>, 0),
  NestConfig("uber", <<Temporal(<<>>, <<>>), Spatial(4, 2, <<1>>, NoSplit), Temporal(<<>>, <<0, 2>>)>>,
             <<<<"0">>, <<"X", "1">>>>, 25),
  NestConfig("uber", <<Spatial(4, 4, <<>>, NoSplit), Temporal(<<2>>, <<0>>)>>, <<<<>>>>, 50),
  NestConfig("uber", <<Spatial(4, 2, <<2, 0, 1>>, 1), Temporal(<<2>>, <<1, 0>>)>>, <<<<>>>>, 0),
  NestConfig("uber", <<Temporal(<<>>, <<>>), Temporal(<<1>>, <<>>), Temporal(<<>>, <<>>)>>,
             <<<<"1">>, <<"0", "1", "X">>>>, 0),
  NestConfig("uber", <<Spatial(4, 1, <<>>, NoSplit), Temporal(<<>>, <<>>)>>, <<<<>>>>, 0),
  NestConfig("uber", <<Spatial(1, 4, <<>>, NoSplit), Temporal(<<>>, <<>>)>>, <<<<>>>>, 0),
  NestConfig("uber", <<Spatial(1, 4, <<1>>, NoSplit), Temporal(<<>>, <<>>)>>, <<<<>>>>, 0)}

RubyNests == {
  NestConfig("ruby", <<WithRemainder(Spatial(3, 2, <<>>, NoSplit), 3), Temporal(<<2>>, <<>>)>>, <<<<>>>>, 0),
  NestConfig("ruby", <<Temporal(<<>>, <<>>), WithRemainder(Spatial(3, 1, <<>>, NoSplit), 3)>>, <<<<>>>>, 0),
  NestConfig("ruby", <<Temporal(<<>>, <<>>), WithRemainder(Spatial(1, 3, <<>>, NoSplit), 3)>>, <<<<>>>>, 0)}

\* Dimensions 0 and 1 have bound 1.
AlongTwo(f) == [d \in {2} |-> f]

Constrained(level, l, fixed, max, min, remainder) ==
  [level EXCEPT !.fixed = IF l \in DOMAIN fixed THEN AlongTwo(fixed[l]) ELSE <<>>,
                !.max = IF l \in DOMAIN max THEN AlongTwo(max[l]) ELSE <<>>,
                !.min = IF l \in DOMAIN min THEN AlongTwo(min[l]) ELSE <<>>,
                !.remainder = IF l \in DOMAIN remainder THEN {remainder[l]} ELSE {}]

PartialFunctions(S, T) == UNION {[D -> T] : D \in SUBSET S}

AtMostOne(S, T) == {<<>>} \cup UNION {[{l} -> T] : l \in S}

\* No limit, or one limit at one level.
Limits(order) ==
  {<<max, <<>>>> : max \in AtMostOne(1 .. order, {3})} \cup
  {<<<<>>, min>> : min \in AtMostOne(1 .. order, {2})}

BoundConfigs(template, ns, order, fixeds, limits, remainders) ==
  {[template |-> template,
    levels |-> [l \in 1 .. order |-> Constrained(Temporal(<<2>>, <<>>), l, fixed, limit[1], limit[2], rem)],
    bound |-> [d \in Dims |-> IF d = 2 THEN n ELSE 1],
    bypass |-> <<[l \in 1 .. order |-> "1"]>>, min_parallelism |-> 0] :
      n \in ns, fixed \in fixeds, limit \in limits, rem \in remainders}

UberBounds ==
  BoundConfigs("uber", {4}, 2, PartialFunctions(1 .. 2, {2, 3}), Limits(2), {<<>>}) \cup
  BoundConfigs("uber", {6, 7, 12}, 3, PartialFunctions(1 .. 3, {2, 5}), Limits(3), {<<>>})

RubyBounds ==
  BoundConfigs("ruby", {5, 6, 7}, 2, PartialFunctions(1 .. 2, {2, 3}), Limits(2), AtMostOne(1 .. 2, {3})) \cup
  BoundConfigs("ruby", {6}, 3, AtMostOne(1 .. 3, {2, 3}), {<<<<>>, <<>>>>}, AtMostOne(1 .. 3, {3}))

MCConfigs == UberNests \cup RubyNests \cup UberBounds \cup RubyBounds

\* Large enough for any of the spaces.
MCSizes == 1 .. 300

MCSplitCounts == {1, 3, 4}
==============================================================================
