---------------------------- MODULE IndexFactors ----------------------------
(***************************************************************************)
(* The factors of one workload dimension in the Uber mapspace: class       *)
(* Factors splits a bound over the tiling levels, with some of the factors *)
(* given by the user, prunes the splits by the user's limits, and          *)
(* Uber::AssignIndexFactors turns a split into loop bounds.                *)
(*                                                                         *)
(* A given factor need not divide the bound; the loops are then imperfect: *)
(* every iteration but the last has `end` steps, the last `residual_end`.  *)
(* Levels are numbered from 1, the innermost.  Given factors and limits    *)
(* are partial functions of the level.                                     *)
(***************************************************************************)
EXTENDS FiniteSets, Integers, Sequences, SequencesExt

(***************************************************************************)
(* The pure algorithms of src/src/util/numeric.cpp and its header: class   *)
(* Factors, which enumerates the ways to split a bound over levels; the    *)
(* mixed-radix reading of the CartesianCounters; the permutations of       *)
(* Factoradic.  Levels and digits are numbered from 1, the innermost.      *)
(***************************************************************************)

CeilingDiv(a, b) == (a + b - 1) \div b

Product(s) == FoldLeft(LAMBDA p, f : p * f, 1, s)

Upto(m) == [i \in 1 .. m |-> i]

-----------------------------------------------------------------------------
\* class Factors

\* ISqrt_: the bits of the root from 1 << 30 down, skipping those above x.
\* Sixteen bits of root are enough: a bound is an int.
ISqrt(x) ==
  LET Bit(s, one) ==
        IF one > x THEN s
        ELSE IF s.op >= s.res + one
             THEN [op |-> s.op - (s.res + one), res |-> (s.res + 2 * one) \div 2]
             ELSE [s EXCEPT !.res = @ \div 2]
  IN  FoldLeft(Bit, [op |-> x, res |-> 0], [k \in 1 .. 16 |-> 4 ^ (16 - k)]).res

\* CalculateAllFactors_: each divisor up to the root, then its cofactor.
CalculateAllFactors(of) ==
  LET Add(fs, i) ==
        IF of % i # 0 THEN fs
        ELSE IF i * i = of THEN Append(fs, i) ELSE fs \o <<i, of \div i>>
  IN  FoldLeft(Add, <<>>, [i \in 1 .. ISqrt(of) |-> i])

\* MultiplicativeSplitRecursive_: for each factor that divides what is left,
\* the splits of the quotient over one level less, each with the factor
\* appended.
MultiplicativeSplit(of, levels) ==
  LET factors == CalculateAllFactors(of)
      split[m \in 1 .. of, k \in 1 .. levels] ==
        IF k = 1 THEN <<<<m>>>>
        ELSE LET With(r, f) ==
                   IF m % f # 0 THEN r
                   ELSE r \o [j \in DOMAIN split[m \div f, k - 1] |->
                                Append(split[m \div f, k - 1][j], f)]
             IN  FoldLeft(With, <<>>, factors)
  IN  IF levels = 0 THEN <<<<>>>> ELSE split[of, levels]

\* What the given factors leave to split, in order of their levels: a factor
\* that does not divide it is used up with a ceiling division.
Remaining(bound, gv, levels) ==
  FoldLeft(LAMBDA r, l : IF l \in DOMAIN gv THEN CeilingDiv(r, gv[l]) ELSE r,
           bound, Upto(levels))

\* Each given factor is inserted at its level, pushing the others back.
InsertGiven(cf, gv, levels) ==
  FoldLeft(LAMBDA s, l : IF l \in DOMAIN gv THEN InsertAt(s, l, gv[l]) ELSE s,
           cf, Upto(levels))

-----------------------------------------------------------------------------
\* CartesianCounter, CartesianCounterDynamic: the digits of an integer in the
\* mixed radix of the bases, low position first.

Weight(base, i) == Product(SubSeq(base, 1, i - 1))

\* UpdateValueFromInteger
Digits(base, n) == [i \in DOMAIN base |-> (n \div Weight(base, i)) % base[i]]

-----------------------------------------------------------------------------
\* Factoradic

Factorial(m) == Product(Upto(m))

\* Permute: the digits of the index in the factorial base say which of the
\* remaining elements comes next.
Permute(s, index) ==
  LET Step(r, i) ==
        LET scale == Factorial(Len(s) - i)
            d == r.index \div scale
        IN  [index |-> r.index % scale,
             s |-> InsertAt(RemoveAt(r.s, i + d), i, r.s[i + d])]
  IN  FoldLeft(Step, [index |-> index, s |-> s], Upto(Len(s) - 1)).s

-----------------------------------------------------------------------------
\* With all levels given there is nothing to split, and something left over
\* is an error that ends the program.
SplitPossible(n, order, given) ==
  Cardinality(DOMAIN given) = order => Remaining(n, given, order) = 1

Factors(n, order, given) ==
  LET free == MultiplicativeSplit(Remaining(n, given, order), order - Cardinality(DOMAIN given))
  IN  [i \in DOMAIN free |-> InsertGiven(free[i], given, order)]

AboveMax(cf, max) == \E l \in DOMAIN max : cf[l] > max[l]

BelowMin(cf, min) == \E l \in DOMAIN min : cf[l] < min[l]

PruneMax(cofactors, max) == SelectSeq(cofactors, LAMBDA cf : ~AboveMax(cf, max))

PruneMin(cofactors, min) == SelectSeq(cofactors, LAMBDA cf : ~BelowMin(cf, min))

-----------------------------------------------------------------------------
\* Uber::AssignIndexFactors: from the innermost level out, a loop takes its
\* factor or what remains of the bound if that is less.

LoopOf_AlwaysPerfect(factor, remaining) ==
  LET end == IF factor > remaining THEN remaining ELSE factor
  IN  [end |-> end, residual_end |-> end]

LoopOf(factor, remaining) ==
  LET end == IF factor > remaining THEN remaining ELSE factor
  IN  [end |-> end,
       residual_end |-> IF remaining % end = 0 THEN end ELSE remaining % end]

\* The loops of a dimension, level by level.
Assigned(n, cf) ==
  FoldLeft(LAMBDA s, f : LET l == LoopOf(f, s.remaining)
                         IN  [loops |-> Append(s.loops, l),
                              remaining |-> CeilingDiv(s.remaining, l.end)],
           [loops |-> <<>>, remaining |-> n], cf).loops

\* How many steps imperfect loops make in all: the recurrence
\* d0 = 1 + sum of (steps of the inner loops) * (residual_end - 1).
StepsOf(loops) ==
  LET Inner(l) == Product([k \in 1 .. l - 1 |-> loops[k].end])
  IN  FoldLeftDomain(LAMBDA d, l : d + Inner(l) * (loops[l].residual_end - 1), 1, loops)

-----------------------------------------------------------------------------
(***************************************************************************)
(* The factors of one workload dimension in the Ruby mapspace: class       *)
(* ResidualFactors finds the imperfect splits of a bound.  At a level with *)
(* a remainder bound the last iteration may have fewer steps than the      *)
(* others; at the other levels it has as many, unless the user gave the    *)
(* level a factor that does not divide what is left.                       *)
(*                                                                         *)
(* remainder_ix_ lists the levels with a bound, and remainder_bounds_ the  *)
(* bounds, in the order the caller found them.                             *)
(***************************************************************************)

\* Candidate factors: the divisors, and those of a larger product for every
\* possible remainder.
CalculateAdditionalFactors(of, bounds) ==
  UNION {LET g == k * of * CeilingDiv(of, k)
             divisors == {i \in 1 .. of : g % i = 0}
         IN  {f \in divisors \cup {g \div i : i \in {j \in divisors : j * j # g}} : f < of} :
         k \in UNION {1 .. bounds[b] : b \in DOMAIN bounds}}

AllFactors(of, bounds) == ToSet(CalculateAllFactors(of)) \cup CalculateAdditionalFactors(of, bounds)

CartProduct(v) ==
  FoldLeft(LAMBDA s, u : FlattenSeq([i \in DOMAIN s |-> [j \in DOMAIN u |-> Append(s[i], u[j])]]),
           <<<<>>>>, v)

\* The square root of the bound plus 1.5, rounded down.
Threshold(n) == (ISqrt(4 * n) + 3) \div 2

FactorProducts_NotSwapped(n, of, order, bounds) ==
  LET factors == SetToSortSeq(AllFactors(of, bounds), <)
      small == SelectSeq(factors, LAMBDA f : f <= Threshold(n))
      large == SelectSeq(factors, LAMBDA f : f >= Threshold(n))
      Lists(rec) == [i \in 1 .. order |-> IF i # 1 THEN small ELSE IF rec = 1 THEN factors ELSE large]
  IN  SelectSeq(FlattenSeq([rec \in 1 .. order |-> CartProduct(Lists(rec))]),
                LAMBDA t : Product([i \in DOMAIN t |-> IF t[i] = 1 THEN 1 ELSE t[i] - 1]) <= of)

\* GenerateFactorProduct_: one factor at a time may be above the threshold, and the
\* product, each factor but the ones of one step taken less one, not above what is split.
FactorProducts(n, of, order, bounds) ==
  LET factors == SetToSortSeq(AllFactors(of, bounds), <)
      small == SelectSeq(factors, LAMBDA f : f <= Threshold(n))
      large == SelectSeq(factors, LAMBDA f : f >= Threshold(n))
      Lists(rec) == [i \in 1 .. order |-> IF i # rec THEN small ELSE IF rec = 1 THEN factors ELSE large]
  IN  SelectSeq(FlattenSeq([rec \in 1 .. order |-> CartProduct(Lists(rec))]),
                LAMBDA t : Product([i \in DOMAIN t |-> IF t[i] = 1 THEN 1 ELSE t[i] - 1]) <= of)

\* GenerateResidual_
Residuals(of, order, bounds) ==
  SelectSeq(CartProduct([b \in DOMAIN bounds |-> Upto(IF bounds[b] = 0 THEN 1 ELSE bounds[b])]),
            LAMBDA t : FoldLeft(+, 0, t) <= of + order)

\* What the given factors leave to split.  One larger than what is left is cut down to it,
\* one that does not divide it has a residual.
AfterGiven(n, order, given) ==
  LET Use(s, l) ==
        IF l \notin DOMAIN given THEN s
        ELSE IF s.remaining % given[l] = 0 THEN [s EXCEPT !.remaining = @ \div given[l]]
        ELSE IF given[l] > s.remaining
             THEN [s EXCEPT !.given[l] = s.remaining, !.remaining = 1]
        ELSE [s EXCEPT !.residuals = @ @@ (l :> s.remaining % given[l]),
                       !.remaining = CeilingDiv(@, given[l])]
  IN  FoldLeft(Use, [remaining |-> n, given |-> given, residuals |-> <<>>], Upto(order))

\* How many levels with a remainder bound there are up to this one: remainders and bounds
\* are used up in this order.
Rank(ix, l) == Cardinality({i \in DOMAIN ix : ix[i] <= l})

\* The loops of each level, for these factors and remainders.
LoopsWith(f, r, ix, residuals) ==
  [l \in DOMAIN f |->
     [end |-> f[l],
      residual_end |-> IF l \in DOMAIN residuals THEN residuals[l]
                       ELSE IF l \in ToSet(ix) THEN r[Rank(ix, l)] ELSE f[l]]]

\* The number of steps, and whether no loop has more steps in its last iteration than in
\* the others or, with nothing but single steps outside it, fewer.
Solves(n, loops) ==
  LET Outwards(s, l) == [steps |-> loops[l].end * s.steps + loops[l].residual_end - 1,
                         valid |-> /\ s.valid
                                   /\ loops[l].end >= loops[l].residual_end
                                   /\ loops[l].end * s.steps + loops[l].residual_end - 1 = 0
                                        => loops[l].end = loops[l].residual_end]
      answer == FoldLeft(Outwards, [steps |-> 0, valid |-> TRUE], Reverse(Upto(Len(loops))))
  IN  answer.valid /\ answer.steps + 1 = n

\* ValidityChecker_
ValidPoints(n, products, remainders, bounds, ix, residuals) ==
  FlattenSeq([i \in DOMAIN products |->
    LET f == products[i]
        candidates == [k \in DOMAIN remainders |-> LoopsWith(f, remainders[k], ix, residuals)]
    IN  IF \E l \in ToSet(ix) \ DOMAIN residuals : f[l] > bounds[Rank(ix, l)] THEN <<>>
        ELSE SelectSeq(candidates, LAMBDA loops : Solves(n, loops))])

\* The constructor.
ImperfectFactors(n, order, given, bounds, ix) ==
  LET left == AfterGiven(n, order, given)
      free == order - Cardinality(DOMAIN given)
      new_order == IF free < 1 THEN 1 ELSE free
      products == FactorProducts(n, left.remaining, new_order, bounds)
  IN  ValidPoints(n, [i \in DOMAIN products |-> InsertGiven(products[i], left.given, order)],
                  Residuals(left.remaining, new_order, bounds), bounds, ix, left.residuals)

\* PruneMax, PruneMin: both bounds of a loop are held against a limit.
PruneImperfectMax(points, max) ==
  SelectSeq(points, LAMBDA p : \A l \in DOMAIN max : p[l].end <= max[l] /\ p[l].residual_end <= max[l])

PruneImperfectMin(points, min) ==
  SelectSeq(points, LAMBDA p : \A l \in DOMAIN min : p[l].end >= min[l] /\ p[l].residual_end >= min[l])

=============================================================================
