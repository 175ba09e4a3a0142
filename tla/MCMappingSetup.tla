--------------------------- MODULE MCMappingSetup ---------------------------
(***************************************************************************)
(* A workload of two dimensions and two data spaces on an architecture with *)
(* a 2 x 2 array of arithmetic units below its inner storage level.         *)
(***************************************************************************)
EXTENDS MappingSetup

MCMeshes == << [x |-> 2, y |-> 2], [x |-> 1, y |-> 1], [x |-> 1, y |-> 1] >>
MCBound == <<4, 2>>

\* A directive of one term.
Bounded(type, target, dim, rel, end) ==
  [Directive(type, target) EXCEPT !.factors = << [Term(dim, end) EXCEPT !.rel = rel] >>]

One(end) == << Term(1, end) >>
Both(first, second) == << Term(1, first), Term(2, second) >>
Imperfect == << [Term(1, 3) EXCEPT !.residual = {1}] >>
Nest(type, target, factors, order) ==
  [Directive(type, target) EXCEPT !.factors = factors, !.prefix = order]

MCMappingInputs ==
  {[Nest("spatial", 1, factors, order) EXCEPT !.split = split] :
     <<factors, order, split>> \in {<< Both(2, 1), <<1, 2>>, {1} >>, << Both(2, 2), <<1, 2>>, {1} >>,
                                    << Both(2, 2), <<2, 1>>, {} >>}}
  \cup {Nest("temporal", 1, factors, order) :
     <<factors, order>> \in {<< Both(2, 2), <<1, 2>> >>, << Both(1, 2), <<2>> >>,
                             << Imperfect, <<>> >>}}
  \cup {Nest("temporal", 2, factors, order) :
     <<factors, order>> \in {<< Both(2, 2), <<2, 1>> >>, << Both(0, 0), <<1, 2>> >>,
                             << Both(1, 2), <<>> >>, << One(2), <<>> >>}}
  \cup {[Directive("datatype", 1) EXCEPT !.keep = {"A"}, !.bypass = {"B"}],
        [Directive("dataspace", 2) EXCEPT !.bypass = {"A"}]}

MCConstraintInputs ==
  {[Nest("spatial", 1, One(2), <<1>>) EXCEPT !.split = {1}],
   [Directive("spatial", 1) EXCEPT !.default_max = {2},
                                   !.flags = [no_multicast_no_reduction |-> {"A"}]],
   [Directive("spatial", 1) EXCEPT !.flags = [no_reuse |-> {"B"}]],
   Nest("temporal", 1, <<>>, <<1, 2>>),
   [Nest("temporal", 1, <<>>, <<>>) EXCEPT !.suffix = <<2>>],
   Bounded("temporal", 1, 1, "<=", 1),
   Bounded("temporal", 1, 1, ">=", 2),
   Bounded("temporal", 2, 1, "=", 0),
   Bounded("temporal", 2, 1, "=", 2),
   Bounded("temporal", 2, 1, "=", 8),
   [Directive("datatype", 1) EXCEPT !.keep = {"A"}],
   [Directive("bypassing", 1) EXCEPT !.bypass = {"A", "B"}],
   [Directive("dataspace", 2) EXCEPT !.bypass = {"A"}],
   [Directive("max_overbooked_proportion", 1) EXCEPT !.proportion = {20}],
   [Directive("utilization", 1) EXCEPT !.min = {50}]}

\* What the theorems about an accepted mapping suppose of its user's directives.
ASSUME HypothesesHold == UnitTermsAreWhole /\ DimensionsListedOnce
=============================================================================
