-------------------------- MODULE ExhaustiveSearch --------------------------
(***************************************************************************)
(* search::ExhaustiveSearch (src/src/search/exhaustive.cpp): the linear    *)
(* walk of a mapspace that is never pruned, so that the sizes of all four  *)
(* dimensions are fixed.  The iterator is the array of the code, indexed   *)
(* in the order of dim_order_.                                             *)
(***************************************************************************)
EXTENDS Integers, FiniteSetsExt

CONSTANTS
  FullSize   \* size of each dimension, innermost (bypass) first

Dimensions == 1 .. 4
Bypass == 1
Spatial == 2
Permutation == 3
Factorization == 4

VARIABLES
  state,            \* state_
  coordinates,      \* iterator_
  eval_fail_count,  \* eval_fail_count_
  reported          \* history: the status reported for each ID

vars == <<state, coordinates, eval_fail_count, reported>>

\* The ID at the coordinates, as the linear search names it.
IdAt(c) ==
  [fac |-> c[Factorization], perm |-> c[Permutation], split |-> c[Spatial], bypass |-> c[Bypass]]

\* The same walk as that of the linear search, over sub-mapspaces that have
\* the full size for every factorization.
Factorizations == 0 .. FullSize[Factorization] - 1

Linear ==
  INSTANCE LinearPrunedSearch WITH
    IFSize <- FullSize[Factorization],
    LPSize <- [f \in Factorizations |-> FullSize[Permutation]],
    SSize <- [f \in Factorizations |-> FullSize[Spatial]],
    DBSize <- FullSize[Bypass],
    iterator <- IdAt(coordinates),
    pruned <- coordinates[Factorization]

\* The constructor.
Init ==
  /\ state = IF FullSize[Factorization] = 0 THEN "Terminated" ELSE "Ready"
  /\ coordinates = [d \in Dimensions |-> 0]
  /\ eval_fail_count = 0
  /\ reported = [id \in Linear!Ids |-> Linear!NotReported]

NextId ==
  /\ state = "Ready"
  /\ state' = "WaitingForStatus"
  /\ UNCHANGED <<coordinates, eval_fail_count, reported>>

Movable(c) == { d \in Dimensions : c[d] + 1 < FullSize[d] }

\* IncrementRecursive_: the innermost dimension that can move does, the ones
\* inside it restart; if none can the search is over, and the outermost
\* dimension stays where it is.
IncrementRecursive(c) ==
  LET moving == IF Movable(c) = {} THEN Factorization ELSE Min(Movable(c))
      step == IF Movable(c) = {} THEN 0 ELSE 1
  IN  /\ coordinates' = [d \in Dimensions |-> IF d < moving THEN 0
                                              ELSE IF d = moving THEN c[d] + step
                                              ELSE c[d]]
      /\ state' = IF Movable(c) = {} THEN "Terminated" ELSE "Ready"

AtLast(d) == coordinates[d] + 1 = FullSize[d]

EvalFails(status) == eval_fail_count + (IF status = "EvalFailure" THEN 1 ELSE 0)

\* The dimensions Report fast-forwards to their last point.
FastForwarded_LosesBypass(status) ==
  IF AtLast(Bypass) /\ EvalFails(status) = FullSize[Bypass] THEN {Spatial, Permutation} ELSE {}

FastForwarded(status) ==
  (IF AtLast(Bypass) /\ EvalFails(status) = FullSize[Bypass] THEN {Spatial, Permutation} ELSE {})
    \cup (IF status = "MappingConstructionFailure" THEN {Bypass} ELSE {})

Report(status) ==
  /\ state = "WaitingForStatus"
  /\ Linear!BypassBlind(status)
  /\ reported' = [reported EXCEPT ![IdAt(coordinates)] = status]
  /\ eval_fail_count' = IF AtLast(Bypass) THEN 0 ELSE EvalFails(status)
  /\ IncrementRecursive([d \in Dimensions |-> IF d \in FastForwarded(status) THEN FullSize[d] - 1
                                              ELSE coordinates[d]])

Done == state = "Terminated" /\ UNCHANGED vars

Next == NextId \/ (\E status \in Linear!Status : Report(status)) \/ Done

=============================================================================
