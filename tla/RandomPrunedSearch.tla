------------------------- MODULE RandomPrunedSearch -------------------------
(***************************************************************************)
(* search::RandomPrunedSearch (src/src/search/random-pruned.cpp): draws a  *)
(* factorization, visits a bounded number of randomly drawn permutations   *)
(* of it, and for each of them walks all splits and bypass schemes.  It    *)
(* shares the coordinates, the accounting of failures and the two inner    *)
(* steps of the walk with LinearPrunedSearch.                              *)
(***************************************************************************)
EXTENDS LinearPrunedSearch, FiniteSetsExt

CONSTANT MaxPermutationsPerVisit   \* max_permutations_per_if_visit_

VARIABLE permutations_visited   \* permutations_visited_

\* permutations_to_visit_, which changes with every prune.
PermutationsToVisit == Min({MaxPermutationsPerVisit, LPSize[pruned]})

NoReports == [id \in Ids |-> NotReported]

\* A visit of factorization f begins with a drawn permutation: the generator
\* ranges over the unpruned permutations and is reduced modulo the pruned
\* size, so any pruned permutation may come up.
BeginsVisit(f) ==
  /\ \E p \in 0 .. LPSize[f] - 1 : iterator' = [fac |-> f, perm |-> p, split |-> 0, bypass |-> 0]
  /\ pruned' = f
  /\ permutations_visited' = 0

\* The constructor.
RandomPrunedInit ==
  /\ IF IFSize = 0
       THEN /\ state = "Terminated"
            /\ iterator = [fac |-> 0, perm |-> 0, split |-> 0, bypass |-> 0]
            /\ pruned = 0
       ELSE /\ state = "Ready"
            /\ \E f \in Factorizations : \E p \in 0 .. LPSize[f] - 1 :
                 /\ iterator = [fac |-> f, perm |-> p, split |-> 0, bypass |-> 0]
                 /\ pruned = f
  /\ eval_fail_count = 0
  /\ permutations_visited = 0
  /\ reported = NoReports

AtFirstPoint == iterator.split = 0 /\ iterator.bypass = 0

\* Next; the history of reports starts anew with each drawn permutation.
RandomPrunedNextId ==
  /\ state = "Ready"
  /\ state' = "WaitingForStatus"
  /\ reported' = IF AtFirstPoint THEN NoReports ELSE reported
  /\ UNCHANGED <<iterator, eval_fail_count, pruned, permutations_visited>>

-----------------------------------------------------------------------------
\* IncrementRecursive_, from the point it and the count visits to which
\* Report has fast-forwarded.

StepInside(it, visits) ==
  /\ MoveBypass(it) \/ MoveSplit(it)
  /\ permutations_visited' = visits

InnerExhausted(it) == it.bypass + 1 >= DBSize /\ it.split + 1 >= SSize[pruned]

MorePermutations(visits) == visits + 1 < PermutationsToVisit

\* Draw the next permutation of the same factorization.
DrawPerm(it, visits) ==
  /\ InnerExhausted(it)
  /\ MorePermutations(visits)
  /\ \E p \in 0 .. LPSize[pruned] - 1 :
       iterator' = [it EXCEPT !.perm = p, !.split = 0, !.bypass = 0]
  /\ permutations_visited' = visits + 1
  /\ state' = "Ready"
  /\ UNCHANGED pruned

\* Draw another factorization, which may be the same again.
DrawFac(it, visits) ==
  /\ InnerExhausted(it)
  /\ ~MorePermutations(visits)
  /\ \E f \in Factorizations : BeginsVisit(f)
  /\ state' = "Ready"

AllBypassesFailed(status) == AtLastBypass /\ EvalFails(status) = DBSize

\* Where Report fast-forwards to: if every DB failed evaluation, to the last
\* split of the last permutation of this visit; after a construction failure
\* to the last DB.
RandomFastForward(status) ==
  [iterator EXCEPT
     !.split  = IF AllBypassesFailed(status) THEN SSize[pruned] - 1 ELSE @,
     !.bypass = IF status = "MappingConstructionFailure" THEN DBSize - 1 ELSE @]

VisitsAfter(status) ==
  IF AllBypassesFailed(status) THEN PermutationsToVisit - 1 ELSE permutations_visited

\* The count starts anew behind the last DB.
CountAfter(status) == IF AtLastBypass THEN 0 ELSE EvalFails(status)

\* Report: as the linear search accounts, then fast-forward and increment.
RandomPrunedReport(status) ==
  /\ state = "WaitingForStatus"
  /\ BypassBlind(status)
  /\ reported' = [reported EXCEPT ![iterator] = status]
  /\ eval_fail_count' = CountAfter(status)
  /\ LET it == RandomFastForward(status)
         visits == VisitsAfter(status)
     IN  StepInside(it, visits) \/ DrawPerm(it, visits) \/ DrawFac(it, visits)

\* Unless its split is empty the search never terminates by itself.
RandomPrunedNext == RandomPrunedNextId \/ (\E status \in Status : RandomPrunedReport(status))

-----------------------------------------------------------------------------
\* Properties.

\* A drawn permutation is walked completely: when another one is drawn, each
\* ID of its splits and bypass schemes was reported, or ruled out by a
\* failure reported in this walk.
WalkComplete ==
  state = "Ready" /\ AtFirstPoint =>
    \A id, other \in Ids :
      /\ id.fac = other.fac /\ id.perm = other.perm
      /\ reported[other] # NotReported /\ reported[id] = NotReported
      => ConstructionBad(id) \/ FactorizationBad(id.fac)
=============================================================================
