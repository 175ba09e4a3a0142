---------------------------- MODULE HybridSearch ----------------------------
(***************************************************************************)
(* search::HybridSearch (src/src/search/hybrid.cpp), the default search:   *)
(* within a factorization it walks as LinearPrunedSearch does, but it      *)
(* draws the next factorization at random, optionally filtering the ones   *)
(* already drawn.                                                          *)
(*                                                                         *)
(* The draw loop (if_pgen_.Next until an unvisited factorization comes up) *)
(* is one step whose outcome is any factorization it may end with.         *)
(***************************************************************************)
EXTENDS LinearPrunedSearch

VARIABLES
  filter_revisits,   \* filter_revisits_
  visited,           \* visited_
  walks              \* history: how often each factorization was walked, up to 3

hybridVars == <<vars, filter_revisits, visited, walks>>

CountWalk(f) == walks' = [walks EXCEPT ![f] = IF @ < 3 THEN @ + 1 ELSE @]

\* The constructor starts with factorization 0, without recording it.
HybridInit ==
  /\ Init
  /\ filter_revisits \in BOOLEAN
  /\ visited = {}
  /\ walks = [f \in Factorizations |-> IF f = 0 THEN 1 ELSE 0]

AtFirstPoint == iterator.perm = 0 /\ iterator.split = 0 /\ iterator.bypass = 0

\* Next; the history of reports starts anew with each walk.
HybridNextId ==
  /\ state = "Ready"
  /\ state' = "WaitingForStatus"
  /\ reported' = IF AtFirstPoint THEN [id \in Ids |-> NotReported] ELSE reported
  /\ UNCHANGED <<iterator, eval_fail_count, pruned, visited, walks>>

\* IncrementRecursive_ short of the factorization dimension.
StepWithin(it) ==
  /\ MoveBypass(it) \/ MoveSplit(it) \/ MovePerm(it)
  /\ UNCHANGED <<visited, walks>>

AllVisited == filter_revisits /\ visited = Factorizations

Drawable_Everything == Factorizations

\* What the draw loop may end with.
Drawable == IF filter_revisits THEN Factorizations \ visited ELSE Factorizations

Recorded(f) == IF filter_revisits THEN visited \cup {f} ELSE visited

\* A drawn factorization is recorded, and the mapspace pruned for it.
DrawFac(it) ==
  /\ Carries(it)
  /\ \E f \in Drawable :
       /\ iterator' = [fac |-> f, perm |-> 0, split |-> 0, bypass |-> 0]
       /\ pruned' = f
       /\ visited' = Recorded(f)
       /\ CountWalk(f)
  /\ state' = "Ready"

\* Every factorization has been drawn.
Exhausted(it) ==
  /\ Carries(it)
  /\ AllVisited
  /\ iterator' = [it EXCEPT !.perm = 0, !.split = 0, !.bypass = 0]
  /\ state' = "Terminated"
  /\ UNCHANGED <<pruned, visited, walks>>

HybridReport_KeepsCount(status) ==
  /\ state = "WaitingForStatus"
  /\ BypassBlind(status)
  /\ reported' = [reported EXCEPT ![iterator] = status]
  /\ eval_fail_count' =
       IF AtLastBypass /\ EvalFails(status) = DBSize THEN 0 ELSE EvalFails(status)
  /\ LET it == FastForward(status) IN StepWithin(it) \/ DrawFac(it) \/ Exhausted(it)

\* Report: as the linear search accounts and fast-forwards.
HybridReport(status) ==
  /\ state = "WaitingForStatus"
  /\ BypassBlind(status)
  /\ reported' = [reported EXCEPT ![iterator] = status]
  /\ eval_fail_count' = IF AtLastBypass THEN 0 ELSE EvalFails(status)
  /\ LET it == FastForward(status) IN StepWithin(it) \/ DrawFac(it) \/ Exhausted(it)

HybridDone == state = "Terminated" /\ UNCHANGED hybridVars

HybridNext ==
  /\ HybridNextId \/ (\E status \in Status : HybridReport(status)) \/ HybridDone
  /\ UNCHANGED filter_revisits

-----------------------------------------------------------------------------
\* Properties.

\* A walk of a factorization is complete: when it is over, every ID of the
\* factorization was reported in it or was ruled out by a failure in it.
WalkComplete ==
  (state = "Ready" /\ AtFirstPoint) \/ state = "Terminated" =>
    \A id, other \in Ids :
      /\ id.fac = other.fac /\ reported[other] # NotReported
      /\ reported[id] = NotReported
      => ConstructionBad(id) \/ FactorizationBad(id.fac)

\* With the filter no factorization is walked twice, but for factorization 0:
\* the constructor walks it without recording it, so a draw may repeat it.
RevisitsFiltered ==
  filter_revisits => \A f \in Factorizations : walks[f] <= IF f = 0 THEN 2 ELSE 1

\* The search ends by itself only with the filter (or on an empty split), and
\* then it has walked every factorization.
EndsWhenAllWalked ==
  state = "Terminated" /\ IFSize > 0 =>
    filter_revisits /\ \A f \in Factorizations : walks[f] >= 1
=============================================================================
