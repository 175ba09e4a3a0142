---------------------------- MODULE SearchFactory ----------------------------
(***************************************************************************)
(* search::ParseAndConstruct (src/src/search/search-factory.cpp): the      *)
(* configuration's `algorithm` decides which search a mapper thread calls  *)
(* Next and Report of.  The searches share the protocol state, the         *)
(* iterator and the failure count; each has variables of its own besides.  *)
(***************************************************************************)
EXTENDS LinearPrunedSearch

CONSTANTS
  MaxPermutationsPerVisit,   \* max_permutations_per_if_visit_ of random_pruned
  FullSize,                  \* the sizes of the mapspace exhaustive walks
  Points                     \* the IF, LP, S part of the IDs random rolls

ASSUME FactoryAssumption ==
  /\ MaxPermutationsPerVisit \in Nat
  /\ FullSize \in [1 .. 4 -> Nat] /\ \A d \in 1 .. 3 : FullSize[d] > 0

VARIABLES
  algorithm,                                \* which search was constructed
  filter_revisits,                          \* hybrid and random
  visited,                                  \* hybrid and random
  walks,                                    \* hybrid
  permutations_visited,                     \* random_pruned
  coordinates,                              \* exhaustive
  mapping_id, sequence, covered,            \* random
  valid_mappings, sinceRoll      \* random

hybridOnly == walks
randomPrunedOnly == permutations_visited
randomOnly == <<mapping_id, sequence, covered, valid_mappings, sinceRoll>>
filtering == <<filter_revisits, visited>>
linear == <<iterator, eval_fail_count, pruned, reported>>

factoryVars ==
  <<algorithm, state, linear, filtering, hybridOnly, randomPrunedOnly, coordinates, randomOnly>>

Hybrid == INSTANCE HybridSearch
RandomPruned == INSTANCE RandomPrunedSearch
Exhaustive == INSTANCE ExhaustiveSearch
Random == INSTANCE RandomSearch

\* What a search leaves alone has no value of interest.
Unused == "unused"

LinearUnused == iterator = Unused /\ eval_fail_count = Unused /\ pruned = Unused /\ reported = Unused

FilteringUnused == filter_revisits = Unused /\ visited = Unused

HybridUnused == walks = Unused

RandomPrunedUnused == permutations_visited = Unused

ExhaustiveUnused == coordinates = Unused

RandomUnused ==
  /\ mapping_id = Unused /\ sequence = Unused /\ covered = Unused
  /\ valid_mappings = Unused /\ sinceRoll = Unused

\* ParseAndConstruct; any other name exits.
Construct ==
  \/ /\ algorithm = "linear_pruned" /\ Init
     /\ FilteringUnused /\ HybridUnused /\ RandomPrunedUnused /\ ExhaustiveUnused /\ RandomUnused
  \/ /\ algorithm = "hybrid" /\ Hybrid!HybridInit
     /\ RandomPrunedUnused /\ ExhaustiveUnused /\ RandomUnused
  \/ /\ algorithm = "random_pruned" /\ RandomPruned!RandomPrunedInit
     /\ FilteringUnused /\ HybridUnused /\ ExhaustiveUnused /\ RandomUnused
  \/ /\ algorithm = "exhaustive" /\ Exhaustive!Init
     /\ iterator = Unused /\ pruned = Unused
     /\ FilteringUnused /\ HybridUnused /\ RandomPrunedUnused /\ RandomUnused
  \/ /\ algorithm = "random" /\ Random!Init
     /\ LinearUnused /\ HybridUnused /\ RandomPrunedUnused /\ ExhaustiveUnused

CallLinear ==
  /\ algorithm = "linear_pruned" /\ Next
  /\ UNCHANGED <<filtering, hybridOnly, randomPrunedOnly, coordinates, randomOnly>>

CallHybrid ==
  /\ algorithm = "hybrid" /\ Hybrid!HybridNext
  /\ UNCHANGED <<randomPrunedOnly, coordinates, randomOnly>>

CallRandomPruned ==
  /\ algorithm = "random_pruned" /\ RandomPruned!RandomPrunedNext
  /\ UNCHANGED <<filtering, hybridOnly, coordinates, randomOnly>>

CallExhaustive ==
  /\ algorithm = "exhaustive" /\ Exhaustive!Next
  /\ UNCHANGED <<iterator, pruned, filtering, hybridOnly, randomPrunedOnly, randomOnly>>

CallRandom ==
  /\ algorithm = "random" /\ Random!Next
  /\ UNCHANGED <<linear, hybridOnly, randomPrunedOnly, coordinates>>

\* The mapper thread calls Next and Report of the search it was given.
Call ==
  /\ CallLinear \/ CallHybrid \/ CallRandomPruned \/ CallExhaustive \/ CallRandom
  /\ UNCHANGED algorithm

FactorySpec == Construct /\ [][Call]_factoryVars

\* The mapper thread goes on calling.
FairFactorySpec == FactorySpec /\ WF_factoryVars(Call)

-----------------------------------------------------------------------------
\* Properties.

\* A random order of walks loses no ID: when the hybrid search leaves a
\* factorization, or random_pruned a drawn permutation, each ID of it was
\* reported or is ruled out by a failure reported in this very walk; the hybrid
\* search ends by itself only after it walked every factorization, and with the
\* filter it walks none again (but number 0, which its constructor does not
\* record); and between two rolls random hands out every bypass scheme once,
\* whatever scheme the filtering left the sequence at.
WalkComplete ==
  /\ algorithm = "hybrid" =>
       Hybrid!WalkComplete /\ Hybrid!EndsWhenAllWalked /\ Hybrid!RevisitsFiltered
  /\ algorithm = "random_pruned" => RandomPruned!WalkComplete
  /\ algorithm = "random" => Random!SchemesInTurn

\* With the filter the hybrid search comes to an end.
FilteredSearchEnds ==
  algorithm = "hybrid" /\ filter_revisits = TRUE => <>(state = "Terminated")

\* The exhaustive search takes exactly the steps of a linear search whose
\* sub-mapspaces all have the full size; it so inherits all that is proved of
\* that search in SearchProofs.  A difference in what one of the
\* two implementations skips, counts or carries would show here.
WalksAsLinear ==
  /\ algorithm = "exhaustive" => Exhaustive!Linear!Init
  /\ [][ algorithm = "exhaustive" => Exhaustive!Linear!Next ]_<<state, coordinates, eval_fail_count, reported>>
=============================================================================
