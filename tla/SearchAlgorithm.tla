--------------------------- MODULE SearchAlgorithm ---------------------------
(***************************************************************************)
(* The contract of search::SearchAlgorithm (src/include/search/search.hpp) *)
(* as the mapper thread relies on it: Next and Report alternate, every ID  *)
(* that Next hands out lies in the mapspace and was never handed out       *)
(* before, and the search may declare itself done after any report.        *)
(***************************************************************************)
CONSTANT Ids       \* the mapping IDs of the thread's mapspace

VARIABLES
  state,           \* the search's own protocol state
  visited          \* the IDs handed out so far

vars == <<state, visited>>

Init ==
  /\ state \in {"Ready", "Terminated"}
  /\ visited = {}

\* Next hands out a mapping ID the thread has not seen.
NextId ==
  /\ state = "Ready"
  /\ \E id \in Ids \ visited : visited' = visited \cup {id}
  /\ state' = "WaitingForStatus"

\* Report answers the ID last handed out.
Report ==
  /\ state = "WaitingForStatus"
  /\ state' \in {"Ready", "Terminated"}
  /\ UNCHANGED visited

Next == NextId \/ Report

Spec == Init /\ [][Next]_vars
=============================================================================
