------------------------- MODULE LinearPrunedSearch -------------------------
(***************************************************************************)
(* search::LinearPrunedSearch (src/src/search/linear-pruned.cpp): the      *)
(* search that walks a pruned mapspace linearly, skips what a failure      *)
(* rules out, and hands mapping IDs to one mapper thread.                  *)
(*                                                                         *)
(* A mapping ID has four coordinates: index factorization (IF), loop       *)
(* permutation (LP), spatial split (S) and datatype bypass (DB).  The      *)
(* mapspace is pruned for one IF at a time, so the sizes of LP and S       *)
(* depend on the IF it was last pruned for (Uber::InitPruned).             *)
(*                                                                         *)
(* valid_mappings_ and best_cost_ are left out: nothing in the build reads *)
(* them (best_cost_ only feeds the DUMP_COSTS debug file).                 *)
(***************************************************************************)
EXTENDS Integers

CONSTANTS
  IFSize,   \* number of index factorizations of this thread's split
  LPSize,   \* loop permutations left when the mapspace is pruned for an IF
  SSize,    \* spatial splits left when the mapspace is pruned for an IF
  DBSize    \* datatype bypass schemes

Factorizations == 0 .. IFSize - 1

\* A split may be empty ("can happen with residual mapspaces"); the other
\* dimensions always keep at least one point.
ASSUME SizesAssumption ==
  /\ IFSize \in Nat
  /\ LPSize \in [Factorizations -> Nat \ {0}]
  /\ SSize \in [Factorizations -> Nat \ {0}]
  /\ DBSize \in Nat \ {0}

Ids ==
  UNION { [fac : {f}, perm : 0 .. LPSize[f] - 1, split : 0 .. SSize[f] - 1, bypass : 0 .. DBSize - 1]
            : f \in Factorizations }

Status == {"Success", "MappingConstructionFailure", "EvalFailure"}

NotReported == "NotReported"

VARIABLES
  state,            \* state_
  iterator,         \* iterator_
  eval_fail_count,  \* eval_fail_count_
  pruned,           \* the IF of the mapspace's last InitPruned
  reported          \* history: the status reported for each ID

vars == <<state, iterator, eval_fail_count, pruned, reported>>

\* The constructor: an empty split starts terminated, any other is pruned
\* for IF 0.
Init ==
  /\ state = IF IFSize = 0 THEN "Terminated" ELSE "Ready"
  /\ iterator = [fac |-> 0, perm |-> 0, split |-> 0, bypass |-> 0]
  /\ eval_fail_count = 0
  /\ pruned = 0
  /\ reported = [id \in Ids |-> NotReported]

-----------------------------------------------------------------------------

\* IncrementRecursive_ walks dim_order_ (bypass, split, perm, fac): the first
\* dimension that is not exhausted moves to its next integer and those below
\* it restart at 0.
MoveBypass(it) ==
  /\ it.bypass + 1 < DBSize
  /\ iterator' = [it EXCEPT !.bypass = @ + 1]
  /\ state' = "Ready"
  /\ UNCHANGED pruned

MoveSplit(it) ==
  /\ it.bypass + 1 >= DBSize
  /\ it.split + 1 < SSize[pruned]
  /\ iterator' = [it EXCEPT !.bypass = 0, !.split = @ + 1]
  /\ state' = "Ready"
  /\ UNCHANGED pruned

MovePerm(it) ==
  /\ it.bypass + 1 >= DBSize
  /\ it.split + 1 >= SSize[pruned]
  /\ it.perm + 1 < LPSize[pruned]
  /\ iterator' = [it EXCEPT !.bypass = 0, !.split = 0, !.perm = @ + 1]
  /\ state' = "Ready"
  /\ UNCHANGED pruned

Carries(it) ==
  /\ it.bypass + 1 >= DBSize
  /\ it.split + 1 >= SSize[pruned]
  /\ it.perm + 1 >= LPSize[pruned]

\* A new factorization prunes the mapspace anew (InitPruned).
MoveFac(it) ==
  /\ Carries(it)
  /\ it.fac + 1 < IFSize
  /\ iterator' = [fac |-> it.fac + 1, perm |-> 0, split |-> 0, bypass |-> 0]
  /\ state' = "Ready"
  /\ pruned' = it.fac + 1

Overflow_Wraps(it) ==
  /\ Carries(it)
  /\ it.fac + 1 >= IFSize
  /\ iterator' = [it EXCEPT !.bypass = 0, !.split = 0, !.perm = 0]
  /\ state' = "Ready"
  /\ UNCHANGED pruned

\* "Overflow! We are done."
Overflow(it) ==
  /\ Carries(it)
  /\ it.fac + 1 >= IFSize
  /\ iterator' = [it EXCEPT !.bypass = 0, !.split = 0, !.perm = 0]
  /\ state' = "Terminated"
  /\ UNCHANGED pruned

IncrementRecursive(it) ==
  MoveBypass(it) \/ MoveSplit(it) \/ MovePerm(it) \/ MoveFac(it) \/ Overflow(it)

EvalFails(status) ==
  IF status = "EvalFailure" THEN eval_fail_count + 1 ELSE eval_fail_count

AtLastBypass == iterator.bypass + 1 = DBSize

FastForward_OffByOne(status) ==
  IF AtLastBypass /\ EvalFails(status) = DBSize
    THEN [iterator EXCEPT !.perm = LPSize[pruned] - 2, !.split = SSize[pruned] - 1]
    ELSE iterator

\* Where Report fast-forwards to before it increments.  A construction
\* failure rules out the remaining DBs of this IF, LP, S; if every DB failed
\* evaluation the rest of this IF is ruled out.
FastForward(status) ==
  LET skipFactorization == AtLastBypass /\ EvalFails(status) = DBSize
      skipBypass == status = "MappingConstructionFailure"
  IN  [iterator EXCEPT
         !.perm   = IF skipFactorization THEN LPSize[pruned] - 1 ELSE @,
         !.split  = IF skipFactorization THEN SSize[pruned] - 1 ELSE @,
         !.bypass = IF skipBypass THEN DBSize - 1 ELSE @]

\* What the mapper thread may report: mapping construction never reads the
\* bypass nest, so whether it fails is the same for all DBs of an IF, LP, S.
BypassBlind(status) ==
  \A id \in Ids :
    /\ id.fac = iterator.fac /\ id.perm = iterator.perm /\ id.split = iterator.split
    /\ reported[id] # NotReported
    => (reported[id] = "MappingConstructionFailure"
          <=> status = "MappingConstructionFailure")

\* Next: hand out the mapping ID at the iterator.
NextId ==
  /\ state = "Ready"
  /\ state' = "WaitingForStatus"
  /\ UNCHANGED <<iterator, eval_fail_count, pruned, reported>>

Report_KeepsCount(status) ==
  /\ state = "WaitingForStatus"
  /\ BypassBlind(status)
  /\ reported' = [reported EXCEPT ![iterator] = status]
  /\ eval_fail_count' =
       IF AtLastBypass /\ EvalFails(status) = DBSize THEN 0 ELSE EvalFails(status)
  /\ IncrementRecursive(FastForward(status))

\* Report: account for the status of the ID last handed out and move on.
Report(status) ==
  /\ state = "WaitingForStatus"
  /\ BypassBlind(status)
  /\ reported' = [reported EXCEPT ![iterator] = status]
  /\ eval_fail_count' = IF AtLastBypass THEN 0 ELSE EvalFails(status)
  /\ IncrementRecursive(FastForward(status))

\* A terminated search answers every later Next with false.
Done == state = "Terminated" /\ UNCHANGED vars

Next == NextId \/ (\E status \in Status : Report(status)) \/ Done

Spec == Init /\ [][Next]_vars

\* The mapper thread calls Next and Report in turn until Next returns false.
FairSpec == Spec /\ WF_vars(NextId) /\ WF_vars(\E status \in Status : Report(status))

-----------------------------------------------------------------------------
\* Properties.

TypeOK ==
  /\ state \in {"Ready", "WaitingForStatus", "Terminated"}
  /\ iterator \in [fac : Nat, perm : Nat, split : Nat, bypass : Nat]
  /\ eval_fail_count \in Nat
  /\ pruned \in Nat
  /\ reported \in [Ids -> Status \cup {NotReported}]

\* A live search stands on an ID of the mapspace as it is pruned now: the
\* sizes that Next's ID and ConstructMapping decode it with belong to the
\* same factorization as the iterator.  Setting a coordinate beyond the
\* current sizes trips the assertion in CartesianCounter::Set.
IteratorInPrunedSpace ==
  state # "Terminated" => iterator \in Ids /\ pruned = iterator.fac

\* The order in which the walk visits IDs, most significant coordinate first.
Before(a, b) ==
  \/ a.fac < b.fac
  \/ /\ a.fac = b.fac
     /\ \/ a.perm < b.perm
        \/ /\ a.perm = b.perm
           /\ \/ a.split < b.split
              \/ a.split = b.split /\ a.bypass < b.bypass

\* The search never hands out an ID at or before one it already has a report
\* for: no mapping is evaluated twice, whatever skips happened in between.
NoRevisit ==
  state # "Terminated" =>
    \A id \in Ids : reported[id] # NotReported => Before(id, iterator)

SameSpace(a, b) == a.fac = b.fac /\ a.perm = b.perm /\ a.split = b.split

\* The failure count speaks of the iterator's own LP and S: it cannot exceed
\* the DBs passed there, every one of them came back without a construction
\* failure, and the count equals their number only if all failed evaluation.
\* Report resets eval_fail_count_ at the last DB only, so a count left over
\* from an earlier LP, S would break this.
FailuresCounted ==
  state # "Terminated" =>
    /\ eval_fail_count <= iterator.bypass
    /\ \A id \in Ids :
         SameSpace(id, iterator) /\ id.bypass < iterator.bypass =>
           /\ reported[id] \in {"Success", "EvalFailure"}
           /\ eval_fail_count = iterator.bypass => reported[id] = "EvalFailure"

ConstructionBad(id) ==
  \E other \in Ids : SameSpace(other, id) /\ reported[other] = "MappingConstructionFailure"

FactorizationBad(f) ==
  \E id \in Ids :
    /\ id.fac = f
    /\ \A other \in Ids : SameSpace(other, id) => reported[other] = "EvalFailure"

Passed(id) == state = "Terminated" \/ Before(id, iterator)

\* Completeness: an ID the walk has passed without evaluating it is either a
\* bypass variant of a mapping whose construction failed, or belongs to a
\* factorization for which some LP, S failed evaluation under every bypass.
\* These are the only two skips the comments in Report allow.  The hazard is
\* eval_fail_count_ surviving from one LP, S to the next, which would throw
\* away a whole factorization with legal mappings in it.
SkipsJustified ==
  \A id \in Ids :
    Passed(id) /\ reported[id] = NotReported
      => ConstructionBad(id) \/ FactorizationBad(id.fac)

\* The walk comes to an end, so an unlimited mapper thread can finish.
Terminates == <>(state = "Terminated")

\* The linear search keeps the contract every mapper thread relies on.
Visited ==
  { id \in Ids : reported[id] # NotReported }
    \cup (IF state = "WaitingForStatus" THEN {iterator} ELSE {})

Contract == INSTANCE SearchAlgorithm WITH visited <- Visited

KeepsContract == Contract!Spec
=============================================================================
