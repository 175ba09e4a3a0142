--------------------------- MODULE NestAnalysisCache ---------------------------
(***************************************************************************)
(* The cache of the nest analysis, one per engine, and the flag all        *)
(* engines share (src/src/loop-analysis/nest-analysis.cpp).  Init keeps    *)
(* the working sets if the nest is the one they were computed for and      *)
(* resets everything otherwise.  Working sets are computed on demand; an   *)
(* imperfectly factorized nest sets gEnableImperfectCycleCount, a global   *)
(* variable, which ArithmeticUnits::Evaluate reads later to decide how     *)
(* cycles are counted.                                                     *)
(*                                                                         *)
(* Each mapper thread evaluates mappings on its own engine.  The flag is a *)
(* plain bool: its reads and writes are single steps that interleave.      *)
(***************************************************************************)
EXTENDS Integers, FiniteSets, TLAPS

CONSTANTS
  Threads,
  Nests,            \* loop nests of mappings
  ImperfectNests,   \* those with a loop whose last iteration is shorter
  MaxEvaluations    \* bound on the mappings a thread pre-checks

ASSUME NestAssumption ==
  /\ ImperfectNests \subseteq Nests
  /\ MaxEvaluations \in Nat

NoNest == "none"

ASSUME NoNestAssumption == NoNest \notin Nests

NoCycles == [nest |-> NoNest, imperfect |-> FALSE]

VARIABLES
  gEnableImperfectCycleCount,
  gTerminateEval,
  pc,         \* where each thread's evaluation stands
  nest,       \* the nest of the mapping in hand
  cached,     \* cached_nest
  computed,   \* working_sets_computed_
  sets,       \* the nest working_sets_ were computed for
  cycles,     \* the arithmetic level's cycles: the nest and the rule they follow
  prechecks   \* mappings the thread has pre-checked

vars == <<gEnableImperfectCycleCount, gTerminateEval, pc, nest, cached, computed,
          sets, cycles, prechecks>>

Init ==
  /\ gEnableImperfectCycleCount = FALSE
  /\ gTerminateEval = FALSE
  /\ pc = [t \in Threads |-> "idle"]
  /\ nest = [t \in Threads |-> NoNest]
  /\ cached = [t \in Threads |-> NoNest]
  /\ computed = [t \in Threads |-> FALSE]
  /\ sets = [t \in Threads |-> NoNest]
  /\ cycles = [t \in Threads |-> NoCycles]
  /\ prechecks = [t \in Threads |-> 0]

Goto(t, label) == pc' = [pc EXCEPT ![t] = label]

-----------------------------------------------------------------------------
Cached(t, n) == computed[t] /\ cached[t] = n

\* NestAnalysis::Init, with the Reset it performs on a new nest.
InitNest(t, n) ==
  IF Cached(t, n)
    THEN UNCHANGED <<cached, computed, sets, gEnableImperfectCycleCount>>
    ELSE /\ cached' = [cached EXCEPT ![t] = n]
         /\ computed' = [computed EXCEPT ![t] = FALSE]
         /\ sets' = [sets EXCEPT ![t] = NoNest]
         /\ gEnableImperfectCycleCount' = FALSE

\* Engine::PreEvaluationCheck; a mapping that fails it is not evaluated.
PreEvaluationCheck(t, n) ==
  /\ pc[t] = "idle" /\ prechecks[t] < MaxEvaluations
  /\ prechecks' = [prechecks EXCEPT ![t] = @ + 1]
  /\ nest' = [nest EXCEPT ![t] = n]
  /\ InitNest(t, n)
  /\ Goto(t, "idle") \/ Goto(t, "evaluate")
  /\ UNCHANGED <<gTerminateEval, cycles>>

\* Engine::Evaluate initialises the analysis again.
Evaluate(t) ==
  /\ pc[t] = "evaluate"
  /\ InitNest(t, nest[t])
  /\ Goto(t, "working sets")
  /\ UNCHANGED <<gTerminateEval, nest, cycles, prechecks>>

\* A check before GetWorkingSets rejects the mapping (CheckFormatModels...).
RejectEarly(t) ==
  /\ pc[t] = "working sets"
  /\ Goto(t, "idle")
  /\ UNCHANGED <<gEnableImperfectCycleCount, gTerminateEval, nest, cached, computed, sets, cycles, prechecks>>

\* GetWorkingSets answers from the cache, or starts to compute.
DetectImperfect(t) ==
  IF nest[t] \in ImperfectNests
    THEN gEnableImperfectCycleCount' = TRUE
    ELSE UNCHANGED gEnableImperfectCycleCount

GetWorkingSets(t) ==
  /\ pc[t] = "working sets"
  /\ IF computed[t]
       THEN Goto(t, "arithmetic") /\ UNCHANGED gEnableImperfectCycleCount
       ELSE Goto(t, "deltas") /\ DetectImperfect(t)
  /\ UNCHANGED <<gTerminateEval, nest, cached, computed, sets, cycles, prechecks>>

Deltas_KeepPartial(t) ==
  /\ computed' = [computed EXCEPT ![t] = TRUE]
  /\ IF gTerminateEval
       THEN Goto(t, "idle") /\ UNCHANGED sets
       ELSE Goto(t, "arithmetic") /\ sets' = [sets EXCEPT ![t] = nest[t]]

\* The recursion runs to its end or throws at a termination request, which
\* leaves the working sets uncomputed.
Deltas(t) ==
  IF gTerminateEval
    THEN Goto(t, "idle") /\ UNCHANGED <<computed, sets>>
    ELSE /\ computed' = [computed EXCEPT ![t] = TRUE]
         /\ sets' = [sets EXCEPT ![t] = nest[t]]
         /\ Goto(t, "arithmetic")

ComputeDeltas(t) ==
  /\ pc[t] = "deltas"
  /\ Deltas(t)
  /\ UNCHANGED <<gEnableImperfectCycleCount, gTerminateEval, nest, cached, cycles, prechecks>>

\* ArithmeticUnits::Evaluate, unless sparse processing rejects the mapping or
\* it uses too many instances.
EvaluateArithmetic(t) ==
  /\ pc[t] = "arithmetic"
  /\ \/ cycles' = [cycles EXCEPT ![t] = [nest |-> sets[t], imperfect |-> gEnableImperfectCycleCount]]
     \/ UNCHANGED cycles
  /\ Goto(t, "idle")
  /\ UNCHANGED <<gEnableImperfectCycleCount, gTerminateEval, nest, cached, computed, sets, prechecks>>

\* The second SIGINT.
Terminate ==
  /\ ~gTerminateEval
  /\ gTerminateEval' = TRUE
  /\ UNCHANGED <<gEnableImperfectCycleCount, pc, nest, cached, computed, sets, cycles, prechecks>>

Next ==
  \/ \E t \in Threads :
       \/ \E n \in Nests : PreEvaluationCheck(t, n)
       \/ Evaluate(t) \/ RejectEarly(t) \/ GetWorkingSets(t)
       \/ ComputeDeltas(t) \/ EvaluateArithmetic(t)
  \/ Terminate

Spec == Init /\ [][Next]_vars

-----------------------------------------------------------------------------
\* Types.
TypeOK ==
  /\ gEnableImperfectCycleCount \in BOOLEAN /\ gTerminateEval \in BOOLEAN
  /\ pc \in [Threads -> {"idle", "evaluate", "working sets", "deltas", "arithmetic"}]
  /\ nest \in [Threads -> Nests \cup {NoNest}]
  /\ cached \in [Threads -> Nests \cup {NoNest}]
  /\ computed \in [Threads -> BOOLEAN]
  /\ sets \in [Threads -> Nests \cup {NoNest}]
  /\ cycles \in [Threads -> [nest : Nests \cup {NoNest}, imperfect : BOOLEAN]]
  /\ prechecks \in [Threads -> 0 .. MaxEvaluations]

\* Whenever an engine uses its working sets they are those of the mapping it
\* evaluates, whatever it evaluated, rejected or abandoned before.
WorkingSetsAreCurrent == \A t \in Threads : pc[t] = "arithmetic" => sets[t] = nest[t]

\* Strengthening of WorkingSetsAreCurrent: computed sets are those of the cached
\* nest, and from Evaluate on the cached nest is the one in hand.
CacheConsistent ==
  \A t \in Threads :
    /\ computed[t] => sets[t] = cached[t]
    /\ pc[t] \in {"evaluate", "working sets", "deltas"} => cached[t] = nest[t]
    /\ pc[t] = "arithmetic" => sets[t] = nest[t]

\* "Each thread independently follows the specified heuristic" (mapper.md):
\* the rule that counts a mapping's cycles depends on that mapping only.
CyclesFollowNest ==
  \A t \in Threads :
    cycles[t].nest # NoNest => cycles[t].imperfect = (cycles[t].nest \in ImperfectNests)

------------------------------------------------------------------------------
(* Proofs, for any number of threads and any set of nests: types, and that an
   engine never evaluates a mapping with the working sets of another one. *)

USE NestAssumption, NoNestAssumption DEF NestAssumption, NoNestAssumption

\* Every variable keeps its type (gEnableImperfectCycleCount and
\* working_sets_computed_ stay booleans, the cached nest is a nest or none).
THEOREM TypeCorrect == Spec => []TypeOK
<1>1. ASSUME Init PROVE TypeOK
  <2>1. NoCycles \in [nest : Nests \cup {NoNest}, imperfect : BOOLEAN]
    BY Zenon DEF NoCycles
  <2>2. cycles \in [Threads -> [nest : Nests \cup {NoNest}, imperfect : BOOLEAN]]
    BY <1>1, <2>1 DEF Init
  <2>3. 0 \in 0 .. MaxEvaluations
    OBVIOUS
  <2> QED
    BY <1>1, <2>2, <2>3 DEF Init, TypeOK
<1>2. ASSUME TypeOK, [Next]_vars PROVE TypeOK'
  <2> USE <1>2 DEF TypeOK, Goto
  <2>1. ASSUME NEW t \in Threads, NEW n \in Nests, PreEvaluationCheck(t, n) PROVE TypeOK'
    <3>1. /\ cached' \in [Threads -> Nests \cup {NoNest}]
          /\ computed' \in [Threads -> BOOLEAN]
          /\ sets' \in [Threads -> Nests \cup {NoNest}]
          /\ gEnableImperfectCycleCount' \in BOOLEAN
      <4>1. InitNest(t, n)
        BY <2>1 DEF PreEvaluationCheck
      <4>2. CASE Cached(t, n)
        BY <4>1, <4>2 DEF InitNest
      <4>3. CASE ~Cached(t, n)
        <5>1. cached' = [cached EXCEPT ![t] = n] /\ sets' = [sets EXCEPT ![t] = NoNest]
          BY <4>1, <4>3 DEF InitNest
        <5>2. computed' = [computed EXCEPT ![t] = FALSE] /\ gEnableImperfectCycleCount' = FALSE
          BY <4>1, <4>3 DEF InitNest
        <5>3. computed' \in [Threads -> BOOLEAN]
          BY <5>2, Zenon
        <5> QED
          BY <5>1, <5>2, <5>3
      <4> QED
        BY <4>2, <4>3
    <3>2. prechecks[t] + 1 \in 0 .. MaxEvaluations
      <4>1. prechecks[t] \in 0 .. MaxEvaluations /\ prechecks[t] < MaxEvaluations
        BY <2>1 DEF PreEvaluationCheck
      <4> QED
        BY ONLY <4>1, NestAssumption DEF NestAssumption
    <3>3. prechecks' \in [Threads -> 0 .. MaxEvaluations]
      BY <2>1, <3>2 DEF PreEvaluationCheck
    <3>4. pc' \in [Threads -> {"idle", "evaluate", "working sets", "deltas", "arithmetic"}]
      BY <2>1 DEF PreEvaluationCheck
    <3> QED
      BY <2>1, <3>1, <3>3, <3>4 DEF PreEvaluationCheck
  <2>2. ASSUME NEW t \in Threads, Evaluate(t) PROVE TypeOK'
    BY <2>2 DEF Evaluate, InitNest, Cached
  <2>3. ASSUME NEW t \in Threads, RejectEarly(t) PROVE TypeOK'
    BY <2>3 DEF RejectEarly
  <2>4. ASSUME NEW t \in Threads, GetWorkingSets(t) PROVE TypeOK'
    BY <2>4 DEF GetWorkingSets, DetectImperfect
  <2>5. ASSUME NEW t \in Threads, ComputeDeltas(t) PROVE TypeOK'
    BY <2>5 DEF ComputeDeltas, Deltas
  <2>6. ASSUME NEW t \in Threads, EvaluateArithmetic(t) PROVE TypeOK'
    <3>1. [nest |-> sets[t], imperfect |-> gEnableImperfectCycleCount]
            \in [nest : Nests \cup {NoNest}, imperfect : BOOLEAN]
      BY <2>6 DEF EvaluateArithmetic
    <3>2. cycles' \in [Threads -> [nest : Nests \cup {NoNest}, imperfect : BOOLEAN]]
      BY <2>6, <3>1 DEF EvaluateArithmetic
    <3> QED
      BY <2>6, <3>2 DEF EvaluateArithmetic
  <2>7. CASE Terminate
    BY <2>7 DEF Terminate
  <2>8. CASE UNCHANGED vars
    BY <2>8 DEF vars
  <2> QED
    BY <2>1, <2>2, <2>3, <2>4, <2>5, <2>6, <2>7, <2>8 DEF Next
<1> QED
  BY <1>1, <1>2, PTL DEF Spec

\* Init on a nest leaves the cache about that nest, consistent with itself;
\* the caches of the other threads are not touched.
LEMMA InitNestConsistent ==
  ASSUME NEW t \in Threads, NEW n, TypeOK, CacheConsistent, InitNest(t, n)
  PROVE  /\ cached'[t] = n
         /\ \A u \in Threads : computed'[u] => sets'[u] = cached'[u]
         /\ \A u \in Threads \ {t} : cached'[u] = cached[u] /\ sets'[u] = sets[u]
  BY DEF InitNest, Cached, CacheConsistent, TypeOK

\* The strengthened invariant: computed working sets belong to cached_nest, and
\* an evaluation that has started works on the nest that is cached.
THEOREM CacheInvariant == Spec => []CacheConsistent
<1>1. Init => CacheConsistent
  BY DEF Init, CacheConsistent
<1>2. ASSUME TypeOK, CacheConsistent, [Next]_vars PROVE CacheConsistent'
  <2> USE <1>2
  <2>1. ASSUME NEW t \in Threads, NEW n \in Nests, PreEvaluationCheck(t, n) PROVE CacheConsistent'
    <3>1. InitNest(t, n)
      BY <2>1 DEF PreEvaluationCheck
    <3>2. nest' = [nest EXCEPT ![t] = n] /\ (Goto(t, "idle") \/ Goto(t, "evaluate"))
      BY <2>1 DEF PreEvaluationCheck
    <3>3. cached'[t] = n /\ nest'[t] = n /\ pc'[t] \in {"idle", "evaluate"}
      BY <3>1, <3>2, InitNestConsistent DEF TypeOK, Goto
    <3>4. \A u \in Threads : computed'[u] => sets'[u] = cached'[u]
      BY <3>1, InitNestConsistent
    <3>5. \A u \in Threads \ {t} : cached'[u] = cached[u] /\ sets'[u] = sets[u]
      BY <3>1, InitNestConsistent
    <3>6. \A u \in Threads \ {t} : nest'[u] = nest[u] /\ pc'[u] = pc[u]
      BY <3>2 DEF TypeOK, Goto
    <3> QED
      BY <3>3, <3>4, <3>5, <3>6 DEF CacheConsistent
  <2>2. ASSUME NEW t \in Threads, Evaluate(t) PROVE CacheConsistent'
    <3>1. InitNest(t, nest[t]) /\ Goto(t, "working sets") /\ UNCHANGED nest
      BY <2>2 DEF Evaluate
    <3>2. cached'[t] = nest'[t] /\ pc'[t] = "working sets"
      BY <3>1, InitNestConsistent DEF TypeOK, Goto
    <3>3. \A u \in Threads : computed'[u] => sets'[u] = cached'[u]
      BY <3>1, InitNestConsistent
    <3>4. \A u \in Threads \ {t} : cached'[u] = cached[u] /\ sets'[u] = sets[u]
      BY <3>1, InitNestConsistent
    <3>5. \A u \in Threads \ {t} : nest'[u] = nest[u] /\ pc'[u] = pc[u]
      BY <3>1 DEF TypeOK, Goto
    <3> QED
      BY <3>2, <3>3, <3>4, <3>5 DEF CacheConsistent
  <2>3. ASSUME NEW t \in Threads, RejectEarly(t) PROVE CacheConsistent'
    BY <2>3 DEF RejectEarly, Goto, CacheConsistent, TypeOK
  <2>4. ASSUME NEW t \in Threads, GetWorkingSets(t) PROVE CacheConsistent'
    BY <2>4 DEF GetWorkingSets, Goto, CacheConsistent, TypeOK
  <2>5. ASSUME NEW t \in Threads, ComputeDeltas(t) PROVE CacheConsistent'
    BY <2>5 DEF ComputeDeltas, Deltas, Goto, CacheConsistent, TypeOK
  <2>6. ASSUME NEW t \in Threads, EvaluateArithmetic(t) PROVE CacheConsistent'
    BY <2>6 DEF EvaluateArithmetic, Goto, CacheConsistent, TypeOK
  <2>7. CASE Terminate
    BY <2>7 DEF Terminate, CacheConsistent
  <2>8. CASE UNCHANGED vars
    BY <2>8 DEF vars, CacheConsistent
  <2> QED
    BY <2>1, <2>2, <2>3, <2>4, <2>5, <2>6, <2>7, <2>8 DEF Next
<1> QED
  BY <1>1, <1>2, TypeCorrect, PTL DEF Spec

\* An engine that evaluates the arithmetic level uses the working sets of the
\* mapping in hand (NestAnalysis::Init and GetWorkingSets).
THEOREM WorkingSetsStayCurrent == Spec => []WorkingSetsAreCurrent
<1>1. CacheConsistent => WorkingSetsAreCurrent
  BY DEF CacheConsistent, WorkingSetsAreCurrent
<1> QED
  BY <1>1, CacheInvariant, PTL
=============================================================================
