-------------------------- MODULE TopologyEvaluation --------------------------
(***************************************************************************)
(* How one mapping is evaluated (Engine::Evaluate in src/src/model/        *)
(* engine.cpp and Topology::Evaluate in topology.cpp): the order of the    *)
(* checks, what break_on_failure cuts short, which statuses and flags each *)
(* check leaves behind, and what the caller makes of them.                 *)
(*                                                                         *)
(* The caller is one mapper thread (MapperThread::Run) that pre-checks and *)
(* evaluates mappings on one engine and keeps a valid one, and the main    *)
(* thread, which evaluates the best mapping again on an engine of its own  *)
(* (Mapper::Run).  A mapping is given by the set of checks it fails.       *)
(***************************************************************************)
EXTENDS Integers, FiniteSets, TLAPS

CONSTANTS
  NumStorageLevels,
  Networks,
  ReadFill,        \* storage level -> network it reads to the inner level over
  DrainUpdate,     \* storage level -> network it is updated over
  MaxFailures,     \* bound on the checks one mapping fails
  MaxEvaluations   \* bound on the mappings the thread evaluates

ASSUME TopologyAssumption ==
  /\ NumStorageLevels \in Nat \ {0}
  /\ {MaxFailures, MaxEvaluations} \subseteq Nat
  /\ ReadFill \in [1 .. NumStorageLevels -> Networks]
  /\ DrainUpdate \in [1 .. NumStorageLevels -> Networks]

\* Level 0 is arithmetic; storage level l of the model is storage level l - 1
\* of the code, and connection l - 1 links it to the level inside it.
Arithmetic == 0
Storage == 1 .. NumStorageLevels
Levels == {Arithmetic} \cup Storage

\* The checks a mapping can fail, by the level or network that fails.
Check(kind, where) == [kind |-> kind, where |-> where]

MaskCheck == Check("bypassed everywhere", "all")
DensityCheck == Check("density model", "all")
Capacity(l) == Check("capacity", l)        \* seen by the pre-check already
Format(l) == Check("format", l)            \* CheckFormatModelsAndMapping
Sparse(l) == Check("sparse", l)            \* PerformSparseProcessing
Instances(l) == Check("instances", l)      \* seen by the level's Evaluate only
Wiring(n) == Check("network", n)

Checks ==
  {MaskCheck, DensityCheck, Instances(Arithmetic)}
    \cup UNION {{Capacity(l), Format(l), Sparse(l), Instances(l)} : l \in Storage}
    \cup {Wiring(n) : n \in Networks}

Mappings == {failing \in SUBSET Checks : Cardinality(failing) <= MaxFailures}

\* Not a mapping: it fails a check that does not exist.
NoMapping == {Check("none", "all")}

NoStats == [of |-> NoMapping, networks |-> {}]

VARIABLES
  diagnostics_on_,
  phase,        \* "search" on the thread's engine, "final" on the main thread's
  pc,           \* where the evaluation stands
  mapping,      \* the mapping under evaluation
  status,       \* eval_status, whether each level succeeded
  accum,        \* success_accum
  at,           \* the storage level or connection the loops have reached
  s,            \* the EvalStatus of a connection: "unset", "ok" or "failed"
  levelsDone,   \* levels whose is_evaluated_ is set
  networksDone, \* networks whose is_evaluated_ is set
  topologyDone, \* Topology::is_evaluated_
  engineDone,   \* Engine::is_evaluated_
  stats,        \* Topology::stats_: mapping and networks they were summed over
  best,         \* the mapping kept, with its stats
  evaluations,  \* mappings evaluated
  terminated    \* gTerminateEval

moduleVars == <<levelsDone, networksDone, topologyDone, engineDone, stats>>
walkVars == <<status, accum, at, s>>
callerVars == <<phase, mapping, best, evaluations, terminated>>
vars == <<moduleVars, walkVars, callerVars, pc, diagnostics_on_>>

break_on_failure == phase = "search" => ~diagnostics_on_

Passes(check) == check \notin mapping

Succeeded(st) == \A l \in Levels : st[l]

AllFailed == [l \in Levels |-> FALSE]

FailAt(kind) == [l \in Levels |-> status[l] /\ Passes(Check(kind, l))]

Init ==
  /\ diagnostics_on_ \in BOOLEAN
  /\ phase = "search" /\ pc = "idle"
  /\ mapping = NoMapping /\ best = NoMapping
  /\ status = [l \in Levels |-> TRUE] /\ accum = TRUE
  /\ at = 1 /\ s = "unset"
  /\ levelsDone = {} /\ networksDone = {}
  /\ topologyDone = FALSE /\ engineDone = FALSE
  /\ stats = NoStats
  /\ evaluations = 0
  /\ terminated = FALSE

-----------------------------------------------------------------------------
Reset_KeepsEvaluated ==
  /\ stats' = NoStats
  /\ levelsDone' = {} /\ networksDone' = {}
  /\ UNCHANGED topologyDone

\* Topology::Reset and the modules it resets.
Reset ==
  /\ stats' = NoStats
  /\ levelsDone' = {} /\ networksDone' = {}
  /\ topologyDone' = FALSE

\* The start of Topology::Evaluate, up to the check of the bypass masks.
BeginEvaluate(m) ==
  /\ mapping' = m
  /\ Reset
  /\ accum' = TRUE /\ at' = 1 /\ s' = "unset"
  /\ IF MaskCheck \in m
       THEN status' = AllFailed /\ pc' = "return"
       ELSE status' = [l \in Levels |-> TRUE] /\ pc' = "format"

\* PreEvaluationCheck rejects a mapping before it is evaluated.
Rejected(m) == MaskCheck \in m \/ \E l \in Storage : Capacity(l) \in m

EvaluateMapping(m) ==
  /\ phase = "search" /\ pc = "idle"
  /\ evaluations < MaxEvaluations
  /\ ~Rejected(m)
  /\ evaluations' = evaluations + 1
  /\ BeginEvaluate(m)
  /\ UNCHANGED <<engineDone, phase, best, terminated>>

Return(st) == status' = st /\ pc' = "return"

\* A failure is noted, and ends the evaluation only if break_on_failure.
NoteFailures(kind, next) ==
  LET st == FailAt(kind)
  IN  IF break_on_failure /\ ~Succeeded(st)
        THEN Return(st)
        ELSE status' = st /\ pc' = next

CheckFormatModelsAndMapping ==
  /\ pc = "format"
  /\ NoteFailures("format", "working sets")
  /\ UNCHANGED <<moduleVars, callerVars, accum, at, s>>

\* A termination request aborts GetWorkingSets, unless the nest is cached.
GetWorkingSets ==
  /\ pc = "working sets"
  /\ \/ terminated /\ Return(AllFailed)
     \/ pc' = "sparse" /\ UNCHANGED status
  /\ UNCHANGED <<moduleVars, callerVars, accum, at, s>>

PerformSparseProcessing ==
  /\ pc = "sparse"
  /\ IF Passes(DensityCheck) THEN NoteFailures("sparse", "arithmetic") ELSE Return(AllFailed)
  /\ UNCHANGED <<moduleVars, callerVars, accum, at, s>>

\* A level's own check replaces whatever status the level had.
EvaluateLevel(l, ok) ==
  /\ levelsDone' = IF ok THEN levelsDone \cup {l} ELSE levelsDone
  /\ accum' = (accum /\ ok)

EvaluateArithmetic ==
  LET ok == Passes(Instances(Arithmetic))
      st == [status EXCEPT ![Arithmetic] = ok]
  IN  /\ pc = "arithmetic"
      /\ EvaluateLevel(Arithmetic, ok)
      /\ status' = st
      /\ pc' = IF break_on_failure /\ ~ok THEN "return" ELSE "storage"
      /\ UNCHANGED <<networksDone, topologyDone, engineDone, stats, callerVars, at, s>>

LevelPasses(l) == Passes(Capacity(l)) /\ Passes(Instances(l))

EvaluateStorage ==
  LET ok == LevelPasses(at)
      more == (ok \/ ~break_on_failure) /\ at < NumStorageLevels
  IN  /\ pc = "storage"
      /\ EvaluateLevel(at, ok)
      /\ status' = [status EXCEPT ![at] = ok]
      /\ pc' = IF more THEN "storage" ELSE "read-fill"
      /\ at' = IF more THEN at + 1 ELSE 1
      /\ UNCHANGED <<networksDone, topologyDone, engineDone, stats, callerVars, s>>

-----------------------------------------------------------------------------
\* The loop over the connections.

\* An EvalStatus that no network assigned is read all the same.
ReadsAsFailed(st) == IF st = "unset" THEN BOOLEAN ELSE {st = "failed"}

EvaluateNetwork_FailureUnnoticed(n, r) ==
  IF n \in networksDone
    THEN /\ r = s
         /\ UNCHANGED <<networksDone, status, accum>>
    ELSE /\ r = IF Passes(Wiring(n)) THEN "ok" ELSE "failed"
         /\ networksDone' = IF r = "ok" THEN networksDone \cup {n} ELSE networksDone
         /\ UNCHANGED <<status, accum>>

\* Evaluate network n unless an earlier connection did; r is the connection's
\* status afterwards.  A failure goes on record under the connection's number,
\* which is that of the level inside it.
EvaluateNetwork(n, r) ==
  IF n \in networksDone
    THEN /\ r = s
         /\ UNCHANGED <<networksDone, status, accum>>
    ELSE /\ r = IF Passes(Wiring(n)) THEN "ok" ELSE "failed"
         /\ networksDone' = IF r = "ok" THEN networksDone \cup {n} ELSE networksDone
         /\ status' = [status EXCEPT ![at - 1] = @ /\ r = "ok"]
         /\ accum' = (accum /\ r = "ok")

ConnectionStep(n, next, r, failed) ==
  /\ EvaluateNetwork(n, r)
  /\ s' = IF next = "read-fill" THEN "unset" ELSE r
  /\ LET stop == (break_on_failure /\ failed) \/ (next = "read-fill" /\ at = NumStorageLevels)
     IN  /\ pc' = IF stop THEN "stats" ELSE next
         /\ at' = IF ~stop /\ next = "read-fill" THEN at + 1 ELSE at
  /\ UNCHANGED <<levelsDone, topologyDone, engineDone, stats, callerVars>>

EvaluateReadFill ==
  /\ pc = "read-fill"
  /\ \E r \in {"unset", "ok", "failed"} : \E failed \in ReadsAsFailed(r) :
       ConnectionStep(ReadFill[at], "drain-update", r, failed)

EvaluateDrainUpdate ==
  /\ pc = "drain-update"
  /\ \E r \in {"unset", "ok", "failed"} : \E failed \in ReadsAsFailed(r) :
       ConnectionStep(DrainUpdate[at], "read-fill", r, failed)

\* ComputeStats skips the networks that are not evaluated.
ComputeStats ==
  /\ pc = "stats"
  /\ stats' = IF accum THEN [of |-> mapping, networks |-> networksDone] ELSE stats
  /\ topologyDone' = (topologyDone \/ accum)
  /\ pc' = "return"
  /\ UNCHANGED <<walkVars, callerVars, levelsDone, networksDone, engineDone>>

-----------------------------------------------------------------------------
\* Engine::Evaluate returns, and the caller looks at the statuses.
ReturnToThread ==
  /\ phase = "search" /\ pc = "return"
  /\ engineDone' = Succeeded(status)
  /\ best' = IF Succeeded(status) THEN mapping ELSE best
  /\ pc' = "idle"
  /\ UNCHANGED <<levelsDone, networksDone, topologyDone, stats, walkVars,
                 phase, mapping, evaluations, terminated>>

\* Mapper::Run evaluates the best mapping on a new engine.
ReevaluateBest ==
  /\ phase = "search" /\ pc = "idle" /\ best # NoMapping
  /\ phase' = "final"
  /\ BeginEvaluate(best)
  /\ engineDone' = FALSE
  /\ UNCHANGED <<best, evaluations, terminated>>

ReturnToMain ==
  /\ phase = "final" /\ pc = "return"
  /\ engineDone' = Succeeded(status)
  /\ pc' = "printed"
  /\ UNCHANGED <<levelsDone, networksDone, topologyDone, stats, walkVars, callerVars>>

\* The second SIGINT.
Terminate ==
  /\ ~terminated
  /\ terminated' = TRUE
  /\ UNCHANGED <<moduleVars, walkVars, phase, mapping, best, evaluations, pc>>

Next ==
  /\ \/ \E m \in Mappings : EvaluateMapping(m)
     \/ CheckFormatModelsAndMapping \/ GetWorkingSets \/ PerformSparseProcessing
     \/ EvaluateArithmetic \/ EvaluateStorage
     \/ EvaluateReadFill \/ EvaluateDrainUpdate \/ ComputeStats
     \/ ReturnToThread \/ ReevaluateBest \/ ReturnToMain \/ Terminate
  /\ UNCHANGED diagnostics_on_

Spec == Init /\ [][Next]_vars

-----------------------------------------------------------------------------
Returned == pc \in {"idle", "printed"} /\ mapping # NoMapping

\* The verdict the caller acts on (the statuses) and the flag that gates what
\* is printed (Topology::is_evaluated_) agree after every evaluation, whatever
\* failed before and whether or not failures cut it short.
VerdictsAgree == Returned => (topologyDone <=> Succeeded(status))

Connected == {ReadFill[l] : l \in Storage} \cup {DrainUpdate[l] : l \in Storage}

\* The stats of an evaluated topology are those of the mapping just evaluated,
\* and every level and every connected network has contributed to them.
StatsAreComplete ==
  topologyDone =>
    /\ stats.of = mapping
    /\ levelsDone = Levels
    /\ Connected \subseteq stats.networks

-----------------------------------------------------------------------------
(***************************************************************************)
(* Proofs, for any number of levels, any networks and any bounds.          *)
(***************************************************************************)

TypeOK ==
  /\ diagnostics_on_ \in BOOLEAN /\ topologyDone \in BOOLEAN /\ accum \in BOOLEAN
  /\ status \in [Levels -> BOOLEAN]
  /\ at \in Storage
  /\ pc \in {"idle", "format", "working sets", "sparse", "arithmetic", "storage",
             "read-fill", "drain-update", "stats", "return", "printed"}

Before == {"format", "working sets", "sparse", "arithmetic"}
Connecting == {"read-fill", "drain-update"}

\* The levels whose status the loops have taken into success_accum by now.
Judged ==
  IF pc \in Before THEN {} ELSE IF pc = "storage" THEN 0 .. at - 1 ELSE Levels

\* Until ComputeStats the topology counts as not evaluated, and success_accum
\* stands for the statuses of the levels judged; where failures cut the
\* evaluation short, no level has failed as long as it goes on.
AccumTracksStatus ==
  /\ pc \in Before \cup {"storage", "stats"} \cup Connecting =>
       ~topologyDone /\ (accum <=> \A l \in Judged : status[l])
  /\ pc \in Before \cup {"storage"} /\ break_on_failure => Succeeded(status)
  /\ pc \in Before => at = 1
  /\ pc = "return" => (topologyDone <=> Succeeded(status))

Agreement == TypeOK /\ AccumTracksStatus /\ VerdictsAgree

\* Every storage level has networks of its own, as those the model infers
\* for levels that name none.
OwnNetworks ==
  \A l, k \in Storage : l # k =>
    {ReadFill[l], DrainUpdate[l]} \cap {ReadFill[k], DrainUpdate[k]} = {}

NetworksBelow(l) == {ReadFill[k] : k \in 1 .. l - 1} \cup {DrainUpdate[k] : k \in 1 .. l - 1}

\* The networks the loop has passed.
Passed ==
  IF pc = "read-fill" THEN NetworksBelow(at)
  ELSE IF pc = "drain-update" THEN NetworksBelow(at) \cup {ReadFill[at]}
  ELSE IF pc = "stats" THEN Connected
  ELSE {}

\* While nothing has failed, every module judged or passed is evaluated; and
\* a failed network shows in the status of its connection.
EvaluatedSoFar ==
  /\ pc \in Before => levelsDone = {}
  /\ pc \in Before \cup {"storage"} => networksDone = {}
  /\ pc \in {"storage", "stats"} \cup Connecting /\ accum =>
       levelsDone = Judged /\ Passed \subseteq networksDone
  /\ pc \in Connecting => networksDone \subseteq Passed
  /\ pc = "drain-update" => s = "ok" \/ (s = "failed" /\ ~accum)

Completeness == Agreement /\ EvaluatedSoFar /\ StatsAreComplete

LEMMA LevelsAre ==
  /\ NumStorageLevels \in Nat /\ NumStorageLevels > 0
  /\ Storage = 1 .. NumStorageLevels
  /\ Levels = 0 .. NumStorageLevels
  /\ Arithmetic = 0
  BY TopologyAssumption DEF TopologyAssumption, Storage, Levels, Arithmetic

LEMMA VerdictsTyped ==
  /\ AllFailed \in [Levels -> BOOLEAN] /\ ~Succeeded(AllFailed)
  /\ [l \in Levels |-> TRUE] \in [Levels -> BOOLEAN] /\ Succeeded([l \in Levels |-> TRUE])
<1>1. [l \in Levels |-> FALSE] \in [Levels -> BOOLEAN] /\ [l \in Levels |-> TRUE] \in [Levels -> BOOLEAN]
  BY Zenon
<1> QED
  BY <1>1, LevelsAre DEF AllFailed, Succeeded

\* An evaluation starts with the topology reset and nothing failed, or ends at
\* once with every level failed.
LEMMA BeginAgrees ==
  ASSUME Agreement, NEW m, BeginEvaluate(m), diagnostics_on_' = diagnostics_on_
  PROVE  Agreement'
<1>1. topologyDone' = FALSE /\ accum' = TRUE /\ at' = 1
  BY DEF BeginEvaluate, Reset
<1>2. /\ MaskCheck \in m => status' = AllFailed /\ pc' = "return"
      /\ MaskCheck \notin m => status' = [l \in Levels |-> TRUE] /\ pc' = "format"
  BY DEF BeginEvaluate
<1>3. diagnostics_on_' \in BOOLEAN /\ at' \in Storage
  <2>1. diagnostics_on_' \in BOOLEAN
    BY DEF Agreement, TypeOK
  <2>2. at' \in Storage
    BY <1>1, LevelsAre
  <2> QED
    BY <2>1, <2>2
<1>4. CASE MaskCheck \in m
  <2>1. status' = AllFailed /\ pc' = "return"
    BY <1>4, <1>2
  <2>2. status' \in [Levels -> BOOLEAN] /\ ~Succeeded(status')
    BY <2>1, VerdictsTyped
  <2>3. TypeOK'
    BY <1>1, <1>3, <2>1, <2>2 DEF TypeOK
  <2> QED
    BY <1>1, <2>1, <2>2, <2>3 DEF Agreement, AccumTracksStatus, VerdictsAgree, Returned,
         Before, Connecting
<1>5. CASE MaskCheck \notin m
  <2>1. status' = [l \in Levels |-> TRUE] /\ pc' = "format"
    BY <1>5, <1>2
  <2>2. status' \in [Levels -> BOOLEAN] /\ Succeeded(status')
    BY <2>1, VerdictsTyped
  <2>3. TypeOK'
    BY <1>1, <1>3, <2>1, <2>2 DEF TypeOK
  <2> QED
    BY <1>1, <2>1, <2>2, <2>3 DEF Agreement, AccumTracksStatus, VerdictsAgree, Returned,
         Before, Connecting, Judged
<1> QED
  BY <1>4, <1>5

\* A check before the levels are evaluated: it notes failures, and ends the
\* evaluation only on one.
LEMMA CheckAgrees ==
  ASSUME Agreement, pc \in Before,
         status' \in [Levels -> BOOLEAN],
         \/ pc' = "return" /\ ~Succeeded(status')
         \/ pc' \in Before /\ (break_on_failure => Succeeded(status')),
         UNCHANGED <<diagnostics_on_, topologyDone, accum, at, phase, mapping>>
  PROVE  Agreement'
<1>1. ~topologyDone /\ accum /\ at = 1
  BY DEF Agreement, AccumTracksStatus, Judged, TypeOK
<1>2. TypeOK'
  BY DEF Agreement, TypeOK, Before
<1>3. break_on_failure' = break_on_failure
  BY DEF break_on_failure
<1>4. CASE pc' = "return" /\ ~Succeeded(status')
  BY <1>1, <1>2, <1>4 DEF Agreement, AccumTracksStatus, VerdictsAgree, Returned, Before, Connecting
<1>5. CASE pc' \in Before /\ (break_on_failure => Succeeded(status'))
  <2>1. Judged' = {}
    BY <1>5 DEF Judged
  <2>2. pc' \notin {"storage", "return", "idle", "printed"}
    BY <1>5 DEF Before
  <2>3. AccumTracksStatus'
    BY <1>1, <1>3, <1>5, <2>1, <2>2 DEF AccumTracksStatus
  <2> QED
    BY <1>2, <2>2, <2>3 DEF Agreement, VerdictsAgree, Returned
<1> QED
  BY <1>4, <1>5

LEMMA NoteAgrees ==
  ASSUME Agreement, NEW kind, NEW next \in Before, pc \in Before,
         NoteFailures(kind, next),
         UNCHANGED <<diagnostics_on_, topologyDone, accum, at, phase, mapping>>
  PROVE  Agreement'
<1> DEFINE st == FailAt(kind)
<1>1. st \in [Levels -> BOOLEAN]
  BY DEF FailAt, Passes, Agreement, TypeOK
<1>2. CASE break_on_failure /\ ~Succeeded(st)
  <2>1. status' = st /\ pc' = "return"
    BY <1>2 DEF NoteFailures, Return
  <2>2. ~Succeeded(status')
    BY <1>2, <2>1
  <2> QED
    BY <1>1, <2>1, <2>2, CheckAgrees
<1>3. CASE ~(break_on_failure /\ ~Succeeded(st))
  <2>1. status' = st /\ pc' = next
    BY <1>3 DEF NoteFailures
  <2>2. break_on_failure => Succeeded(status')
    BY <1>3, <2>1
  <2> QED
    BY <1>1, <2>1, <2>2, CheckAgrees
<1> QED
  BY <1>2, <1>3

\* The evaluation of a level replaces its status and joins it into
\* success_accum.
LEMMA LevelsAgree ==
  ASSUME Agreement, EvaluateArithmetic \/ EvaluateStorage, diagnostics_on_' = diagnostics_on_
  PROVE  Agreement'
<1> USE DEF callerVars, moduleVars
<1>1. CASE EvaluateArithmetic
  <2> DEFINE ok == Passes(Instances(Arithmetic))
  <2>1. ok \in BOOLEAN
    BY DEF Passes
  <2> HIDE DEF ok
  <2>2. /\ pc = "arithmetic" /\ accum' = (accum /\ ok)
        /\ status' = [status EXCEPT ![Arithmetic] = ok]
        /\ pc' = IF break_on_failure /\ ~ok THEN "return" ELSE "storage"
        /\ UNCHANGED <<topologyDone, at, phase, mapping>>
    BY <1>1 DEF EvaluateArithmetic, EvaluateLevel, ok
  <2>3. /\ ~topologyDone /\ accum /\ status \in [Levels -> BOOLEAN]
        /\ break_on_failure => Succeeded(status)
        /\ at \in 1 .. NumStorageLevels
    BY <2>2, LevelsAre DEF Agreement, AccumTracksStatus, Judged, TypeOK, Before
  <2>4. /\ status'[0] = ok /\ \A l \in Levels : l # 0 => status'[l] = status[l]
        /\ status' \in [Levels -> BOOLEAN]
    BY <2>1, <2>2, <2>3, LevelsAre
  <2>5. TypeOK'
    BY <2>1, <2>2, <2>3, <2>4 DEF Agreement, TypeOK
  <2>6. break_on_failure' = break_on_failure
    BY <2>2 DEF break_on_failure
  <2>7. CASE pc' = "return"
    <3>1. ~ok
      BY <2>2, <2>7
    <3>2. ~Succeeded(status')
      BY <2>4, <3>1, LevelsAre DEF Succeeded
    <3> QED
      BY <2>2, <2>3, <2>5, <2>7, <3>2 DEF Agreement, AccumTracksStatus, VerdictsAgree, Returned,
           Before, Connecting
  <2>8. CASE pc' = "storage"
    <3>1. break_on_failure => ok
      BY <2>2, <2>8
    <3>2. break_on_failure => Succeeded(status')
      BY <2>3, <2>4, <3>1 DEF Succeeded
    <3>3. at = 1
      BY <2>2 DEF Agreement, AccumTracksStatus, Before
    <3>4. accum' <=> \A l \in 0 .. at - 1 : status'[l]
      BY <2>2, <2>3, <2>4, <3>3
    <3> QED
      BY <2>2, <2>3, <2>5, <2>6, <2>8, <3>2, <3>4 DEF Agreement, AccumTracksStatus, VerdictsAgree,
           Returned, Judged, Before, Connecting
  <2> QED
    BY <2>2, <2>7, <2>8
<1>2. CASE EvaluateStorage
  <2> DEFINE ok == LevelPasses(at)
             more == (ok \/ ~break_on_failure) /\ at < NumStorageLevels
  <2>1. ok \in BOOLEAN
    BY DEF LevelPasses, Passes
  <2>2. /\ pc = "storage" /\ accum' = (accum /\ ok)
        /\ status' = [status EXCEPT ![at] = ok]
        /\ pc' = IF more THEN "storage" ELSE "read-fill"
        /\ at' = IF more THEN at + 1 ELSE 1
        /\ UNCHANGED <<topologyDone, phase, mapping>>
    BY <1>2 DEF EvaluateStorage, EvaluateLevel
  <2> HIDE DEF ok
  <2>3. /\ ~topologyDone /\ status \in [Levels -> BOOLEAN] /\ accum \in BOOLEAN
        /\ accum <=> \A l \in 0 .. at - 1 : status[l]
        /\ break_on_failure => Succeeded(status)
        /\ at \in 1 .. NumStorageLevels
    BY <2>2, LevelsAre DEF Agreement, AccumTracksStatus, Judged, TypeOK, Before
  <2>4. /\ status'[at] = ok /\ \A l \in Levels : l # at => status'[l] = status[l]
        /\ status' \in [Levels -> BOOLEAN]
    BY <2>1, <2>2, <2>3, LevelsAre
  <2>5. at' \in 1 .. NumStorageLevels
    BY <2>2, <2>3, LevelsAre
  <2>6. TypeOK'
    BY <2>1, <2>2, <2>3, <2>4, <2>5, LevelsAre DEF Agreement, TypeOK
  <2>7. break_on_failure' = break_on_failure
    BY <2>2 DEF break_on_failure
  <2>8. accum' <=> \A l \in 0 .. at : status'[l]
    BY <2>2, <2>3, <2>4, LevelsAre
  <2>9. CASE more
    <3>1. break_on_failure => Succeeded(status')
      BY <2>3, <2>4, <2>9 DEF Succeeded
    <3>2. pc' = "storage" /\ at' - 1 = at
      BY <2>2, <2>3, <2>9
    <3> QED
      BY <2>2, <2>3, <2>6, <2>7, <2>8, <3>1, <3>2 DEF Agreement, AccumTracksStatus, VerdictsAgree,
           Returned, Judged, Before, Connecting
  <2>10. CASE ~more
    <3>1. pc' = "read-fill"
      BY <2>2, <2>10
    <3>2. accum' <=> \A l \in Levels : status'[l]
      <4>1. CASE at = NumStorageLevels
        BY <2>8, <4>1, LevelsAre
      <4>2. CASE at # NumStorageLevels
        <5>1. ~ok
          BY <2>3, <2>10, <4>2, LevelsAre
        <5> QED
          BY <2>2, <2>3, <2>4, <5>1, LevelsAre
      <4> QED
        BY <4>1, <4>2
    <3> QED
      BY <2>2, <2>3, <2>6, <3>1, <3>2 DEF Agreement, AccumTracksStatus, VerdictsAgree,
           Returned, Judged, Before, Connecting
  <2> QED
    BY <2>9, <2>10
<1> QED
  BY <1>1, <1>2

\* A network's result goes into the status of its connection and into
\* success_accum alike.
LEMMA NetworkAgrees ==
  ASSUME Agreement, NEW n, NEW next \in Connecting, NEW r, NEW failed,
         pc \in Connecting, ConnectionStep(n, next, r, failed), diagnostics_on_' = diagnostics_on_
  PROVE  Agreement'
<1> USE DEF callerVars, moduleVars
<1>1. /\ ~topologyDone /\ status \in [Levels -> BOOLEAN] /\ accum \in BOOLEAN
      /\ accum <=> \A l \in Levels : status[l]
      /\ at \in 1 .. NumStorageLevels
  BY LevelsAre DEF Agreement, AccumTracksStatus, Judged, TypeOK, Before, Connecting
<1>2. /\ EvaluateNetwork(n, r)
      /\ UNCHANGED <<topologyDone, phase, mapping>>
      /\ pc' \in {"stats", next}
      /\ at' \in {at, IF at = NumStorageLevels THEN at ELSE at + 1}
  BY DEF ConnectionStep
<1>3. /\ status' \in [Levels -> BOOLEAN] /\ accum' \in BOOLEAN
      /\ accum' <=> \A l \in Levels : status'[l]
  <2>1. CASE n \in networksDone
    BY <1>1, <1>2, <2>1 DEF EvaluateNetwork
  <2>2. CASE n \notin networksDone
    <3> DEFINE ok == r = "ok"
    <3>1. /\ status' = [status EXCEPT ![at - 1] = @ /\ ok]
          /\ accum' = (accum /\ ok)
      BY <1>2, <2>2 DEF EvaluateNetwork
    <3>2. ok \in BOOLEAN
      OBVIOUS
    <3> HIDE DEF ok
    <3>3. at - 1 \in Levels
      BY <1>1, LevelsAre
    <3>4. /\ status' \in [Levels -> BOOLEAN]
          /\ status'[at - 1] = (status[at - 1] /\ ok)
          /\ \A l \in Levels : l # at - 1 => status'[l] = status[l]
      BY <1>1, <3>1, <3>2, <3>3, Zenon
    <3> QED
      BY <1>1, <3>1, <3>2, <3>3, <3>4
  <2> QED
    BY <2>1, <2>2
<1>4. at' \in Storage
  BY <1>1, <1>2, LevelsAre
<1>5. TypeOK'
  BY <1>1, <1>2, <1>3, <1>4 DEF Agreement, TypeOK, Connecting
<1> QED
  BY <1>1, <1>2, <1>3, <1>5 DEF Agreement, AccumTracksStatus, VerdictsAgree, Returned, Judged,
       Before, Connecting

LEMMA AgreementStep == Agreement /\ [Next]_vars => Agreement'
<1> SUFFICES ASSUME Agreement, [Next]_vars PROVE Agreement'
  OBVIOUS
<1> USE DEF callerVars, moduleVars, walkVars
<1>1. CASE UNCHANGED vars
  BY <1>1 DEF vars, Agreement, TypeOK, AccumTracksStatus, VerdictsAgree, Returned, Judged,
       break_on_failure, Succeeded
<1> SUFFICES ASSUME Next PROVE Agreement'
  BY <1>1
<1>2. diagnostics_on_' = diagnostics_on_
  BY DEF Next
<1>3. ASSUME NEW m \in Mappings, EvaluateMapping(m) PROVE Agreement'
  BY <1>2, <1>3, BeginAgrees DEF EvaluateMapping
<1>4. CASE CheckFormatModelsAndMapping
  BY <1>2, <1>4, NoteAgrees DEF CheckFormatModelsAndMapping, Before
<1>5. CASE GetWorkingSets
  <2>1. /\ pc = "working sets"
        /\ UNCHANGED <<diagnostics_on_, topologyDone, accum, at, phase, mapping>>
    BY <1>2, <1>5 DEF GetWorkingSets
  <2>2. \/ status' = AllFailed /\ pc' = "return"
        \/ status' = status /\ pc' = "sparse"
    BY <1>5 DEF GetWorkingSets, Return
  <2>3. status \in [Levels -> BOOLEAN] /\ (break_on_failure => Succeeded(status))
    BY <2>1 DEF Agreement, TypeOK, AccumTracksStatus, Before
  <2> QED
    BY <2>1, <2>2, <2>3, VerdictsTyped, CheckAgrees DEF Before
<1>6. CASE PerformSparseProcessing
  <2>1. /\ pc \in Before /\ "arithmetic" \in Before
        /\ UNCHANGED <<diagnostics_on_, topologyDone, accum, at, phase, mapping>>
    BY <1>2, <1>6 DEF PerformSparseProcessing, Before
  <2>2. CASE Return(AllFailed)
    BY <2>1, <2>2, VerdictsTyped, CheckAgrees DEF Return
  <2>3. CASE NoteFailures("sparse", "arithmetic")
    BY <2>1, <2>3, NoteAgrees
  <2> QED
    BY <1>6, <2>2, <2>3 DEF PerformSparseProcessing
<1>7. CASE EvaluateArithmetic \/ EvaluateStorage
  BY <1>2, <1>7, LevelsAgree
<1>8. CASE EvaluateReadFill \/ EvaluateDrainUpdate
  BY <1>2, <1>8, NetworkAgrees DEF EvaluateReadFill, EvaluateDrainUpdate, Connecting
<1>9. CASE ComputeStats
  <2>1. /\ pc = "stats" /\ pc' = "return" /\ topologyDone' = (topologyDone \/ accum)
        /\ UNCHANGED <<status, accum, at, phase, mapping>>
    BY <1>9 DEF ComputeStats
  <2>2. /\ ~topologyDone /\ (accum <=> Succeeded(status)) /\ accum \in BOOLEAN
    BY <2>1 DEF Agreement, AccumTracksStatus, Judged, Before, Succeeded, TypeOK
  <2>3. topologyDone' \in BOOLEAN /\ (topologyDone' <=> Succeeded(status'))
    BY <2>1, <2>2
  <2> QED
    BY <1>2, <2>1, <2>3 DEF Agreement, TypeOK, AccumTracksStatus, VerdictsAgree, Returned, Before,
         Connecting
<1>10. CASE ReturnToThread \/ ReturnToMain
  <2>1. /\ pc = "return" /\ pc' \in {"idle", "printed"}
        /\ UNCHANGED <<topologyDone, status, accum, at>>
    BY <1>10 DEF ReturnToThread, ReturnToMain
  <2>2. topologyDone' <=> Succeeded(status')
    BY <2>1 DEF Agreement, AccumTracksStatus
  <2> QED
    BY <1>2, <2>1, <2>2 DEF Agreement, TypeOK, AccumTracksStatus, VerdictsAgree, Before, Connecting
<1>11. CASE ReevaluateBest
  BY <1>2, <1>11, BeginAgrees DEF ReevaluateBest
<1>12. CASE Terminate
  BY <1>2, <1>12 DEF Terminate, Agreement, TypeOK, AccumTracksStatus, VerdictsAgree, Returned, Judged,
       break_on_failure, Succeeded
<1> QED
  BY <1>3, <1>4, <1>5, <1>6, <1>7, <1>8, <1>9, <1>10, <1>11, <1>12 DEF Next

LEMMA AgreementInit == Init => Agreement
<1> SUFFICES ASSUME Init PROVE Agreement
  OBVIOUS
<1>1. status \in [Levels -> BOOLEAN]
  BY VerdictsTyped DEF Init
<1>2. at \in Storage
  BY LevelsAre DEF Init
<1>3. TypeOK
  BY <1>1, <1>2 DEF Init, TypeOK
<1> QED
  BY <1>3 DEF Init, Agreement, AccumTracksStatus, VerdictsAgree, Returned, Before, Connecting

\* After every evaluation the statuses the caller acts on and the flag that
\* gates what is printed agree.
THEOREM VerdictsAlwaysAgree == Spec => []VerdictsAgree
<1>1. Agreement => VerdictsAgree
  BY DEF Agreement
<1> QED
  BY <1>1, AgreementInit, AgreementStep, PTL DEF Spec

LEMMA BeginIsComplete ==
  ASSUME NEW m, BeginEvaluate(m)
  PROVE  (EvaluatedSoFar /\ StatsAreComplete)'
<1>1. /\ topologyDone' = FALSE /\ levelsDone' = {} /\ networksDone' = {}
      /\ pc' \in {"return", "format"}
  BY DEF BeginEvaluate, Reset
<1> QED
  BY <1>1 DEF EvaluatedSoFar, StatsAreComplete, Before, Connecting

\* The loop over the levels, with success_accum, evaluates them one by one.
LEMMA LevelsComplete ==
  ASSUME Completeness, EvaluateArithmetic \/ EvaluateStorage
  PROVE  (EvaluatedSoFar /\ StatsAreComplete)'
<1> USE DEF callerVars, moduleVars
<1>1. pc \in {"arithmetic", "storage"} /\ topologyDone' = topologyDone /\ networksDone' = networksDone
  BY DEF EvaluateArithmetic, EvaluateStorage
<1>2. ~topologyDone' /\ networksDone' = {} /\ at \in 1 .. NumStorageLevels
  BY <1>1, LevelsAre DEF Completeness, Agreement, AccumTracksStatus, EvaluatedSoFar, TypeOK, Before
<1>3. StatsAreComplete'
  BY <1>2 DEF StatsAreComplete
<1>4. CASE EvaluateArithmetic
  <2>1. /\ pc = "arithmetic" /\ pc' \in {"return", "storage"} /\ at' = at
        /\ accum' => levelsDone' = levelsDone \cup {0}
    BY <1>4, LevelsAre DEF EvaluateArithmetic, EvaluateLevel
  <2>2. levelsDone = {} /\ at = 1
    BY <2>1 DEF Completeness, EvaluatedSoFar, Agreement, AccumTracksStatus, Before
  <2>3. accum' => levelsDone' = 0 .. at' - 1
    BY <2>1, <2>2
  <2> QED
    BY <1>2, <1>3, <2>1, <2>3 DEF EvaluatedSoFar, Judged, Passed, Before, Connecting
<1>5. CASE EvaluateStorage
  <2> DEFINE ok == LevelPasses(at)
             more == (ok \/ ~break_on_failure) /\ at < NumStorageLevels
  <2>1. /\ pc = "storage" /\ accum' = (accum /\ ok)
        /\ accum' => levelsDone' = levelsDone \cup {at}
        /\ pc' = IF more THEN "storage" ELSE "read-fill"
        /\ at' = IF more THEN at + 1 ELSE 1
    BY <1>5 DEF EvaluateStorage, EvaluateLevel
  <2>2. accum => levelsDone = 0 .. at - 1
    BY <2>1 DEF Completeness, EvaluatedSoFar, Judged, Before
  <2>3. accum' => levelsDone' = 0 .. at
    <3>1. 0 .. at = (0 .. at - 1) \cup {at}
      BY <1>2
    <3> QED
      BY <2>1, <2>2, <3>1
  <2>4. CASE more
    <3>1. pc' = "storage" /\ at' - 1 = at
      BY <1>2, <2>1, <2>4
    <3> QED
      BY <1>2, <1>3, <2>3, <3>1 DEF EvaluatedSoFar, Judged, Passed, Before, Connecting
  <2>5. CASE ~more
    <3>1. pc' = "read-fill" /\ at' = 1
      BY <2>1, <2>5
    <3>2. accum' => at = NumStorageLevels
      <4>1. accum' => ok
        BY <2>1
      <4> QED
        BY <1>2, <2>5, <4>1, LevelsAre
    <3>4. accum' => levelsDone' = Levels
      BY <2>3, <3>2, LevelsAre
    <3>3. Passed' = {}
      BY <3>1 DEF Passed, NetworksBelow
    <3> QED
      BY <1>2, <1>3, <3>1, <3>4, <3>3 DEF EvaluatedSoFar, Judged, Before, Connecting
  <2> QED
    BY <2>4, <2>5
<1> QED
  BY <1>4, <1>5

LEMMA NetworksAre ==
  /\ \A l \in Storage : NetworksBelow(l + 1) = NetworksBelow(l) \cup {ReadFill[l], DrainUpdate[l]}
  /\ Connected = NetworksBelow(NumStorageLevels + 1)
  /\ OwnNetworks => \A l \in Storage : ReadFill[l] \notin NetworksBelow(l)
  /\ OwnNetworks => \A l \in Storage : DrainUpdate[l] \notin NetworksBelow(l)
<1>1. ASSUME NEW l \in Storage
      PROVE  NetworksBelow(l + 1) = NetworksBelow(l) \cup {ReadFill[l], DrainUpdate[l]}
  <2>1. l \in Nat /\ 1 .. (l + 1) - 1 = (1 .. l - 1) \cup {l}
    BY LevelsAre
  <2> QED
    BY <2>1 DEF NetworksBelow
<1>2. Connected = NetworksBelow(NumStorageLevels + 1)
  <2>1. Storage = 1 .. (NumStorageLevels + 1) - 1
    BY LevelsAre
  <2> QED
    BY <2>1 DEF Connected, NetworksBelow
<1>3. ASSUME OwnNetworks, NEW l \in Storage
      PROVE  ReadFill[l] \notin NetworksBelow(l) /\ DrainUpdate[l] \notin NetworksBelow(l)
  <2>1. \A k \in 1 .. l - 1 : k \in Storage /\ k # l
    BY LevelsAre
  <2> QED
    BY <1>3, <2>1 DEF OwnNetworks, NetworksBelow
<1> QED
  BY <1>1, <1>2, <1>3

\* While nothing has failed the loop over the connections evaluates every
\* network it passes; it breaks off only after a failure.
LEMMA NetworksComplete ==
  ASSUME OwnNetworks, Completeness, EvaluateReadFill \/ EvaluateDrainUpdate
  PROVE  (EvaluatedSoFar /\ StatsAreComplete)'
<1> USE DEF callerVars
<1>1. pc \in Connecting /\ topologyDone' = topologyDone /\ levelsDone' = levelsDone
  BY DEF EvaluateReadFill, EvaluateDrainUpdate, ConnectionStep, Connecting
<1>2. /\ ~topologyDone' /\ at \in Storage /\ accum \in BOOLEAN
      /\ accum => levelsDone = Levels /\ Passed \subseteq networksDone
      /\ networksDone \subseteq Passed
      /\ pc = "drain-update" => s = "ok" \/ (s = "failed" /\ ~accum)
  BY <1>1 DEF Completeness, Agreement, AccumTracksStatus, EvaluatedSoFar, TypeOK, Judged, Before, Connecting
<1>3. StatsAreComplete'
  BY <1>2 DEF StatsAreComplete
<1>4. ASSUME NEW n, NEW r \in {"unset", "ok", "failed"}, EvaluateNetwork(n, r), s # "unset" \/ n \notin networksDone,
             pc = "drain-update" \/ n \notin networksDone
      PROVE  /\ r = "ok" \/ (r = "failed" /\ ~accum')
             /\ accum' => accum /\ networksDone' = networksDone \cup {n}
             /\ networksDone' \subseteq networksDone \cup {n}
  BY <1>2, <1>4 DEF EvaluateNetwork
<1>5. CASE EvaluateReadFill
  <2>1. PICK r \in {"unset", "ok", "failed"} : \E failed \in ReadsAsFailed(r) :
          ConnectionStep(ReadFill[at], "drain-update", r, failed)
    BY <1>5 DEF EvaluateReadFill
  <2>2. pc = "read-fill"
    BY <1>5 DEF EvaluateReadFill
  <2>3. Passed = NetworksBelow(at)
    BY <2>2 DEF Passed
  <2>4. ReadFill[at] \notin networksDone
    BY <1>2, <2>3, NetworksAre
  <2>5. EvaluateNetwork(ReadFill[at], r) /\ s' = r
    BY <2>1 DEF ConnectionStep
  <2>6. /\ r = "ok" \/ (r = "failed" /\ ~accum')
        /\ accum' => accum /\ networksDone' = networksDone \cup {ReadFill[at]}
        /\ networksDone' \subseteq networksDone \cup {ReadFill[at]}
    BY <1>4, <2>4, <2>5
  <2>7. \/ pc' = "stats" /\ r = "failed"
        \/ pc' = "drain-update" /\ at' = at
    BY <2>1, <2>6 DEF ConnectionStep, ReadsAsFailed
  <2>8. CASE pc' = "stats" /\ r = "failed"
    BY <1>3, <2>6, <2>8 DEF EvaluatedSoFar, Before, Connecting
  <2>9. CASE pc' = "drain-update" /\ at' = at
    <3>1. Passed' = Passed \cup {ReadFill[at]} /\ Judged' = Levels
      BY <2>3, <2>9 DEF Passed, Judged, NetworksBelow, Before
    <3> QED
      BY <1>1, <1>2, <1>3, <2>5, <2>6, <2>9, <3>1 DEF EvaluatedSoFar, Before, Connecting
  <2> QED
    BY <2>7, <2>8, <2>9
<1>6. CASE EvaluateDrainUpdate
  <2>1. PICK r \in {"unset", "ok", "failed"} : \E failed \in ReadsAsFailed(r) :
          ConnectionStep(DrainUpdate[at], "read-fill", r, failed)
    BY <1>6 DEF EvaluateDrainUpdate
  <2>2. pc = "drain-update"
    BY <1>6 DEF EvaluateDrainUpdate
  <2>3. Passed = NetworksBelow(at) \cup {ReadFill[at]}
    BY <2>2 DEF Passed
  <2>5. EvaluateNetwork(DrainUpdate[at], r)
    BY <2>1 DEF ConnectionStep
  <2>6. /\ r = "ok" \/ (r = "failed" /\ ~accum')
        /\ accum' => accum /\ networksDone' = networksDone \cup {DrainUpdate[at]}
        /\ networksDone' \subseteq networksDone \cup {DrainUpdate[at]}
    BY <1>2, <1>4, <2>2, <2>5
  <2>7. NetworksBelow(at + 1) = Passed \cup {DrainUpdate[at]}
    BY <1>2, <2>3, NetworksAre
  <2>8. \/ pc' = "stats" /\ (r = "failed" \/ at = NumStorageLevels)
        \/ pc' = "read-fill" /\ at' = at + 1
    BY <2>1, <2>6 DEF ConnectionStep, ReadsAsFailed
  <2>9. CASE pc' = "stats" /\ (r = "failed" \/ at = NumStorageLevels)
    <3>1. Passed' = Connected /\ Judged' = Levels
      BY <2>9 DEF Passed, Judged, Before
    <3>2. at = NumStorageLevels => Connected = Passed \cup {DrainUpdate[at]}
      BY <2>7, NetworksAre
    <3> QED
      BY <1>1, <1>2, <1>3, <2>6, <2>9, <3>1, <3>2 DEF EvaluatedSoFar, Before, Connecting
  <2>10. CASE pc' = "read-fill" /\ at' = at + 1
    <3>1. Passed' = NetworksBelow(at + 1) /\ Judged' = Levels
      BY <2>10 DEF Passed, Judged, NetworksBelow, Before
    <3> QED
      BY <1>1, <1>2, <1>3, <2>6, <2>7, <2>10, <3>1 DEF EvaluatedSoFar, Before, Connecting
  <2> QED
    BY <2>8, <2>9, <2>10
<1> QED
  BY <1>5, <1>6

LEMMA CompletenessStep ==
  ASSUME OwnNetworks, Completeness, [Next]_vars
  PROVE  Completeness'
<1> USE DEF callerVars, moduleVars, walkVars
<1> SUFFICES (EvaluatedSoFar /\ StatsAreComplete)'
  BY AgreementStep DEF Completeness
<1>1. CASE UNCHANGED vars \/ Terminate
  <2>1. UNCHANGED <<pc, at, s, accum, mapping, levelsDone, networksDone, topologyDone, stats>>
    BY <1>1 DEF vars, Terminate
  <2> QED
    BY <2>1 DEF Completeness, EvaluatedSoFar, StatsAreComplete, Judged, Passed, NetworksBelow
<1>2. ASSUME NEW m \in Mappings, EvaluateMapping(m) PROVE (EvaluatedSoFar /\ StatsAreComplete)'
  BY <1>2, BeginIsComplete DEF EvaluateMapping
<1>3. CASE CheckFormatModelsAndMapping \/ GetWorkingSets \/ PerformSparseProcessing
  <2>1. /\ pc \in Before /\ pc' \in Before \cup {"return"}
        /\ UNCHANGED <<levelsDone, networksDone, topologyDone>>
    BY <1>3 DEF CheckFormatModelsAndMapping, GetWorkingSets, PerformSparseProcessing, NoteFailures,
         Return, Before
  <2>2. ~topologyDone /\ levelsDone = {} /\ networksDone = {}
    BY <2>1 DEF Completeness, Agreement, AccumTracksStatus, EvaluatedSoFar
  <2> QED
    BY <2>1, <2>2 DEF EvaluatedSoFar, StatsAreComplete, Before, Connecting
<1>4. CASE EvaluateArithmetic \/ EvaluateStorage
  BY <1>4, LevelsComplete
<1>5. CASE EvaluateReadFill \/ EvaluateDrainUpdate
  BY <1>5, NetworksComplete
<1>6. CASE ComputeStats
  <2>1. /\ pc = "stats" /\ pc' = "return" /\ topologyDone' = (topologyDone \/ accum)
        /\ accum => stats' = [of |-> mapping, networks |-> networksDone]
        /\ UNCHANGED <<accum, mapping, levelsDone, networksDone>>
    BY <1>6 DEF ComputeStats
  <2>2. ~topologyDone /\ (accum => levelsDone = Levels /\ Connected \subseteq networksDone)
    BY <2>1 DEF Completeness, Agreement, AccumTracksStatus, EvaluatedSoFar, Judged, Passed, Before
  <2>3. topologyDone' => accum
    BY <2>1, <2>2
  <2>4. accum => stats'.of = mapping' /\ stats'.networks = networksDone
    BY <2>1
  <2> QED
    BY <2>1, <2>2, <2>3, <2>4 DEF EvaluatedSoFar, StatsAreComplete, Before, Connecting
<1>7. CASE ReturnToThread \/ ReturnToMain
  <2>1. /\ pc' \in {"idle", "printed"}
        /\ UNCHANGED <<levelsDone, networksDone, topologyDone, stats, mapping>>
    BY <1>7 DEF ReturnToThread, ReturnToMain
  <2> QED
    BY <2>1 DEF Completeness, EvaluatedSoFar, StatsAreComplete, Before, Connecting
<1>8. CASE ReevaluateBest
  BY <1>8, BeginIsComplete DEF ReevaluateBest
<1> QED
  BY <1>1, <1>2, <1>3, <1>4, <1>5, <1>6, <1>7, <1>8 DEF Next

\* An evaluated topology's stats are those of the mapping evaluated last, and
\* every level and connected network is in them, as long as no two storage
\* levels share a network: a network met again at another level would leave
\* the status that Topology::Evaluate tests there unassigned.
THEOREM StatsAreAlwaysComplete ==
  ASSUME OwnNetworks
  PROVE  Spec => []StatsAreComplete
<1>1. Init => Completeness
  <2> SUFFICES ASSUME Init PROVE Completeness
    OBVIOUS
  <2> QED
    BY AgreementInit DEF Init, Completeness, EvaluatedSoFar, StatsAreComplete, Before, Connecting
<1>2. Completeness /\ [Next]_vars => Completeness'
  BY CompletenessStep
<1>3. Completeness => StatsAreComplete
  BY DEF Completeness
<1> QED
  BY <1>1, <1>2, <1>3, PTL DEF Spec
=============================================================================
